-------------------------- MODULE SessionCore_proofs --------------------------
(***************************************************************************)
(* Proofs about SessionCore: its types, the slots, that it implements      *)
(* SessionSupervisor and SessionLifecycle, and why a session and its turn  *)
(* agree.                                                                  *)
(***************************************************************************)
EXTENDS SessionCore, SequenceTheorems, FiniteSetTheorems, TLAPS

S == INSTANCE SessionSupervisor_proofs WITH
         runnable <- {s \in Sessions : status[s] = "running"}

-----------------------------------------------------------------------------
(* The life of a session.                                                  *)

\* Every edge of the transition table (session-supervisor.ts) leads to a status.
LEMMA TransitionTyped ==
    ASSUME NEW c \in Status, NEW e \in Lifecycle!validTransitions(c)
    PROVE  Lifecycle!transition(c, e) \in Status
<1>1. CASE c = "idle"
  BY <1>1 DEF Status, Lifecycle!Status, Lifecycle!validTransitions, Lifecycle!transition, Lifecycle!transitions
<1>2. CASE c = "running"
  BY <1>2 DEF Status, Lifecycle!Status, Lifecycle!validTransitions, Lifecycle!transition, Lifecycle!transitions
<1>3. CASE c = "waiting_user"
  BY <1>3 DEF Status, Lifecycle!Status, Lifecycle!validTransitions, Lifecycle!transition, Lifecycle!transitions
<1>4. CASE c = "sleeping"
  BY <1>4 DEF Status, Lifecycle!Status, Lifecycle!validTransitions, Lifecycle!transition, Lifecycle!transitions
<1>5. CASE c = "blocked"
  BY <1>5 DEF Status, Lifecycle!Status, Lifecycle!validTransitions, Lifecycle!transition, Lifecycle!transitions
<1>6. CASE c = "archived"
  BY <1>6 DEF Status, Lifecycle!Status, Lifecycle!validTransitions, Lifecycle!transition, Lifecycle!transitions
<1> QED
  BY <1>1, <1>2, <1>3, <1>4, <1>5, <1>6 DEF Status, Lifecycle!Status

\* The events of the table that the core relies on, and where they lead.
LEMMA Outcomes ==
    /\ {"runtime_failure", "turn_finished", "agent_ask_user", "agent_schedule_sleep",
        "user_interrupt"} \subseteq Lifecycle!validTransitions("running")
    /\ "trigger_scheduled" \in Lifecycle!validTransitions("idle")
    /\ "triggers_empty" \in Lifecycle!validTransitions("sleeping")
BY DEF Lifecycle!validTransitions, Lifecycle!transitions

-----------------------------------------------------------------------------
\* Each INSTANCE has its own copy of the operators of FiniteSets.
LEMMA SameCardinality == \A a : Supervisor!Cardinality(a) = S!Cardinality(a)
BY DEF Supervisor!Cardinality, S!Cardinality

\* The same for IsFiniteSet.
LEMMA SameFiniteness == \A a : Supervisor!IsFiniteSet(a) = S!IsFiniteSet(a)
BY DEF Supervisor!IsFiniteSet, S!IsFiniteSet

\* The supervisor of the core is the one SessionSupervisor_proofs is about.
LEMMA SameSupervisor ==
    /\ S!Assumptions
    /\ \A q, a : Supervisor!Started(q, a) = S!Started(q, a)
    /\ \A q, a : Supervisor!Waiting(q, a) = S!Waiting(q, a)
    /\ \A q, s : Supervisor!Without(q, s) = S!Without(q, s)
<1>1. S!Assumptions
  BY SupervisorAssumptions, SameFiniteness DEF Supervisor!Assumptions, S!Assumptions
<1>2. \A a : Supervisor!FreeSlots(a) = S!FreeSlots(a)
  BY SameCardinality DEF Supervisor!FreeSlots, S!FreeSlots
<1>3. \A q, a : Supervisor!Admitted(q, a) = S!Admitted(q, a)
  BY <1>2 DEF Supervisor!Admitted, S!Admitted
<1>4. \A q, a : Supervisor!Started(q, a) = S!Started(q, a)
  BY <1>3 DEF Supervisor!Started, S!Started
<1>5. \A q, a : Supervisor!Waiting(q, a) = S!Waiting(q, a)
  BY <1>3 DEF Supervisor!Waiting, S!Waiting
<1>6. \A q, s : Supervisor!Without(q, s) = S!Without(q, s)
  BY DEF Supervisor!Without, S!Without
<1> QED
  BY <1>1, <1>4, <1>5, <1>6

-----------------------------------------------------------------------------
(* Types, one group of variables at a time.                                *)

Ctl == {"none", "live", "aborted"}

StatusTyped == status \in [Sessions -> Status]
UnreadTyped == unread \in [Sessions -> SUBSET Inputs]
HeldTyped   == heldBy \in [Sessions -> SUBSET Runtimes]
DiskTyped   == disk \in [Sessions -> [status : Status, unread : SUBSET Inputs,
                                      heldBy : SUBSET Runtimes]]
SlotsTyped  == queue \in Seq(Sessions) /\ active \in SUBSET Sessions
TurnsTyped  == /\ ctl \in [Sessions -> Ctl]
               /\ turn \in [Sessions -> Turns]
               /\ iteration \in [Sessions -> 0..(MaxIterations - 1)]
WorldTyped  == /\ trig \in [Triggers -> {"absent", "on", "off"}]
               /\ online \in SUBSET Runtimes
               /\ attached \in [Runtimes -> SUBSET Sessions]
               /\ ready \in BOOLEAN
BootTyped   == /\ phase \in {"loading", "syncing", "up", "stopping"}
               /\ bootRunning \in SUBSET Sessions
               /\ restarts \in 0..MaxRestarts
SweepTyped  == /\ sweep \in {"none", "block", "recover", "archive", "rehydrate"}
               /\ todo \in SUBSET (Sessions \X IF sweep \in {"block", "recover"}
                                               THEN Runtimes ELSE {"none"})

\* What a synchronous block of the core may change of a session.
CoreTyped == StatusTyped /\ UnreadTyped /\ SlotsTyped /\ TurnsTyped

\* TypeOK, in the groups of variables that the actions change together.
LEMMA TypeParts ==
    TypeOK <=> /\ CoreTyped /\ HeldTyped /\ DiskTyped
               /\ WorldTyped /\ BootTyped /\ SweepTyped
BY DEF TypeOK, CoreTyped, StatusTyped, UnreadTyped, HeldTyped, DiskTyped, SlotsTyped,
       TurnsTyped, WorldTyped, BootTyped, SweepTyped, Ctl

\* StartTurns keeps the types of what it is given.
LEMMA StartTyped ==
    ASSUME NEW stat \in [Sessions -> Status], NEW unr \in [Sessions -> SUBSET Inputs],
           NEW ctlf \in [Sessions -> Ctl], NEW turnf \in [Sessions -> Turns],
           NEW q \in Seq(Sessions), NEW a \in SUBSET Sessions,
           iteration \in [Sessions -> 0..(MaxIterations - 1)],
           StartTurns(stat, unr, ctlf, turnf, q, a)
    PROVE  CoreTyped'
<1> DEFINE began == Supervisor!Started(q, a)
           entered == {s \in began : stat[s] = "running" /\ ctlf[s] # "live"}
<1>1. PICK faulty \in SUBSET entered :
        /\ Supervisor!Drain(q, a)
        /\ status' = stat
        /\ ctl' = [s \in Sessions |-> IF s \in entered THEN "live" ELSE ctlf[s]]
        /\ turn' = [s \in Sessions |->
                       IF s \in entered \ faulty THEN "raced"
                       ELSE IF s \in began THEN "settled" ELSE turnf[s]]
        /\ unread' = [s \in Sessions |-> IF s \in entered \ faulty THEN {} ELSE unr[s]]
        /\ iteration' = [s \in Sessions |-> IF s \in began THEN 0 ELSE iteration[s]]
  BY DEF StartTurns
<1>2. SlotsTyped'
  <2>1. queue' = S!Waiting(q, a) /\ active' = a \cup S!Started(q, a)
    BY <1>1, SameSupervisor DEF Supervisor!Drain
  <2>2. S!Waiting(q, a) \in Seq(Sessions) /\ S!Started(q, a) \in SUBSET Sessions
    BY SameSupervisor, S!DrainTyped
  <2> QED
    BY <2>1, <2>2 DEF SlotsTyped
<1>3. (status' \in [Sessions -> Status]) /\ (unread' \in [Sessions -> SUBSET Inputs])
  BY <1>1
<1>4. TurnsTyped'
  <2>1. ctl' \in [Sessions -> Ctl]
    BY <1>1 DEF Ctl
  <2>2. turn' \in [Sessions -> Turns]
    BY <1>1 DEF Turns
  <2>3. iteration' \in [Sessions -> 0..(MaxIterations - 1)]
    BY <1>1, BoundsTyped
  <2> QED
    BY <2>1, <2>2, <2>3 DEF TurnsTyped
<1> QED
  BY <1>2, <1>3, <1>4 DEF CoreTyped, StatusTyped, UnreadTyped

\* #dispatchOrBlock keeps the types.
LEMMA DispatchTyped ==
    ASSUME TypeOK, NEW s \in Sessions, NEW stat \in [Sessions -> Status],
           NEW unr \in [Sessions -> SUBSET Inputs], DispatchOrBlock(s, stat, unr)
    PROVE  CoreTyped'
<1>1. CASE StartTurns(stat, unr, ctl, turn, Append(queue, s), active)
  <2>1. Append(queue, s) \in Seq(Sessions)
    BY AppendProperties DEF TypeOK
  <2> QED
    BY <1>1, <2>1, StartTyped DEF TypeOK, Ctl
<1>2. CASE /\ status' \in [Sessions -> Status]
           /\ unread' = unr
           /\ UNCHANGED <<slotVars, turnVars>>
  BY <1>2 DEF TypeOK, CoreTyped, StatusTyped, UnreadTyped, SlotsTyped, TurnsTyped, Ctl,
              slotVars, turnVars
<1>3. [stat EXCEPT ![s] = Lifecycle!transition("running", "runtime_failure")]
         \in [Sessions -> Status]
  BY Outcomes, TransitionTyped DEF Status, Lifecycle!Status
<1> QED
  BY <1>1, <1>2, <1>3 DEF DispatchOrBlock

\* A wake-up keeps the types.
LEMMA WakeTyped ==
    ASSUME TypeOK, NEW s \in Sessions, NEW event,
           NEW unr \in [Sessions -> SUBSET Inputs], Wake(s, event, unr)
    PROVE  CoreTyped'
<1>1. Lifecycle!transition(status[s], event) \in Status
  BY TransitionTyped DEF TypeOK, Wake
<1>2. [status EXCEPT ![s] = Lifecycle!transition(status[s], event)] \in [Sessions -> Status]
  BY <1>1 DEF TypeOK
<1> QED
  BY <1>2, DispatchTyped DEF Wake

\* #abortScheduledTurn keeps the types.
LEMMA AbortTyped ==
    ASSUME TypeOK, NEW s \in Sessions, AbortScheduledTurn(s)
    PROVE  SlotsTyped' /\ TurnsTyped'
<1>1. S!Without(queue, s) \in Seq(Sessions)
  BY S!WithoutKeepsOrder DEF TypeOK
<1> QED
  BY <1>1, SameSupervisor
     DEF TypeOK, AbortScheduledTurn, Supervisor!Dequeue, SlotsTyped, TurnsTyped, Ctl

\* A transition leads to a status.
LEMMA SetStatusTyped ==
    ASSUME TypeOK, NEW s \in Sessions, NEW event, SetStatus(s, event)
    PROVE  StatusTyped'
BY TransitionTyped DEF TypeOK, SetStatus, StatusTyped

\* #syncTriggerState leads to a status.
LEMMA SyncedTyped ==
    ASSUME TypeOK, NEW s \in Sessions, NEW tr
    PROVE  Synced(tr, s) \in Status
BY Outcomes, TransitionTyped DEF TypeOK, Synced, Status, Lifecycle!Status

\* The outcomes of a turn keep the types.
LEMMA EndTurnTyped ==
    ASSUME TypeOK, NEW s \in Sessions,
           NEW event \in Lifecycle!validTransitions("running"), EndTurn(s, event)
    PROVE  StatusTyped' /\ UnreadTyped' /\ TurnsTyped'
BY TransitionTyped DEF TypeOK, EndTurn, Settle, StatusTyped, UnreadTyped, TurnsTyped, Ctl,
                       Turns, Status, Lifecycle!Status

\* The iteration of the agent loop stays below MAX_ITERATIONS.
LEMMA NextIterationTyped ==
    ASSUME TypeOK, NEW s \in Sessions, NextIteration(s)
    PROVE  StatusTyped' /\ UnreadTyped' /\ TurnsTyped'
<1>1. iteration[s] + 1 \in 0..(MaxIterations - 1)
  BY BoundsTyped DEF TypeOK, NextIteration
<1> QED
  BY <1>1 DEF TypeOK, NextIteration, StatusTyped, UnreadTyped, TurnsTyped, Ctl, Turns

\* Frames: a group of variables that stays as it is stays typed.
LEMMA Frames ==
    ASSUME TypeOK
    PROVE  /\ UNCHANGED status => StatusTyped'
           /\ UNCHANGED unread => UnreadTyped'
           /\ UNCHANGED heldBy => HeldTyped'
           /\ UNCHANGED disk => DiskTyped'
           /\ UNCHANGED slotVars => SlotsTyped'
           /\ UNCHANGED turnVars => TurnsTyped'
           /\ UNCHANGED worldVars => WorldTyped'
           /\ UNCHANGED bootVars => BootTyped'
           /\ UNCHANGED sweepVars => SweepTyped'
BY TypeParts DEF CoreTyped, StatusTyped, UnreadTyped, HeldTyped, DiskTyped, SlotsTyped,
       TurnsTyped, WorldTyped, BootTyped, SweepTyped, slotVars, turnVars, worldVars,
       bootVars, sweepVars

\* TypeParts, for the next state.
LEMMA TypePartsNext ==
    ASSUME StatusTyped', UnreadTyped', SlotsTyped', TurnsTyped', HeldTyped', DiskTyped',
           WorldTyped', BootTyped', SweepTyped'
    PROVE  TypeOK'
BY DEF TypeOK, StatusTyped, UnreadTyped, HeldTyped, DiskTyped, SlotsTyped,
       TurnsTyped, WorldTyped, BootTyped, SweepTyped, Ctl

\* The requests keep the types.
LEMMA RequestKeepsTypes ==
    ASSUME TypeOK, NEW s \in Sessions, RequestOf(s)
    PROVE  TypeOK'
<1>1. /\ status \in [Sessions -> Status]
      /\ [unread EXCEPT ![s] = @ \cup {"user"}] \in [Sessions -> SUBSET Inputs]
      /\ unread \in [Sessions -> SUBSET Inputs]
  BY DEF TypeOK, Inputs
<1>2. CASE UNCHANGED <<heldBy, disk, worldVars, bootVars, sweepVars>> /\ CoreTyped'
  BY <1>2, Frames, TypePartsNext DEF CoreTyped
<1>3. CASE AppendUserMessage(s)
  BY <1>1, <1>2, <1>3, WakeTyped DEF AppendUserMessage
<1>4. CASE CreateMessageVariant(s)
  <2>1. \E event : Wake(s, event, [unread EXCEPT ![s] = @ \cup {"user"}])
    BY <1>4 DEF CreateMessageVariant
  <2> QED
    BY <1>1, <1>2, <1>4, <2>1, WakeTyped DEF CreateMessageVariant
<1>5. CASE RetryBlockedSession(s)
  BY <1>1, <1>2, <1>5, WakeTyped DEF RetryBlockedSession
<1>6. CASE RunSession(s)
  BY <1>1, <1>2, <1>6, DispatchTyped DEF RunSession
<1>7. CASE InterruptSession(s)
  BY <1>2, <1>7, AbortTyped, SetStatusTyped, Frames DEF InterruptSession, CoreTyped
<1>8. CASE DeleteSession(s)
  BY <1>2, <1>8, SetStatusTyped, Frames DEF DeleteSession, CoreTyped
<1> QED
  BY <1>3, <1>4, <1>5, <1>6, <1>7, <1>8 DEF RequestOf

\* The steps of the scheduler keep the types.
LEMMA TriggerKeepsTypes ==
    ASSUME TypeOK, NEW t \in Triggers, TriggerStep(t)
    PROVE  TypeOK'
<1>1. Owner[t] \in Sessions
  BY OwnerTyped
<1>2. WorldTyped'
  BY DEF TypeOK, TriggerStep, ScheduleTrigger, CancelTrigger, DeleteTrigger, FireTrigger,
         SyncTriggerState, WorldTyped
<1>3. ASSUME SyncTriggerState(t)
      PROVE  TypeOK'
  <2>1. StatusTyped'
    BY <1>1, <1>3, SyncedTyped DEF TypeOK, SyncTriggerState, StatusTyped
  <2> QED
    BY <1>2, <1>3, <2>1, Frames, TypePartsNext DEF SyncTriggerState
<1>4. ASSUME FireTrigger(t)
      PROVE  TypeOK'
  <2> DEFINE s == Owner[t]
             unr == [unread EXCEPT ![s] = @ \cup {"trigger"}]
  <2>1. unr \in [Sessions -> SUBSET Inputs]
    BY DEF TypeOK, Inputs
  <2>2. CASE Wake(s, "trigger_fired", unr)
    <3>1. CoreTyped'
      BY <1>1, <2>1, <2>2, WakeTyped
    <3> QED
      BY <1>2, <1>4, <3>1, Frames, TypePartsNext DEF FireTrigger, CoreTyped
  <2>3. CASE unread' = unr /\ UNCHANGED <<status, slotVars, turnVars>>
    <3>1. UnreadTyped'
      BY <2>1, <2>3 DEF UnreadTyped
    <3> QED
      BY <1>2, <1>4, <2>3, <3>1, Frames, TypePartsNext DEF FireTrigger
  <2> QED
    BY <1>4, <2>2, <2>3 DEF FireTrigger
<1> QED
  BY <1>3, <1>4 DEF TriggerStep, ScheduleTrigger, CancelTrigger, DeleteTrigger

\* The steps of a turn keep the types.
LEMMA TurnKeepsTypes ==
    ASSUME TypeOK, NEW s \in Sessions, TurnStep(s) \/ Microtask(s)
    PROVE  TypeOK'
<1>1. ASSUME TurnFrame, StatusTyped', UnreadTyped', TurnsTyped'
      PROVE  TypeOK'
  BY <1>1, Frames, TypePartsNext DEF TurnFrame
<1>2. TurnFinished(s) \/ TurnFailed(s) => StatusTyped' /\ UnreadTyped' /\ TurnsTyped'
  BY EndTurnTyped, Outcomes DEF TurnFinished, TurnFailed
<1>3. FinalizeAborted(s) => StatusTyped' /\ UnreadTyped' /\ TurnsTyped'
  BY EndTurnTyped, Outcomes DEF FinalizeAborted, EndTurn
<1>4. CASE Iterate(s)
  BY <1>1, <1>4, NextIterationTyped DEF Iterate
<1>5. CASE FinishTurn(s)
  BY <1>1, <1>2, <1>5 DEF FinishTurn
<1>6. CASE AskUser(s)
  BY <1>1, <1>6, EndTurnTyped, Outcomes DEF AskUser
<1>7. CASE FailTurn(s)
  BY <1>1, <1>2, <1>7 DEF FailTurn
<1>8. CASE Compact(s)
  <2>1. TurnsTyped'
    BY <1>8 DEF Compact, TypeOK, TurnsTyped, Turns, Ctl
  <2> QED
    BY <1>1, <1>8, <2>1, Frames DEF Compact
<1>9. CASE CompactDone(s)
  <2>1. FinalizeAborted(s) \/ TurnFinished(s) \/ TurnFailed(s) \/ NextIteration(s)
    BY <1>9 DEF CompactDone
  <2> QED
    BY <1>1, <1>2, <1>3, <1>9, <2>1, NextIterationTyped DEF CompactDone
<1>10. CASE Unwind(s)
  BY <1>1, <1>3, <1>10 DEF Unwind
<1>11. CASE ReleaseSlot(s)
  <2>1. /\ [turn EXCEPT ![s] = "none"] \in [Sessions -> Turns]
        /\ active \ {s} \in SUBSET Sessions
    BY DEF TypeOK, Turns
  <2>2. CoreTyped'
    BY <1>11, <2>1, StartTyped DEF ReleaseSlot, TypeOK, Ctl
  <2> QED
    BY <1>11, <2>2, Frames, TypePartsNext DEF ReleaseSlot, CoreTyped
<1> QED
  BY <1>4, <1>5, <1>6, <1>7, <1>8, <1>9, <1>10, <1>11 DEF TurnStep, Microtask

\* The steps of the runtimes keep the types.
LEMMA RuntimeKeepsTypes ==
    ASSUME TypeOK, NEW r \in Runtimes, RuntimeStep(r)
    PROVE  TypeOK'
<1>1. CASE RuntimeDown(r)
  <2>1. WorldTyped' /\ SweepTyped'
    BY <1>1 DEF TypeOK, RuntimeDown, WorldTyped, SweepTyped
  <2> QED
    BY <1>1, <2>1, Frames, TypePartsNext DEF RuntimeDown, threadVars
<1>2. CASE RuntimeUp(r)
  <2>1. WorldTyped' /\ SweepTyped'
    BY <1>2 DEF TypeOK, RuntimeUp, HeldPairs, WorldTyped, SweepTyped
  <2> QED
    BY <1>2, <2>1, Frames, TypePartsNext DEF RuntimeUp, threadVars
<1>3. ASSUME NEW s \in Sessions, Attach(s, r)
      PROVE  TypeOK'
  <2>1. WorldTyped'
    BY <1>3 DEF TypeOK, Attach, WorldTyped
  <2> QED
    BY <1>3, <2>1, Frames, TypePartsNext DEF Attach, threadVars
<1> QED
  BY <1>1, <1>2, <1>3 DEF RuntimeStep

\* The loops over sessions keep the types.
LEMMA SweepKeepsTypes ==
    ASSUME TypeOK, SweepStep
    PROVE  TypeOK'
<1>1. PICK p \in todo : BlockStep(p) \/ RecoverStep(p) \/ ArchiveStep(p) \/ RehydrateStep(p)
  BY DEF SweepStep
<1> DEFINE s == p[1]
<1>2. s \in Sessions /\ (sweep \in {"block", "recover"} => p[2] \in Runtimes)
  BY <1>1 DEF TypeOK
<1>3. ASSUME NEW kind, SweepOver(kind, p), CoreTyped', HeldTyped'
      PROVE  TypeOK'
  <2>1. SweepTyped'
    BY <1>3 DEF TypeOK, SweepOver, SweepTyped
  <2> QED
    BY <1>3, <2>1, Frames, TypePartsNext DEF SweepOver, CoreTyped
<1>4. CASE BlockStep(p)
  <2>1. ASSUME AbortScheduledTurn(s), SetStatus(s, "runtime_failure"), UNCHANGED unread
        PROVE  CoreTyped'
    BY <1>2, <2>1, AbortTyped, SetStatusTyped, Frames DEF CoreTyped
  <2>2. HeldTyped'
    <3>1. p[2] \in Runtimes
      BY <1>2, <1>4 DEF BlockStep, SweepOver
    <3>2. CASE heldBy' = [heldBy EXCEPT ![s] = @ \cup {p[2]}]
      BY <3>1, <3>2 DEF TypeOK, HeldTyped
    <3>3. CASE UNCHANGED heldBy
      BY <3>3, Frames
    <3> QED
      BY <1>4, <3>2, <3>3 DEF BlockStep, threadVars
  <2>3. CoreTyped'
    BY <1>4, <2>1, Frames DEF BlockStep, CoreTyped, threadVars
  <2> QED
    BY <1>3, <1>4, <2>2, <2>3 DEF BlockStep
<1>5. CASE RecoverStep(p)
  <2>1. Wake(s, "runtime_recovered", unread) => CoreTyped'
    BY <1>2, WakeTyped DEF TypeOK
  <2>2. HeldTyped'
    <3>1. CASE heldBy' = [heldBy EXCEPT ![s] = @ \ {p[2]}]
      BY <3>1 DEF TypeOK, HeldTyped
    <3>2. CASE UNCHANGED heldBy
      BY <3>2, Frames
    <3> QED
      BY <1>5, <3>1, <3>2 DEF RecoverStep, threadVars
  <2>3. CoreTyped'
    BY <1>5, <2>1, Frames DEF RecoverStep, CoreTyped, threadVars
  <2> QED
    BY <1>3, <1>5, <2>2, <2>3 DEF RecoverStep
<1>6. CASE ArchiveStep(p)
  <2>1. StatusTyped'
    BY <1>6 DEF ArchiveStep, TypeOK, StatusTyped, Status, Lifecycle!Status
  <2>2. SlotsTyped' /\ TurnsTyped'
    BY <1>2, <1>6, AbortTyped, Frames DEF ArchiveStep
  <2> QED
    BY <1>3, <1>6, <2>1, <2>2, Frames DEF ArchiveStep, CoreTyped
<1>7. CASE RehydrateStep(p)
  <2>1. StatusTyped'
    BY <1>2, <1>7, SyncedTyped, Outcomes, TransitionTyped
       DEF RehydrateStep, TypeOK, StatusTyped, Status, Lifecycle!Status
  <2> QED
    BY <1>3, <1>7, <2>1, Frames DEF RehydrateStep, CoreTyped
<1> QED
  BY <1>1, <1>4, <1>5, <1>6, <1>7

\* A new process starts in a state of the right types.
LEMMA StartProcessTyped ==
    ASSUME TypeOK,
           NEW img \in [Sessions -> [status : Status, unread : SUBSET Inputs,
                                     heldBy : SUBSET Runtimes]],
           StartProcess(img)
    PROVE  TypeOK'
<1>1. StatusTyped' /\ UnreadTyped' /\ HeldTyped' /\ DiskTyped'
  BY DEF StartProcess, StatusTyped, UnreadTyped, HeldTyped, DiskTyped
<1>2. SlotsTyped'
  BY EmptySeq DEF StartProcess, Supervisor!Reset, SlotsTyped
<1>3. TurnsTyped'
  BY BoundsTyped DEF StartProcess, TurnsTyped, Ctl, Turns
<1>4. WorldTyped'
  BY BoundsTyped DEF StartProcess, TypeOK, WorldTyped
<1>5. BootTyped'
  BY BoundsTyped DEF StartProcess, TypeOK, BootTyped
<1>6. SweepTyped'
  BY DEF StartProcess, SweepTyped
<1> QED
  BY <1>1, <1>2, <1>3, <1>4, <1>5, <1>6, TypePartsNext

\* What a flush writes has the type of the disk.
LEMMA ImageTyped ==
    ASSUME TypeOK
    PROVE  [s \in Sessions |-> Image(s)]
              \in [Sessions -> [status : Status, unread : SUBSET Inputs,
                                heldBy : SUBSET Runtimes]]
BY DEF TypeOK, Image

\* The steps of the process keep the types.
LEMMA ProcessKeepsTypes ==
    ASSUME TypeOK,
           ArchiveProject \/ SetProvider \/ EndSweep \/ Flush \/ Crash \/ Shutdown \/ Exit \/ Boot
    PROVE  TypeOK'
<1>1. CASE ArchiveProject
  <2>1. SweepTyped'
    BY <1>1, SubsetsTyped DEF ArchiveProject, SweepTyped
  <2> QED
    BY <1>1, <2>1, Frames, TypePartsNext DEF ArchiveProject, threadVars
<1>2. CASE SetProvider
  <2>1. WorldTyped'
    BY <1>2 DEF TypeOK, SetProvider, WorldTyped
  <2> QED
    BY <1>2, <2>1, Frames, TypePartsNext DEF SetProvider, threadVars
<1>3. CASE EndSweep
  <2>1. BootTyped' /\ SweepTyped'
    BY <1>3 DEF TypeOK, EndSweep, BootTyped, SweepTyped
  <2> QED
    BY <1>3, <2>1, Frames, TypePartsNext DEF EndSweep, threadVars
<1>4. CASE Flush
  <2>1. DiskTyped'
    BY <1>4, ImageTyped DEF Flush, DiskTyped
  <2> QED
    BY <1>4, <2>1, Frames, TypePartsNext DEF Flush, threadVars
<1>5. CASE Crash
  BY <1>5, StartProcessTyped DEF Crash, TypeOK
<1>6. CASE Shutdown
  <2>1. SlotsTyped'
    BY <1>6, EmptySeq DEF TypeOK, Shutdown, Supervisor!Stop, SlotsTyped
  <2>2. TurnsTyped' /\ BootTyped'
    BY <1>6 DEF TypeOK, Shutdown, TurnsTyped, Ctl, BootTyped
  <2> QED
    BY <1>6, <2>1, <2>2, Frames, TypePartsNext DEF Shutdown, threadVars
<1>7. CASE Exit
  BY <1>7, StartProcessTyped, ImageTyped DEF Exit
<1>8. CASE BootRecover
  <2>1. BootTyped' /\ SweepTyped'
    BY <1>8 DEF TypeOK, BootRecover, HeldPairs, BootTyped, SweepTyped
  <2> QED
    BY <1>8, <2>1, Frames, TypePartsNext DEF BootRecover, threadVars
<1>9. CASE BootRehydrate
  <2>1. SweepTyped'
    BY <1>9 DEF BootRehydrate, SweepTyped
  <2> QED
    BY <1>9, <2>1, Frames, TypePartsNext DEF BootRehydrate, threadVars
<1> QED
  BY <1>1, <1>2, <1>3, <1>4, <1>5, <1>6, <1>7, <1>8, <1>9 DEF Boot

\* The initial states have the right types.
LEMMA InitTyped == Init => TypeOK
<1> SUFFICES ASSUME Init PROVE TypeOK
  OBVIOUS
<1>1. CoreTyped
  BY EmptySeq, BoundsTyped DEF Init, CoreTyped, StatusTyped, UnreadTyped, SlotsTyped,
     TurnsTyped, Ctl, Turns, Status, Lifecycle!Status
<1>2. HeldTyped /\ DiskTyped
  BY DEF Init, Image, HeldTyped, DiskTyped, Status, Lifecycle!Status
<1>3. WorldTyped /\ BootTyped /\ SweepTyped
  BY BoundsTyped DEF Init, WorldTyped, BootTyped, SweepTyped
<1> QED
  BY <1>1, <1>2, <1>3, TypeParts

\* Every step keeps the types.
LEMMA NextTyped == TypeOK /\ [Next]_vars => TypeOK'
<1> SUFFICES ASSUME TypeOK, [Next]_vars PROVE TypeOK'
  OBVIOUS
<1>1. CASE UNCHANGED vars
  BY <1>1 DEF vars, threadVars, slotVars, turnVars, worldVars, bootVars, sweepVars, TypeOK
<1>2. CASE Next
  BY <1>2, RequestKeepsTypes, TurnKeepsTypes, TriggerKeepsTypes, RuntimeKeepsTypes,
     SweepKeepsTypes, ProcessKeepsTypes DEF Next
<1> QED
  BY <1>1, <1>2

\* Every variable of the core keeps its type, whatever the numbers of sessions,
\* triggers, runtimes, slots, iterations and restarts.
THEOREM CoreIsTyped == Spec => []TypeOK
BY InitTyped, NextTyped, PTL DEF Spec

-----------------------------------------------------------------------------
(* The core uses the supervisor as SessionSupervisor describes it, and the *)
(* slots are held by the turns.                                            *)

Slotted == Supervisor!Next /\ SlotHeldByTurn'

\* The events that wake a session lead to "running" from wherever they may
\* come.
LEMMA WakesRun ==
    ASSUME NEW c \in Status,
           NEW e \in {"user_message", "user_reply", "user_retry", "trigger_fired",
                      "runtime_recovered"},
           e \in Lifecycle!validTransitions(c)
    PROVE  Lifecycle!transition(c, e) = "running"
<1> USE DEF Lifecycle!validTransitions, Lifecycle!transition, Lifecycle!transitions
<1>1. CASE c = "idle"
  BY <1>1
<1>2. CASE c = "running"
  BY <1>2
<1>3. CASE c = "waiting_user"
  BY <1>3
<1>4. CASE c = "sleeping"
  BY <1>4
<1>5. CASE c = "blocked"
  BY <1>5
<1>6. CASE c = "archived"
  BY <1>6
<1> QED
  BY <1>1, <1>2, <1>3, <1>4, <1>5, <1>6 DEF Status, Lifecycle!Status

\* Steps that leave the slots to the turns that hold them.
LEMMA SlotsUntouched ==
    ASSUME TypeOK, SlotHeldByTurn, UNCHANGED slotVars,
           \/ UNCHANGED turn
           \/ \E s \in Sessions, v \in Turns \ {"none"} :
                 turn[s] # "none" /\ turn' = [turn EXCEPT ![s] = v]
    PROVE  Slotted
<1>1. Supervisor!Next
  BY DEF Supervisor!Next, Supervisor!CoreStep, slotVars
<1>2. SlotHeldByTurn'
  BY DEF TypeOK, SlotHeldByTurn, slotVars
<1> QED
  BY <1>1, <1>2 DEF Slotted

\* #abortScheduledTurn is a dequeue.
LEMMA AbortSlotted ==
    ASSUME SlotHeldByTurn, NEW s \in Sessions, AbortScheduledTurn(s)
    PROVE  Slotted
<1>1. Supervisor!Next
  BY DEF AbortScheduledTurn, Supervisor!Next, Supervisor!Dequeue
<1>2. SlotHeldByTurn'
  BY DEF AbortScheduledTurn, Supervisor!Dequeue, SlotHeldByTurn
<1> QED
  BY <1>1, <1>2 DEF Slotted

\* The supervisor's #drain gives a slot to each turn it starts.
LEMMA StartHeld ==
    ASSUME NEW stat, NEW unr, NEW ctlf, NEW turnf, NEW q \in Seq(Sessions),
           NEW a \in SUBSET Sessions, a = {s \in Sessions : turnf[s] # "none"},
           StartTurns(stat, unr, ctlf, turnf, q, a)
    PROVE  SlotHeldByTurn' /\ Supervisor!Drain(q, a) /\ status' = stat
<1> DEFINE began == Supervisor!Started(q, a)
           entered == {s \in began : stat[s] = "running" /\ ctlf[s] # "live"}
<1>1. PICK faulty \in SUBSET entered :
        /\ Supervisor!Drain(q, a)
        /\ status' = stat
        /\ turn' = [s \in Sessions |->
                       IF s \in entered \ faulty THEN "raced"
                       ELSE IF s \in began THEN "settled" ELSE turnf[s]]
  BY DEF StartTurns
<1>2. began \in SUBSET Sessions
  BY SameSupervisor, S!DrainTyped
<1>3. active' = a \cup began
  BY <1>1 DEF Supervisor!Drain
<1>4. \A s \in Sessions : turn'[s] # "none" <=> s \in a \cup began
  BY <1>1, <1>2
<1> QED
  BY <1>1, <1>2, <1>3, <1>4 DEF SlotHeldByTurn

\* #dispatchOrBlock is an enqueue, or leaves the supervisor alone.
LEMMA DispatchSlotted ==
    ASSUME TypeOK, SlotHeldByTurn, NEW s \in Sessions, NEW stat, stat[s] = "running",
           NEW unr, DispatchOrBlock(s, stat, unr)
    PROVE  Slotted
<1>1. CASE Dispatchable(s) /\ StartTurns(stat, unr, ctl, turn, Append(queue, s), active)
  <2>1. Append(queue, s) \in Seq(Sessions)
    BY AppendProperties DEF TypeOK
  <2>2. /\ SlotHeldByTurn'
        /\ Supervisor!Drain(Append(queue, s), active)
        /\ status' = stat
    BY <1>1, <2>1, StartHeld DEF TypeOK, SlotHeldByTurn
  <2>3. Supervisor!Next
    BY <1>1, <2>2 DEF Dispatchable, Supervisor!Next, Supervisor!Enqueue
  <2> QED
    BY <2>2, <2>3 DEF Slotted
<1>2. CASE UNCHANGED <<slotVars, turnVars>>
  BY <1>2, SlotsUntouched DEF turnVars
<1> QED
  BY <1>1, <1>2 DEF DispatchOrBlock

\* So is a wake-up.
LEMMA WakeSlotted ==
    ASSUME TypeOK, SlotHeldByTurn, NEW s \in Sessions, NEW unr,
           NEW event \in {"user_message", "user_reply", "user_retry", "trigger_fired",
                          "runtime_recovered"},
           Wake(s, event, unr)
    PROVE  Slotted
<1>1. Lifecycle!transition(status[s], event) = "running"
  BY WakesRun DEF TypeOK, Wake
<1>2. [status EXCEPT ![s] = Lifecycle!transition(status[s], event)][s] = "running"
  BY <1>1 DEF TypeOK
<1> QED
  BY <1>2, DispatchSlotted DEF Wake

\* The requests use the supervisor as specified.
LEMMA RequestSlotted ==
    ASSUME TypeOK, SlotHeldByTurn, NEW s \in Sessions, RequestOf(s)
    PROVE  Slotted
<1>1. CASE AppendUserMessage(s)
  BY <1>1, WakeSlotted DEF AppendUserMessage
<1>2. CASE CreateMessageVariant(s)
  <2>1. \E event \in {"user_message", "user_reply", "user_retry"} :
           Wake(s, event, [unread EXCEPT ![s] = @ \cup {"user"}])
    BY <1>2 DEF CreateMessageVariant
  <2> QED
    BY <2>1, WakeSlotted
<1>3. CASE RetryBlockedSession(s)
  BY <1>3, WakeSlotted DEF RetryBlockedSession
<1>4. CASE RunSession(s)
  BY <1>4, DispatchSlotted DEF RunSession
<1>5. CASE InterruptSession(s)
  BY <1>5, AbortSlotted DEF InterruptSession
<1>6. CASE DeleteSession(s)
  BY <1>6, SlotsUntouched DEF DeleteSession, turnVars
<1> QED
  BY <1>1, <1>2, <1>3, <1>4, <1>5, <1>6 DEF RequestOf

\* So do the steps of a turn; the last one is the release.
LEMMA TurnSlotted ==
    ASSUME TypeOK, SlotHeldByTurn, NEW s \in Sessions, TurnStep(s) \/ Microtask(s)
    PROVE  Slotted
<1>1. CASE ReleaseSlot(s)
  <2> DEFINE turnf == [turn EXCEPT ![s] = "none"]
  <2>1. /\ active \ {s} = {x \in Sessions : turnf[x] # "none"}
        /\ active \ {s} \in SUBSET Sessions
        /\ s \in active
        /\ queue \in Seq(Sessions)
    BY <1>1 DEF TypeOK, SlotHeldByTurn, ReleaseSlot
  <2>2. SlotHeldByTurn' /\ Supervisor!Drain(queue, active \ {s})
    <3> HIDE DEF turnf
    <3>1. StartTurns(status, unread, ctl, turnf, queue, active \ {s})
      BY <1>1 DEF ReleaseSlot, turnf
    <3> QED
      BY <2>1, <3>1, StartHeld
  <2>3. Supervisor!Next
    BY <2>1, <2>2 DEF Supervisor!Next, Supervisor!Release
  <2> QED
    BY <2>2, <2>3 DEF Slotted
<1>2. CASE /\ UNCHANGED slotVars
           /\ turn[s] # "none"
           /\ \E v \in {"raced", "compactMid", "compactEnd", "settled"} :
                 turn' = [turn EXCEPT ![s] = v]
  <2>1. {"raced", "compactMid", "compactEnd", "settled"} \subseteq Turns \ {"none"}
    BY DEF Turns
  <2> QED
    BY <1>2, <2>1, SlotsUntouched
<1>3. CASE Iterate(s) \/ FinishTurn(s) \/ AskUser(s) \/ FailTurn(s)
  BY <1>2, <1>3 DEF Iterate, FinishTurn, AskUser, FailTurn, Answerable, NextIteration,
                    TurnFinished, TurnFailed, EndTurn, Settle, TurnFrame
<1>4. CASE Compact(s)
  BY <1>2, <1>4 DEF Compact, Answerable, TurnFrame
<1>5. CASE CompactDone(s)
  <2>1. FinalizeAborted(s) \/ TurnFinished(s) \/ TurnFailed(s) \/ NextIteration(s)
    BY <1>5 DEF CompactDone
  <2> QED
    BY <1>2, <1>5, <2>1 DEF CompactDone, Compacting, FinalizeAborted, NextIteration,
                            TurnFinished, TurnFailed, EndTurn, Settle, TurnFrame
<1>6. CASE Unwind(s)
  BY <1>2, <1>6 DEF Unwind, Unwinding, FinalizeAborted, Settle, TurnFrame
<1> QED
  BY <1>1, <1>3, <1>4, <1>5, <1>6 DEF TurnStep, Microtask

\* So do the steps of the scheduler.
LEMMA TriggerSlotted ==
    ASSUME TypeOK, SlotHeldByTurn, NEW t \in Triggers, TriggerStep(t)
    PROVE  Slotted
<1>1. CASE SyncTriggerState(t)
  BY <1>1, SlotsUntouched DEF SyncTriggerState, turnVars
<1>2. CASE FireTrigger(t)
  <2>1. Owner[t] \in Sessions
    BY OwnerTyped
  <2>2. \/ \E unr : Wake(Owner[t], "trigger_fired", unr)
        \/ UNCHANGED <<slotVars, turnVars>>
    BY <1>2 DEF FireTrigger
  <2> QED
    BY <2>1, <2>2, WakeSlotted, SlotsUntouched DEF turnVars
<1> QED
  BY <1>1, <1>2 DEF TriggerStep, ScheduleTrigger, CancelTrigger, DeleteTrigger

\* So do the loops over sessions.
LEMMA SweepSlotted ==
    ASSUME TypeOK, SlotHeldByTurn, SweepStep
    PROVE  Slotted
<1>1. PICK p \in todo : BlockStep(p) \/ RecoverStep(p) \/ ArchiveStep(p) \/ RehydrateStep(p)
  BY DEF SweepStep
<1>2. p[1] \in Sessions
  BY <1>1 DEF TypeOK
<1>3. CASE AbortScheduledTurn(p[1])
  BY <1>2, <1>3, AbortSlotted
<1>4. CASE Wake(p[1], "runtime_recovered", unread)
  BY <1>2, <1>4, WakeSlotted
<1>5. CASE UNCHANGED <<slotVars, turnVars>>
  BY <1>5, SlotsUntouched DEF turnVars
<1> QED
  BY <1>1, <1>3, <1>4, <1>5 DEF BlockStep, RecoverStep, ArchiveStep, RehydrateStep

\* A new process resets the supervisor.
LEMMA RestartSlotted ==
    ASSUME NEW img, StartProcess(img)
    PROVE  Slotted
BY DEF StartProcess, Slotted, SlotHeldByTurn, Supervisor!Reset, Supervisor!Next

\* The steps of the process use the supervisor as specified.
LEMMA ProcessSlotted ==
    ASSUME TypeOK, SlotHeldByTurn,
           ArchiveProject \/ SetProvider \/ EndSweep \/ Flush \/ Crash \/ Shutdown \/ Exit \/ Boot
    PROVE  Slotted
<1>1. CASE UNCHANGED <<slotVars, turnVars>>
  BY <1>1, SlotsUntouched DEF turnVars
<1>2. CASE Shutdown
  BY <1>2 DEF Shutdown, Slotted, SlotHeldByTurn, Supervisor!Stop, Supervisor!Next
<1>3. CASE Crash \/ Exit
  BY <1>3, RestartSlotted DEF Crash, Exit
<1> QED
  BY <1>1, <1>2, <1>3
     DEF ArchiveProject, SetProvider, EndSweep, Flush, Boot, BootRecover, BootRehydrate

\* Every step of the core is a step of the supervisor, or stutters.
LEMMA NextSlotted ==
    ASSUME TypeOK, SlotHeldByTurn, [Next]_vars
    PROVE  [Supervisor!Next]_(Supervisor!supervisorVars) /\ SlotHeldByTurn'
<1>1. CASE UNCHANGED vars
  BY <1>1 DEF vars, threadVars, slotVars, turnVars, Supervisor!supervisorVars,
              SlotHeldByTurn
<1>2. ASSUME Next PROVE Slotted
  <2>1. ASSUME NEW r \in Runtimes, RuntimeStep(r) PROVE Slotted
    BY <2>1, SlotsUntouched DEF RuntimeStep, RuntimeDown, RuntimeUp, Attach, turnVars
  <2> QED
    BY <1>2, <2>1, RequestSlotted, TurnSlotted, TriggerSlotted, SweepSlotted,
       ProcessSlotted DEF Next
<1> QED
  BY <1>1, <1>2 DEF Slotted

\* The initial states are initial states of the supervisor.
LEMMA InitSlotted == Init => Supervisor!Init /\ SlotHeldByTurn
BY DEF Init, Supervisor!Init, SlotHeldByTurn

\* No slot leaks, and none is given away while its turn still runs: through
\* aborts, failures, compaction, blocks, shutdowns and crashes.
THEOREM SlotsAreHeldByTurns == Spec => []SlotHeldByTurn
<1>1. Init => TypeOK /\ SlotHeldByTurn
  BY InitTyped, InitSlotted
<1>2. TypeOK /\ SlotHeldByTurn /\ [Next]_vars => TypeOK' /\ SlotHeldByTurn'
  BY NextTyped, NextSlotted
<1> QED
  BY <1>1, <1>2, PTL DEF Spec

\* The core implements the supervisor's specification, with runnable as the
\* set of running sessions.
THEOREM CoreImplementsSupervisor == Spec => SupervisorSpec
<1>1. Init => TypeOK /\ SlotHeldByTurn /\ Supervisor!Init
  BY InitTyped, InitSlotted
<1>2. TypeOK /\ SlotHeldByTurn /\ [Next]_vars =>
         TypeOK' /\ SlotHeldByTurn' /\ [Supervisor!Next]_(Supervisor!supervisorVars)
  BY NextTyped, NextSlotted
<1> QED
  BY <1>1, <1>2, PTL DEF Spec, SupervisorSpec, Supervisor!Spec

\* The supervisor's specification means the same in both instances.
LEMMA SameSpec ==
    /\ Supervisor!Init <=> S!Init
    /\ [Supervisor!Next]_(Supervisor!supervisorVars) <=> [S!Next]_(S!supervisorVars)
    /\ S!SlotInv => Supervisor!SlotInv
<1>1. Supervisor!Init <=> S!Init
  BY DEF Supervisor!Init, S!Init
<1>2. /\ \A s : Supervisor!Enqueue(s) <=> S!Enqueue(s)
      /\ \A s : Supervisor!Dequeue(s) <=> S!Dequeue(s)
      /\ \A s : Supervisor!Release(s) <=> S!Release(s)
  BY SameSupervisor DEF Supervisor!Enqueue, S!Enqueue, Supervisor!Dequeue, S!Dequeue,
     Supervisor!Release, S!Release, Supervisor!Drain, S!Drain, Supervisor!Queued, S!Queued
<1>3. Supervisor!Next <=> S!Next
  BY <1>2 DEF Supervisor!Next, S!Next, Supervisor!Stop, S!Stop, Supervisor!Reset, S!Reset,
     Supervisor!CoreStep, S!CoreStep
<1>4. S!SlotInv => Supervisor!SlotInv
  BY SameCardinality
     DEF Supervisor!SlotInv, S!SlotInv, Supervisor!ConcurrencyBound, S!ConcurrencyBound,
         Supervisor!OneTurnPerSession, S!OneTurnPerSession, Supervisor!WorkConserving,
         S!WorkConserving, Supervisor!Queued, S!Queued
<1> QED
  BY <1>1, <1>3, <1>4 DEF Supervisor!supervisorVars, S!supervisorVars

\* What the supervisor promises holds of the whole core: at most MaxConcurrent
\* turns, one per session, no slot idle while a session waits.
THEOREM CoreSlotsAreSafe == Spec => []Supervisor!SlotInv
<1>1. Spec => Supervisor!Spec
  BY CoreImplementsSupervisor DEF SupervisorSpec
<1>2. S!Spec => [](S!TypeOK /\ S!SlotInv)
  BY SameSupervisor, S!SlotsAreSafe
<1> QED
  BY <1>1, <1>2, SameSpec, PTL DEF Supervisor!Spec, S!Spec

-----------------------------------------------------------------------------
(* Why a session and its turn agree: CoreInv is inductive.  A step of the  *)
(* core does one of a few things to a session and its turn (it dispatches  *)
(* one, aborts one, ends one, or sets a status); first what each of them   *)
(* leaves behind, then that every step keeps each part of the invariant.   *)

Queued == Supervisor!Queued

\* What is known of every reachable state before CoreInv is.
Base == TypeOK /\ SlotHeldByTurn /\ S!Slots(queue, active)

-----------------------------------------------------------------------------
(* What #dispatchOrBlock, a wake-up and #abortScheduledTurn leave behind.  *)

\* The queue of the core, as the lemmas about the supervisor see it.
LEMMA SameQueued == Queued = S!Elements(queue) /\ Queued' = S!Elements(queue')
BY DEF Queued, Supervisor!Queued, S!Elements

\* The types of what the invariant is about.
LEMMA BaseTyped ==
    ASSUME Base
    PROVE  /\ status \in [Sessions -> Status]
           /\ unread \in [Sessions -> SUBSET Inputs]
           /\ ctl \in [Sessions -> {"none", "live", "aborted"}]
           /\ turn \in [Sessions -> Turns]
           /\ Queued \subseteq Sessions
           /\ active \subseteq Sessions
           /\ active \cap Queued = {}
           /\ active = {s \in Sessions : turn[s] # "none"}
<1>1. Queued \subseteq Sessions
  BY SameQueued, ElementOfSeq DEF Base, S!Slots, S!Elements
<1> QED
  BY <1>1, SameQueued DEF Base, TypeOK, SlotHeldByTurn, S!Slots

\* A dispatch starts the turn of s, queues it, finds one under way, or blocks s.
Dispatched(s, stat, unr) ==
    \/ /\ ready /\ Dispatchable(s)
       /\ status' = stat
       /\ active' = active \cup {s}
       /\ Queued' = Queued
       /\ ctl' = [ctl EXCEPT ![s] = "live"]
       /\ \/ /\ turn' = [turn EXCEPT ![s] = "raced"]
             /\ unread' = [unr EXCEPT ![s] = {}]
          \/ /\ SetupFaults
             /\ turn' = [turn EXCEPT ![s] = "settled"]
             /\ unread' = unr
    \/ /\ ready /\ Dispatchable(s)
       /\ status' = stat
       /\ unread' = unr
       /\ Queued' = Queued \cup {s}
       /\ UNCHANGED <<active, ctl, turn>>
    \/ /\ ready /\ ~Dispatchable(s)
       /\ status' = stat
       /\ unread' = unr
       /\ Queued' = Queued
       /\ UNCHANGED <<active, ctl, turn>>
    \/ /\ ~ready
       /\ status' = [stat EXCEPT ![s] = "blocked"]
       /\ unread' = unr
       /\ Queued' = Queued
       /\ UNCHANGED <<active, ctl, turn>>

\* #dispatchOrBlock touches the turn of no other session.
LEMMA DispatchLeaves ==
    ASSUME Base, NEW s \in Sessions, NEW stat \in [Sessions -> Status],
           NEW unr \in [Sessions -> SUBSET Inputs], stat[s] = "running",
           DispatchOrBlock(s, stat, unr)
    PROVE  Dispatched(s, stat, unr)
<1>1. CASE /\ ready /\ Dispatchable(s)
           /\ StartTurns(stat, unr, ctl, turn, Append(queue, s), active)
  <2> DEFINE q == Append(queue, s)
             began == Supervisor!Started(q, active)
             entered == {x \in began : stat[x] = "running" /\ ctl[x] # "live"}
  <2>1. PICK faulty \in SUBSET entered :
          /\ faulty # {} => SetupFaults
          /\ Supervisor!Drain(q, active)
          /\ status' = stat
          /\ ctl' = [x \in Sessions |-> IF x \in entered THEN "live" ELSE ctl[x]]
          /\ turn' = [x \in Sessions |->
                         IF x \in entered \ faulty THEN "raced"
                         ELSE IF x \in began THEN "settled" ELSE turn[x]]
          /\ unread' = [x \in Sessions |-> IF x \in entered \ faulty THEN {} ELSE unr[x]]
    BY <1>1 DEF StartTurns
  <2>2. s \notin active /\ s \notin S!Elements(queue) /\ ctl[s] # "live"
    BY <1>1, SameQueued DEF Dispatchable, Queued
  <2>3. \/ began = {} /\ S!Elements(S!Waiting(q, active)) = Queued \cup {s}
        \/ began = {s} /\ S!Elements(S!Waiting(q, active)) = Queued
    <3>1. S!Assumptions /\ S!Slots(queue, active)
      BY SameSupervisor DEF Base
    <3> QED
      BY <2>2, <3>1, S!EnqueueStarts, SameSupervisor, SameQueued
  <2>4. active' = active \cup began /\ Queued' = S!Elements(S!Waiting(q, active))
    BY <2>1, SameSupervisor, SameQueued DEF Supervisor!Drain
  <2> HIDE DEF began
  <2>5. CASE began = {}
    <3>1. ctl' = ctl /\ turn' = turn /\ unread' = unr
      BY <2>1, <2>5 DEF Base, TypeOK
    <3>2. Queued' = Queued \cup {s}
      BY <2>3, <2>4, <2>5
    <3> QED
      BY <1>1, <2>1, <2>4, <2>5, <3>1, <3>2 DEF Dispatched
  <2>6. CASE began = {s}
    <3>1. entered = {s}
      BY <2>2, <2>6
    <3>2. Queued' = Queued
      BY <2>3, <2>4, <2>6
    <3>3. ctl' = [ctl EXCEPT ![s] = "live"]
      BY <2>1, <3>1 DEF Base, TypeOK
    <3>4. CASE faulty = {}
      <4>1. /\ turn' = [turn EXCEPT ![s] = "raced"]
            /\ unread' = [unr EXCEPT ![s] = {}]
        BY <2>1, <2>6, <3>1, <3>4 DEF Base, TypeOK
      <4> QED
        BY <1>1, <2>1, <2>4, <2>6, <3>2, <3>3, <4>1 DEF Dispatched
    <3>5. CASE faulty = {s}
      <4>1. SetupFaults /\ turn' = [turn EXCEPT ![s] = "settled"] /\ unread' = unr
        BY <2>1, <2>6, <3>1, <3>5 DEF Base, TypeOK
      <4> QED
        BY <1>1, <2>1, <2>4, <2>6, <3>2, <3>3, <4>1 DEF Dispatched
    <3> QED
      BY <3>1, <3>4, <3>5
  <2> QED
    BY <2>3, <2>5, <2>6
<1>2. CASE ready /\ ~Dispatchable(s) /\ status' = stat /\ unread' = unr
           /\ UNCHANGED <<slotVars, turnVars>>
  BY <1>2, SameQueued DEF Dispatched, slotVars, turnVars
<1>3. CASE /\ ~ready
           /\ status' = [stat EXCEPT ![s] = Lifecycle!transition("running", "runtime_failure")]
           /\ unread' = unr
           /\ UNCHANGED <<slotVars, turnVars>>
  <2>1. Lifecycle!transition("running", "runtime_failure") = "blocked"
    BY DEF Lifecycle!transition, Lifecycle!transitions
  <2> QED
    BY <1>3, <2>1, SameQueued DEF Dispatched, slotVars, turnVars
<1> QED
  BY <1>1, <1>2, <1>3 DEF DispatchOrBlock

\* A wake-up finds the session in another status, and dispatches its turn.
LEMMA WakeLeaves ==
    ASSUME Base, NEW s \in Sessions, NEW unr \in [Sessions -> SUBSET Inputs],
           NEW event \in {"user_message", "user_reply", "user_retry", "trigger_fired",
                          "runtime_recovered"},
           Wake(s, event, unr)
    PROVE  status[s] # "running" /\ Dispatched(s, [status EXCEPT ![s] = "running"], unr)
<1>1. status[s] \in Status /\ event \in Lifecycle!validTransitions(status[s])
  BY DEF Base, TypeOK, Wake
<1>2. Lifecycle!transition(status[s], event) = "running"
  BY <1>1, WakesRun
<1>3. status[s] # "running"
  BY <1>1 DEF Lifecycle!validTransitions, Lifecycle!transitions
<1>4. DispatchOrBlock(s, [status EXCEPT ![s] = "running"], unr)
  BY <1>2 DEF Wake
<1>5. [status EXCEPT ![s] = "running"] \in [Sessions -> Status]
  BY DEF Base, TypeOK, Status, Lifecycle!Status
<1>6. [status EXCEPT ![s] = "running"][s] = "running"
  BY DEF Base, TypeOK
<1> QED
  BY <1>3, <1>4, <1>5, <1>6, DispatchLeaves

\* #abortScheduledTurn takes s, and s alone, out of the queue and its turn's
\* controller out of "live".
LEMMA AbortLeaves ==
    ASSUME Base, NEW s \in Sessions, AbortScheduledTurn(s)
    PROVE  /\ Queued' = Queued \ {s}
           /\ ctl' = [ctl EXCEPT ![s] = IF @ = "live" THEN "aborted" ELSE @]
           /\ UNCHANGED <<active, turn>>
<1>1. queue' = S!Without(queue, s) /\ UNCHANGED active
  BY SameSupervisor DEF AbortScheduledTurn, Supervisor!Dequeue
<1>2. queue \in Seq(Sessions) /\ S!Distinct(queue)
  BY DEF Base, S!Slots
<1>3. S!Elements(S!Without(queue, s)) = S!Elements(queue) \ {s}
  BY <1>2, S!WithoutForgets
<1> QED
  BY <1>1, <1>3, SameQueued DEF AbortScheduledTurn

\* The `finally` of a turn starts queued sessions in the slot of s.
Released(s) ==
    \E began \in SUBSET Queued : \E faulty \in SUBSET began :
       LET entered == {x \in began : status[x] = "running" /\ ctl[x] # "live"}
       IN  /\ faulty # {} => SetupFaults
           /\ faulty \subseteq entered
           /\ active' = (active \ {s}) \cup began
           /\ Queued = began \cup Queued'
           /\ status' = status
           /\ ctl' = [x \in Sessions |-> IF x \in entered THEN "live" ELSE ctl[x]]
           /\ turn' = [x \in Sessions |->
                          IF x \in entered \ faulty THEN "raced"
                          ELSE IF x \in began THEN "settled"
                          ELSE IF x = s THEN "none" ELSE turn[x]]
           /\ unread' = [x \in Sessions |-> IF x \in entered \ faulty THEN {} ELSE unread[x]]

\* The release of a slot touches the turns of s and of the sessions it starts.
LEMMA ReleaseLeaves ==
    ASSUME Base, NEW s \in Sessions, ReleaseSlot(s)
    PROVE  Released(s)
<1> DEFINE a == active \ {s}
           turnf == [turn EXCEPT ![s] = "none"]
           began == Supervisor!Started(queue, a)
           entered == {x \in began : status[x] = "running" /\ ctl[x] # "live"}
<1>1. PICK faulty \in SUBSET entered :
        /\ faulty # {} => SetupFaults
        /\ Supervisor!Drain(queue, a)
        /\ status' = status
        /\ ctl' = [x \in Sessions |-> IF x \in entered THEN "live" ELSE ctl[x]]
        /\ turn' = [x \in Sessions |->
                       IF x \in entered \ faulty THEN "raced"
                       ELSE IF x \in began THEN "settled" ELSE turnf[x]]
        /\ unread' = [x \in Sessions |-> IF x \in entered \ faulty THEN {} ELSE unread[x]]
  BY DEF ReleaseSlot, StartTurns
<1>2. s \in active
  BY DEF Base, SlotHeldByTurn, ReleaseSlot
<1>3. S!Drainable(queue, a)
  <2>1. S!Assumptions /\ S!Slots(queue, active)
    BY SameSupervisor DEF Base
  <2> QED
    BY <1>2, <2>1, S!ReleaseDrainable
<1>4. Queued = began \cup S!Elements(S!Waiting(queue, a))
  BY <1>3, SameSupervisor, SameQueued, S!DrainSplits
<1>5. active' = a \cup began /\ Queued' = S!Elements(S!Waiting(queue, a))
  BY <1>1, SameSupervisor, SameQueued DEF Supervisor!Drain
<1> HIDE DEF began
<1>6. \A x \in Sessions : turnf[x] = IF x = s THEN "none" ELSE turn[x]
  BY DEF Base, TypeOK
<1>7. turn' = [x \in Sessions |->
                  IF x \in entered \ faulty THEN "raced"
                  ELSE IF x \in began THEN "settled"
                  ELSE IF x = s THEN "none" ELSE turn[x]]
  BY <1>1, <1>6
<1> QED
  BY <1>1, <1>4, <1>5, <1>7 DEF Released

\* The end of a turn: its session is no longer running.
Ended(s) ==
    /\ \/ status[s] # "running" /\ status' = status
       \/ status[s] = "running" /\ \E v \in Status \ {"running"} :
             status' = [status EXCEPT ![s] = v]
    /\ turn' = [turn EXCEPT ![s] = "settled"]
    /\ ctl' = [ctl EXCEPT ![s] = "none"]
    /\ Queued' = Queued
    /\ UNCHANGED <<unread, active>>

\* Every outcome ends the turn that way (#runTurnInternal, #finalizeAbortedTurn).
LEMMA EndLeaves ==
    ASSUME NEW s, UNCHANGED slotVars,
           FinalizeAborted(s) \/ TurnFinished(s) \/ TurnFailed(s)
               \/ EndTurn(s, "agent_ask_user")
    PROVE  Ended(s)
<1>1. PICK event \in {"user_interrupt", "agent_schedule_sleep", "turn_finished",
                      "runtime_failure", "agent_ask_user"} : EndTurn(s, event)
  BY DEF FinalizeAborted, TurnFinished, TurnFailed, EndTurn
<1>2. Lifecycle!transition("running", event) \in Status \ {"running"}
  BY DEF Lifecycle!transition, Lifecycle!transitions, Status, Lifecycle!Status
<1>3. Queued' = Queued
  BY SameQueued DEF slotVars
<1> QED
  BY <1>1, <1>2, <1>3 DEF EndTurn, Settle, Ended, slotVars

-----------------------------------------------------------------------------
(* Queued sessions and live turns are running.                             *)

RunsInv == QueuedIsRunning /\ LiveTurnIsRunning /\ UnreadyRests

\* A dispatch keeps it: s is running, or nothing is queued and no turn is live.
LEMMA DispatchKeepsRuns ==
    ASSUME Base, RunsInv, NEW s \in Sessions, NEW unr,
           Dispatched(s, [status EXCEPT ![s] = "running"], unr),
           UNCHANGED <<ready, bootRunning>>
    PROVE  RunsInv'
<1>1. /\ status \in [Sessions -> Status]
      /\ ctl \in [Sessions -> {"none", "live", "aborted"}]
      /\ Queued \subseteq Sessions
  BY BaseTyped
<1>2. /\ \A x \in Queued : status[x] = "running" \/ x \in bootRunning
      /\ \A x \in Sessions : ctl[x] = "live" => status[x] = "running" \/ x \in bootRunning
      /\ ~ready => Queued = {} /\ \A x \in Sessions : ctl[x] # "live"
  BY DEF RunsInv, QueuedIsRunning, LiveTurnIsRunning, UnreadyRests, Queued
<1>3. /\ \A x \in Queued' : status'[x] = "running" \/ x \in bootRunning'
      /\ \A x \in Sessions : ctl'[x] = "live" => status'[x] = "running" \/ x \in bootRunning'
      /\ ~ready' => Queued' = {} /\ \A x \in Sessions : ctl'[x] # "live"
  BY <1>1, <1>2 DEF Dispatched
<1> QED
  BY <1>3 DEF RunsInv, QueuedIsRunning, LiveTurnIsRunning, UnreadyRests, Queued

\* So does a step that stops running only sessions which are not queued and have no
\* live turn, and makes live only turns of running sessions that were queued.
LEMMA OthersKeepRuns ==
    ASSUME Base, RunsInv, UNCHANGED bootRunning, ready' \in {ready, TRUE},
           Queued' \subseteq Queued,
           \A x \in Sessions :
              /\ ctl'[x] = "live" =>
                    ctl[x] = "live" \/ (x \in Queued /\ status'[x] = "running")
              /\ status[x] = "running" /\ status'[x] # "running" =>
                    x \in bootRunning \/ (x \notin Queued' /\ ctl'[x] # "live")
    PROVE  RunsInv'
<1>1. Queued \subseteq Sessions
  BY BaseTyped
<1>2. QueuedIsRunning'
  BY <1>1 DEF RunsInv, QueuedIsRunning, Queued
<1>3. LiveTurnIsRunning'
  BY DEF RunsInv, QueuedIsRunning, LiveTurnIsRunning, Queued
<1>4. UnreadyRests'
  <2>1. ~ready' => ~ready
    OBVIOUS
  <2> QED
    BY <2>1 DEF RunsInv, UnreadyRests, Queued
<1> QED
  BY <1>2, <1>3, <1>4 DEF RunsInv

\* A step that starts no turn, queues nobody and stops nobody keeps it.
LEMMA IdleKeepsRuns ==
    ASSUME Base, RunsInv, UNCHANGED <<bootRunning, ready, queue, ctl>>,
           \A x \in Sessions : status[x] = "running" =>
               status'[x] = "running" \/ x \in bootRunning
    PROVE  RunsInv'
<1>1. Queued' = Queued
  BY SameQueued
<1> QED
  BY <1>1, OthersKeepRuns DEF Base, TypeOK

\* A request keeps it.
LEMMA RequestKeepsRuns ==
    ASSUME Base, RunsInv, NEW s \in Sessions, RequestOf(s)
    PROVE  RunsInv'
<1>1. /\ status \in [Sessions -> Status]
      /\ [unread EXCEPT ![s] = @ \cup {"user"}] \in [Sessions -> SUBSET Inputs]
      /\ unread \in [Sessions -> SUBSET Inputs]
  BY BaseTyped DEF Inputs
<1>2. ASSUME NEW unr \in [Sessions -> SUBSET Inputs],
             NEW event \in {"user_message", "user_reply", "user_retry"},
             Wake(s, event, unr), UNCHANGED <<worldVars, bootVars>>
      PROVE  RunsInv'
  BY <1>2, WakeLeaves, DispatchKeepsRuns DEF worldVars, bootVars
<1>3. CASE AppendUserMessage(s)
  BY <1>1, <1>2, <1>3 DEF AppendUserMessage
<1>4. CASE CreateMessageVariant(s)
  <2>1. \E event \in {"user_message", "user_reply", "user_retry"} :
           Wake(s, event, [unread EXCEPT ![s] = @ \cup {"user"}])
    BY <1>4 DEF CreateMessageVariant
  <2> QED
    BY <1>1, <1>2, <1>4, <2>1 DEF CreateMessageVariant
<1>5. CASE RetryBlockedSession(s)
  BY <1>1, <1>2, <1>5 DEF RetryBlockedSession
<1>6. CASE RunSession(s)
  <2>1. status[s] = "running" /\ status = [status EXCEPT ![s] = "running"]
    BY <1>1, <1>6 DEF RunSession
  <2>2. Dispatched(s, [status EXCEPT ![s] = "running"], unread)
    BY <1>1, <1>6, <2>1, DispatchLeaves DEF RunSession
  <2> QED
    BY <1>6, <2>2, DispatchKeepsRuns DEF RunSession, worldVars, bootVars
<1>7. CASE InterruptSession(s)
  <2>1. /\ Queued' = Queued \ {s}
        /\ ctl' = [ctl EXCEPT ![s] = IF @ = "live" THEN "aborted" ELSE @]
    BY <1>7, AbortLeaves DEF InterruptSession
  <2>2. \A x \in Sessions : x # s => status'[x] = status[x]
    BY <1>1, <1>7 DEF InterruptSession, SetStatus
  <2>3. /\ ctl'[s] # "live"
        /\ \A x \in Sessions : ctl'[x] = "live" => ctl[x] = "live"
    BY <2>1, BaseTyped
  <2>4. UNCHANGED bootRunning /\ ready' \in {ready, TRUE}
    BY <1>7 DEF InterruptSession, worldVars, bootVars
  <2> QED
    BY <2>1, <2>2, <2>3, <2>4, OthersKeepRuns
<1>8. CASE DeleteSession(s)
  <2>1. status[s] # "running"
    BY <1>8 DEF DeleteSession, SetStatus, Lifecycle!validTransitions, Lifecycle!transitions
  <2>2. \A x \in Sessions : x # s => status'[x] = status[x]
    BY <1>1, <1>8 DEF DeleteSession, SetStatus
  <2> QED
    BY <1>8, <2>1, <2>2, IdleKeepsRuns
       DEF DeleteSession, slotVars, turnVars, worldVars, bootVars
<1> QED
  BY <1>3, <1>4, <1>5, <1>6, <1>7, <1>8 DEF RequestOf

\* A turn that goes on or ends keeps it: it holds a slot, so its session is not queued.
LEMMA TurnKeepsRuns ==
    ASSUME Base, RunsInv, NEW s \in Sessions, TurnStep(s) \/ Microtask(s)
    PROVE  RunsInv'
<1>1. ASSUME TurnFrame, turn[s] # "none",
             FinalizeAborted(s) \/ TurnFinished(s) \/ TurnFailed(s)
                 \/ EndTurn(s, "agent_ask_user")
      PROVE  RunsInv'
  <2>1. Ended(s)
    BY <1>1, EndLeaves DEF TurnFrame
  <2>2. s \notin Queued /\ ctl'[s] # "live"
    BY <1>1, <2>1, BaseTyped DEF Ended
  <2>3. \A x \in Sessions : ctl'[x] = "live" => ctl[x] = "live"
    BY <2>1, BaseTyped DEF Ended
  <2>4. \A x \in Sessions : x # s => status'[x] = status[x]
    BY <2>1, BaseTyped DEF Ended
  <2>5. UNCHANGED bootRunning /\ ready' \in {ready, TRUE} /\ Queued' = Queued
    BY <1>1, <2>1 DEF TurnFrame, worldVars, bootVars, Ended
  <2> QED
    BY <2>2, <2>3, <2>4, <2>5, OthersKeepRuns
<1>2. ASSUME TurnFrame, UNCHANGED <<status, ctl>>
      PROVE  RunsInv'
  BY <1>2, IdleKeepsRuns DEF TurnFrame, slotVars, worldVars, bootVars
<1>3. CASE Iterate(s)
  BY <1>2, <1>3 DEF Iterate, NextIteration
<1>4. CASE FinishTurn(s) \/ AskUser(s) \/ FailTurn(s)
  BY <1>1, <1>4 DEF FinishTurn, AskUser, FailTurn, Answerable
<1>5. CASE Compact(s)
  BY <1>2, <1>5 DEF Compact
<1>6. CASE CompactDone(s)
  <2>1. TurnFrame /\ turn[s] # "none"
    BY <1>6 DEF CompactDone, Compacting
  <2>2. \/ NextIteration(s)
        \/ FinalizeAborted(s) \/ TurnFinished(s) \/ TurnFailed(s)
    BY <1>6 DEF CompactDone
  <2> QED
    BY <1>1, <1>2, <2>1, <2>2 DEF NextIteration
<1>7. CASE Unwind(s)
  BY <1>1, <1>7 DEF Unwind, Unwinding
<1>8. CASE ReleaseSlot(s)
  <2>1. Released(s) /\ UNCHANGED <<worldVars, bootVars>>
    BY <1>8, ReleaseLeaves DEF ReleaseSlot
  <2>2. /\ Queued' \subseteq Queued
        /\ status' = status
        /\ \A x \in Sessions : ctl'[x] = "live" =>
              ctl[x] = "live" \/ (x \in Queued /\ status[x] = "running")
    BY <2>1 DEF Released
  <2> QED
    BY <2>1, <2>2, OthersKeepRuns DEF worldVars, bootVars
<1> QED
  BY <1>3, <1>4, <1>5, <1>6, <1>7, <1>8 DEF TurnStep, Microtask

\* A trigger keeps it: it changes the status of a session that is not running.
LEMMA TriggerKeepsRuns ==
    ASSUME Base, RunsInv, NEW t \in Triggers, TriggerStep(t)
    PROVE  RunsInv'
<1>1. Owner[t] \in Sessions
  BY OwnerTyped
<1>2. CASE SyncTriggerState(t)
  <2>1. \A x \in Sessions : status[x] = "running" => status'[x] = "running"
    BY <1>1, <1>2, BaseTyped DEF SyncTriggerState, Synced
  <2> QED
    BY <1>2, <2>1, IdleKeepsRuns DEF SyncTriggerState, slotVars, turnVars, bootVars
<1>3. CASE FireTrigger(t)
  <2> DEFINE unr == [unread EXCEPT ![Owner[t]] = @ \cup {"trigger"}]
  <2>1. unr \in [Sessions -> SUBSET Inputs]
    BY <1>1, BaseTyped DEF Inputs
  <2> HIDE DEF unr
  <2>2. UNCHANGED <<bootRunning, ready>>
    BY <1>3 DEF FireTrigger, bootVars
  <2>3. CASE Wake(Owner[t], "trigger_fired", unr)
    BY <1>1, <2>1, <2>2, <2>3, WakeLeaves, DispatchKeepsRuns
  <2>4. CASE UNCHANGED <<status, slotVars, turnVars>>
    BY <2>2, <2>4, IdleKeepsRuns DEF slotVars, turnVars
  <2> QED
    BY <1>3, <2>3, <2>4 DEF FireTrigger, unr
<1> QED
  BY <1>2, <1>3 DEF TriggerStep, ScheduleTrigger, CancelTrigger, DeleteTrigger

\* The loops over sessions keep it: they abort the turn of a running session before
\* they take it out of "running", but for the repair of the sessions in bootRunning.
LEMMA SweepKeepsRuns ==
    ASSUME Base, RunsInv, SweepStep
    PROVE  RunsInv'
<1>1. PICK p \in todo : BlockStep(p) \/ RecoverStep(p) \/ ArchiveStep(p) \/ RehydrateStep(p)
  BY DEF SweepStep
<1> DEFINE s == p[1]
<1>2. s \in Sessions
  BY <1>1 DEF Base, TypeOK
<1> HIDE DEF s
<1>3. UNCHANGED <<bootRunning, ready>>
  BY <1>1 DEF BlockStep, RecoverStep, ArchiveStep, RehydrateStep, SweepOver, worldVars, bootVars
<1>4. ASSUME AbortScheduledTurn(s), NEW v, status' = [status EXCEPT ![s] = v]
      PROVE  RunsInv'
  <2>1. /\ Queued' = Queued \ {s}
        /\ ctl' = [ctl EXCEPT ![s] = IF @ = "live" THEN "aborted" ELSE @]
    BY <1>2, <1>4, AbortLeaves
  <2>2. /\ ctl'[s] # "live"
        /\ \A x \in Sessions : ctl'[x] = "live" => ctl[x] = "live"
        /\ \A x \in Sessions : x # s => status'[x] = status[x]
    BY <1>2, <1>4, <2>1, BaseTyped
  <2> QED
    BY <1>3, <2>1, <2>2, OthersKeepRuns
<1>5. ASSUME UNCHANGED <<slotVars, turnVars>>, NEW v, status' = [status EXCEPT ![s] = v],
             status[s] # "running" \/ v = "running" \/ s \in bootRunning
      PROVE  RunsInv'
  <2>1. \A x \in Sessions : status[x] = "running" =>
            status'[x] = "running" \/ x \in bootRunning
    BY <1>5, BaseTyped
  <2> QED
    BY <1>3, <1>5, <2>1, IdleKeepsRuns DEF slotVars, turnVars
<1>6. CASE UNCHANGED <<threadVars, slotVars, turnVars>>
  BY <1>3, <1>6, IdleKeepsRuns DEF threadVars, slotVars, turnVars
<1>7. CASE BlockStep(p)
  BY <1>4, <1>6, <1>7 DEF BlockStep, SetStatus, s
<1>8. CASE RecoverStep(p)
  <2>1. CASE Wake(s, "runtime_recovered", unread)
    BY <1>2, <1>3, <2>1, BaseTyped, WakeLeaves, DispatchKeepsRuns
  <2> QED
    BY <1>6, <1>8, <2>1 DEF RecoverStep, s
<1>9. CASE ArchiveStep(p)
  BY <1>4, <1>5, <1>9 DEF ArchiveStep, s
<1>10. CASE RehydrateStep(p)
  <2>1. PICK v : /\ status' = [status EXCEPT ![s] = v]
                 /\ status[s] # "running" \/ v = "running" \/ s \in bootRunning
    BY <1>10 DEF RehydrateStep, Synced, s
  <2> QED
    BY <1>5, <1>10, <2>1 DEF RehydrateStep
<1> QED
  BY <1>1, <1>7, <1>8, <1>9, <1>10

\* The other steps keep it: a new process starts without turns, and a shutdown
\* queues and starts nothing.
LEMMA OtherStepsKeepRuns ==
    ASSUME Base, RunsInv,
           \/ \E r \in Runtimes : RuntimeStep(r)
           \/ ArchiveProject \/ SetProvider \/ EndSweep \/ Flush
           \/ Crash \/ Shutdown \/ Exit \/ Boot
    PROVE  RunsInv'
<1>1. ASSUME UNCHANGED <<status, queue, ctl, bootRunning>>, ready' \in {ready, TRUE}
      PROVE  RunsInv'
  <2>1. Queued' = Queued
    BY <1>1, SameQueued
  <2> QED
    BY <1>1, <2>1, OthersKeepRuns
<1>2. CASE (\E r \in Runtimes : RuntimeStep(r)) \/ ArchiveProject \/ SetProvider \/ EndSweep
           \/ Flush \/ Boot
  BY <1>1, <1>2 DEF RuntimeStep, RuntimeDown, RuntimeUp, Attach, ArchiveProject, SetProvider,
     EndSweep, Flush, Boot, BootRecover, BootRehydrate, threadVars, slotVars, turnVars,
     worldVars, bootVars
<1>3. CASE Shutdown
  <2>1. Queued' = {}
    BY <1>3, EmptySeq DEF Shutdown, Supervisor!Stop, Queued, Supervisor!Queued
  <2>2. \A x \in Sessions : ctl'[x] # "live"
    BY <1>3, BaseTyped DEF Shutdown
  <2> QED
    BY <1>3, <2>1, <2>2, OthersKeepRuns DEF Shutdown, threadVars, worldVars
<1>4. ASSUME NEW img, StartProcess(img)
      PROVE  RunsInv'
  <2>1. Queued' = {} /\ \A x \in Sessions : ctl'[x] # "live"
    BY <1>4, EmptySeq DEF StartProcess, Supervisor!Reset, Queued, Supervisor!Queued
  <2> QED
    BY <2>1 DEF RunsInv, QueuedIsRunning, LiveTurnIsRunning, UnreadyRests, Queued
<1> QED
  BY <1>2, <1>3, <1>4 DEF Crash, Exit

\* The initial states: nothing is queued, no turn is live.
LEMMA InitRuns == Init => RunsInv
<1> SUFFICES ASSUME Init PROVE RunsInv
  OBVIOUS
<1>1. Supervisor!Queued = {}
  BY EmptySeq DEF Init, Supervisor!Queued
<1> QED
  BY <1>1 DEF Init, RunsInv, QueuedIsRunning, LiveTurnIsRunning, UnreadyRests

\* Every step keeps it.
LEMMA NextKeepsRuns == Base /\ RunsInv /\ [Next]_vars => RunsInv'
<1> SUFFICES ASSUME Base, RunsInv, [Next]_vars PROVE RunsInv'
  OBVIOUS
<1>1. CASE UNCHANGED vars
  BY <1>1, IdleKeepsRuns DEF vars, threadVars, slotVars, turnVars, worldVars, bootVars
<1>2. CASE Next
  BY <1>2, RequestKeepsRuns, TurnKeepsRuns, TriggerKeepsRuns, SweepKeepsRuns,
     OtherStepsKeepRuns DEF Next
<1> QED
  BY <1>1, <1>2

\* Base holds in every reachable state.
LEMMA CoreHasBase == Spec => []Base
<1>1. Supervisor!Spec => S!Spec
  BY SameSpec, PTL DEF Supervisor!Spec, S!Spec
<1>2. S!Spec => [](S!TypeOK /\ S!SlotInv)
  BY SameSupervisor, S!SlotsAreSafe
<1>3. S!TypeOK /\ S!SlotInv => S!Slots(queue, active)
  BY S!InvIsSlots DEF S!Inv
<1>4. TypeOK /\ SlotHeldByTurn /\ S!Slots(queue, active) => Base
  BY DEF Base
<1> QED
  BY <1>1, <1>2, <1>3, <1>4, CoreIsTyped, SlotsAreHeldByTurns, CoreImplementsSupervisor, PTL
     DEF SupervisorSpec

\* A session that waits for a slot is running: whoever interrupts, blocks or archives it
\* takes it out of the queue first (core-api.ts, #abortScheduledTurn).
THEOREM QueuedSessionsRun == Spec => []QueuedIsRunning
<1>1. Init => RunsInv
  BY InitRuns
<1>2. Base /\ RunsInv /\ [Next]_vars => RunsInv'
  BY NextKeepsRuns
<1>3. RunsInv => QueuedIsRunning
  BY DEF RunsInv
<1> QED
  BY <1>1, <1>2, <1>3, CoreHasBase, PTL DEF Spec

\* A turn that can still act on the world belongs to a running session, whether or not
\* the set-up of turns may fail (core-api.ts, #turnControllers).
THEOREM LiveTurnsRun == Spec => []LiveTurnIsRunning
<1>1. Init => RunsInv
  BY InitRuns
<1>2. Base /\ RunsInv /\ [Next]_vars => RunsInv'
  BY NextKeepsRuns
<1>3. RunsInv => LiveTurnIsRunning
  BY DEF RunsInv
<1> QED
  BY <1>1, <1>2, <1>3, CoreHasBase, PTL DEF Spec

-----------------------------------------------------------------------------
(* No running session is stranded, if the set-up of a turn does not throw. *)

ServedInv == /\ TurnsAreControlled /\ SettledIsOver /\ SweepsMeetNoSettled
             /\ RepairsAtBoot /\ NobodyStranded

\* A turn awaits the provider, a tool or compact().
Awaits(t) == t \in {"raced", "compactMid", "compactEnd"}

\* The parts of ServedInv, about one session x at a time.
LEMMA ServedParts ==
    ServedInv <=>
        /\ \A x \in Sessions :
              /\ ctl[x] # "none" <=> Awaits(turn[x])
              /\ turn[x] = "settled" => status[x] # "running" /\ sweep = "none"
              /\ status[x] = "running" => \/ phase = "stopping"
                                          \/ x \in active \cup Queued
                                          \/ x \in bootRunning /\ Unrepaired(x)
        /\ sweep = "rehydrate" => phase = "syncing"
BY DEF ServedInv, TurnsAreControlled, SettledIsOver, SweepsMeetNoSettled, RepairsAtBoot,
       NobodyStranded, Queued, Awaits, Compacting

\* The same, in the next state.
LEMMA ServedPartsNext ==
    ServedInv' <=>
        /\ \A x \in Sessions :
              /\ ctl'[x] # "none" <=> Awaits(turn'[x])
              /\ turn'[x] = "settled" => status'[x] # "running" /\ sweep' = "none"
              /\ status'[x] = "running" => \/ phase' = "stopping"
                                           \/ x \in active' \cup Queued'
                                           \/ x \in bootRunning' /\ Unrepaired(x)'
        /\ sweep' = "rehydrate" => phase' = "syncing"
BY DEF ServedInv, TurnsAreControlled, SettledIsOver, SweepsMeetNoSettled, RepairsAtBoot,
       NobodyStranded, Queued, Awaits, Compacting

\* The process and its repair stay where they are, for the sessions other than those
\* of xs.
BootRests(xs) == /\ UNCHANGED <<phase, bootRunning, sweep>>
                 /\ \A x \in Sessions \ xs : Unrepaired(x) => Unrepaired(x)'

\* A dispatch keeps it: s gets a turn, waits for one, has one, or is blocked.
LEMMA DispatchKeepsServed ==
    ASSUME Base, ServedInv, ~SetupFaults, NEW s \in Sessions, NEW unr, BootRests({}),
           \A x \in Sessions : turn[x] # "settled",
           Dispatched(s, [status EXCEPT ![s] = "running"], unr)
    PROVE  ServedInv'
<1>1. ctl[s] = "live" => s \in active
  BY ServedParts, BaseTyped DEF Awaits
<1>2. \A x \in Sessions : turn'[x] # "settled"
  BY BaseTyped DEF Dispatched
<1>3. \A x \in Sessions : ctl'[x] # "none" <=> Awaits(turn'[x])
  BY ServedParts, BaseTyped DEF Dispatched, Awaits
<1>4. active \cup Queued \subseteq active' \cup Queued'
  BY DEF Dispatched
<1>5. \A x \in Sessions : status'[x] = "running" =>
         (x # s /\ status[x] = "running") \/ x \in active' \cup Queued'
  BY <1>1, BaseTyped DEF Dispatched, Dispatchable, Queued
<1> QED
  BY <1>2, <1>3, <1>4, <1>5, ServedParts, ServedPartsNext DEF BootRests

\* So does a step that wakes and starts nobody, and takes slots and places in the queue
\* only from sessions that it stops.
LEMMA OthersKeepServed ==
    ASSUME ServedInv, NEW xs, BootRests(xs),
           \A x \in Sessions :
              /\ ctl'[x] # "none" <=> Awaits(turn'[x])
              /\ turn'[x] = "settled" => status'[x] # "running" /\ sweep = "none"
              /\ status'[x] = "running" => /\ status[x] = "running"
                                           /\ (x \in xs => x \in active \cup Queued)
                                           /\ (x \in active => x \in active')
                                           /\ (x \in Queued => x \in active' \cup Queued')
    PROVE  ServedInv'
BY ServedParts, ServedPartsNext DEF BootRests

\* Where a macrotask begins, no turn has settled and no loop is running.
LEMMA QuietSettles ==
    ASSUME Quiet
    PROVE  sweep = "none" /\ \A x \in Sessions : turn[x] # "settled"
BY DEF Quiet, NoSweep

\* What a step that leaves the process and its loops alone leaves unrepaired.
LEMMA BootFrame ==
    ASSUME UNCHANGED <<bootVars, sweepVars>>
    PROVE  BootRests({})
BY DEF bootVars, sweepVars, BootRests, Unrepaired

\* A change of a status, or of nothing, keeps it if nobody is made running.
LEMMA StatusKeepsServed ==
    ASSUME Base, ServedInv, NEW xs, BootRests(xs), UNCHANGED <<slotVars, turnVars>>,
           \A x \in Sessions : status'[x] = "running" =>
               status[x] = "running" /\ (x \in xs => x \in active \cup Queued),
           \A x \in Sessions : turn[x] # "settled"
    PROVE  ServedInv'
<1>1. Queued' = Queued /\ UNCHANGED <<active, ctl, turn>>
  BY SameQueued DEF slotVars, turnVars
<1> QED
  BY <1>1, ServedParts, OthersKeepServed

\* An abort keeps it if its session is stopped.
LEMMA AbortKeepsServed ==
    ASSUME Base, ServedInv, NEW s \in Sessions, BootRests({s}), AbortScheduledTurn(s),
           NEW v, v # "running", status' = [status EXCEPT ![s] = v],
           \A x \in Sessions : turn[x] # "settled"
    PROVE  ServedInv'
<1>1. /\ Queued' = Queued \ {s}
      /\ ctl' = [ctl EXCEPT ![s] = IF @ = "live" THEN "aborted" ELSE @]
      /\ UNCHANGED <<active, turn>>
  BY AbortLeaves
<1>2. \A x \in Sessions : ctl'[x] # "none" <=> Awaits(turn'[x])
  BY <1>1, ServedParts, BaseTyped
<1>3. \A x \in Sessions : status'[x] = "running" => x # s /\ status[x] = "running"
  BY BaseTyped
<1>4. \A x \in Sessions : turn'[x] # "settled"
  BY <1>1
<1>5. \A x \in Sessions : (x \in active => x \in active')
                          /\ (x # s /\ x \in Queued => x \in Queued')
  BY <1>1
<1> QED
  BY <1>2, <1>3, <1>4, <1>5, OthersKeepServed

\* A request keeps it.
LEMMA RequestKeepsServed ==
    ASSUME Base, ServedInv, ~SetupFaults, NEW s \in Sessions, RequestOf(s)
    PROVE  ServedInv'
<1>1. /\ [unread EXCEPT ![s] = @ \cup {"user"}] \in [Sessions -> SUBSET Inputs]
      /\ unread \in [Sessions -> SUBSET Inputs]
  BY BaseTyped DEF Inputs
<1>2. /\ BootRests({}) /\ BootRests({s})
      /\ \A x \in Sessions : turn[x] # "settled"
  BY BootFrame, QuietSettles
     DEF RequestOf, AppendUserMessage, CreateMessageVariant, RetryBlockedSession, RunSession,
         InterruptSession, DeleteSession, Request, BootRests
<1>3. ASSUME NEW unr \in [Sessions -> SUBSET Inputs],
             NEW event \in {"user_message", "user_reply", "user_retry"},
             Wake(s, event, unr)
      PROVE  ServedInv'
  BY <1>2, <1>3, WakeLeaves, DispatchKeepsServed
<1>4. CASE AppendUserMessage(s)
  BY <1>1, <1>3, <1>4 DEF AppendUserMessage
<1>5. CASE CreateMessageVariant(s)
  <2>1. \E event \in {"user_message", "user_reply", "user_retry"} :
           Wake(s, event, [unread EXCEPT ![s] = @ \cup {"user"}])
    BY <1>5 DEF CreateMessageVariant
  <2> QED
    BY <1>1, <1>3, <2>1
<1>6. CASE RetryBlockedSession(s)
  BY <1>1, <1>3, <1>6 DEF RetryBlockedSession
<1>7. CASE RunSession(s)
  <2>1. status[s] = "running" /\ status = [status EXCEPT ![s] = "running"]
    BY <1>7, BaseTyped DEF RunSession
  <2>2. Dispatched(s, [status EXCEPT ![s] = "running"], unread)
    BY <1>1, <1>7, <2>1, BaseTyped, DispatchLeaves DEF RunSession
  <2> QED
    BY <1>2, <2>2, DispatchKeepsServed
<1>8. CASE InterruptSession(s)
  <2>1. SetStatus(s, "user_interrupt") /\ AbortScheduledTurn(s)
    BY <1>8 DEF InterruptSession
  <2>2. Lifecycle!transition(status[s], "user_interrupt") = "idle"
    <3>1. status[s] \in Status
      BY BaseTyped
    <3> QED
      BY <2>1, <3>1 DEF SetStatus, Status, Lifecycle!Status, Lifecycle!validTransitions,
                        Lifecycle!transition, Lifecycle!transitions
  <2>3. status' = [status EXCEPT ![s] = "idle"]
    BY <2>1, <2>2 DEF SetStatus
  <2> QED
    BY <1>2, <2>1, <2>3, AbortKeepsServed
<1>9. CASE DeleteSession(s)
  <2>1. SetStatus(s, "user_archive") /\ UNCHANGED <<slotVars, turnVars>>
    BY <1>9 DEF DeleteSession
  <2>2. Lifecycle!transition(status[s], "user_archive") = "archived"
    <3>1. status[s] \in Status
      BY BaseTyped
    <3> QED
      BY <2>1, <3>1 DEF SetStatus, Status, Lifecycle!Status, Lifecycle!validTransitions,
                        Lifecycle!transition, Lifecycle!transitions
  <2>3. \A x \in Sessions : status'[x] = "running" => status[x] = "running"
    BY <2>1, <2>2, BaseTyped DEF SetStatus
  <2> QED
    BY <1>2, <2>1, <2>3, StatusKeepsServed
<1> QED
  BY <1>4, <1>5, <1>6, <1>7, <1>8, <1>9 DEF RequestOf

\* A turn that goes on, ends or is released keeps it.
LEMMA TurnKeepsServed ==
    ASSUME Base, ServedInv, ~SetupFaults, NEW s \in Sessions, TurnStep(s) \/ Microtask(s)
    PROVE  ServedInv'
<1>1. BootRests({}) /\ sweep = "none"
  BY BootFrame
     DEF TurnStep, Microtask, Iterate, FinishTurn, AskUser, FailTurn, Compact, CompactDone,
         Unwind, ReleaseSlot, Answerable, TurnFrame, Quiet, NoSweep
<1>2. ASSUME UNCHANGED slotVars,
             FinalizeAborted(s) \/ TurnFinished(s) \/ TurnFailed(s)
                 \/ EndTurn(s, "agent_ask_user")
      PROVE  ServedInv'
  <2>1. Ended(s)
    BY <1>2, EndLeaves
  <2>2. \A x \in Sessions : ctl'[x] # "none" <=> Awaits(turn'[x])
    BY <2>1, ServedParts, BaseTyped DEF Ended, Awaits
  <2>3. \A x \in Sessions : status'[x] = "running" => x # s /\ status[x] = "running"
    BY <2>1, BaseTyped DEF Ended
  <2>4. \A x \in Sessions : turn'[x] = "settled" => status'[x] # "running"
    BY <2>1, <2>3, ServedParts, BaseTyped DEF Ended
  <2>5. active' = active /\ Queued' = Queued
    BY <2>1 DEF Ended
  <2> QED
    BY <1>1, <2>2, <2>3, <2>4, <2>5, OthersKeepServed
<1>3. ASSUME UNCHANGED <<slotVars, status, ctl>>, Awaits(turn[s]),
             NEW t, Awaits(t), turn' = [turn EXCEPT ![s] = t]
      PROVE  ServedInv'
  <2>1. \A x \in Sessions : ctl'[x] # "none" <=> Awaits(turn'[x])
    BY <1>3, ServedParts, BaseTyped
  <2>2. \A x \in Sessions : turn'[x] = "settled" => status'[x] # "running"
    BY <1>3, ServedParts, BaseTyped DEF Awaits
  <2>3. active' = active /\ Queued' = Queued
    BY <1>3, SameQueued DEF slotVars
  <2> QED
    BY <1>1, <1>3, <2>1, <2>2, <2>3, OthersKeepServed
<1>4. CASE Iterate(s)
  BY <1>3, <1>4 DEF Iterate, Answerable, NextIteration, TurnFrame, Awaits
<1>5. CASE FinishTurn(s) \/ AskUser(s) \/ FailTurn(s)
  BY <1>2, <1>5 DEF FinishTurn, AskUser, FailTurn, TurnFrame
<1>6. CASE Compact(s)
  BY <1>3, <1>6 DEF Compact, Answerable, TurnFrame, Awaits
<1>7. CASE CompactDone(s)
  <2>1. \/ NextIteration(s)
        \/ FinalizeAborted(s) \/ TurnFinished(s) \/ TurnFailed(s)
    BY <1>7 DEF CompactDone
  <2> QED
    BY <1>2, <1>3, <1>7, <2>1 DEF CompactDone, Compacting, NextIteration, TurnFrame, Awaits
<1>8. CASE Unwind(s)
  BY <1>2, <1>8 DEF Unwind, TurnFrame
<1>9. CASE ReleaseSlot(s)
  <2>1. turn[s] = "settled" /\ status[s] # "running"
    BY <1>9, ServedParts DEF ReleaseSlot
  <2>2. PICK began \in SUBSET Queued :
           LET entered == {x \in began : status[x] = "running" /\ ctl[x] # "live"}
           IN  /\ active' = (active \ {s}) \cup began
               /\ Queued = began \cup Queued'
               /\ status' = status
               /\ ctl' = [x \in Sessions |-> IF x \in entered THEN "live" ELSE ctl[x]]
               /\ turn' = [x \in Sessions |->
                              IF x \in entered THEN "raced"
                              ELSE IF x \in began THEN "settled"
                              ELSE IF x = s THEN "none" ELSE turn[x]]
    <3>1. Released(s)
      BY <1>9, ReleaseLeaves
    <3>2. PICK began \in SUBSET Queued : \E faulty \in SUBSET began :
             LET entered == {x \in began : status[x] = "running" /\ ctl[x] # "live"}
             IN  /\ faulty # {} => SetupFaults
                 /\ active' = (active \ {s}) \cup began
                 /\ Queued = began \cup Queued'
                 /\ status' = status
                 /\ ctl' = [x \in Sessions |-> IF x \in entered THEN "live" ELSE ctl[x]]
                 /\ turn' = [x \in Sessions |->
                                IF x \in entered \ faulty THEN "raced"
                                ELSE IF x \in began THEN "settled"
                                ELSE IF x = s THEN "none" ELSE turn[x]]
      BY <3>1 DEF Released
    <3>3. \A x : x \in {y \in began : status[y] = "running" /\ ctl[y] # "live"} \ {} <=>
                 x \in {y \in began : status[y] = "running" /\ ctl[y] # "live"}
      OBVIOUS
    <3> QED
      BY <3>2, <3>3
  <2>3. s \notin began /\ \A x \in began : ctl[x] = "none"
    BY <2>1, <2>2, ServedParts, BaseTyped DEF Awaits
  <2>4. \A x \in Sessions : ctl'[x] # "none" <=> Awaits(turn'[x])
    <3>1. \A x \in began : (ctl'[x] = "live" /\ turn'[x] = "raced")
                            \/ (ctl'[x] = "none" /\ turn'[x] = "settled")
      BY <2>2, <2>3, BaseTyped
    <3>2. ctl'[s] = "none" /\ turn'[s] = "none"
      BY <2>1, <2>2, <2>3, ServedParts DEF Awaits
    <3>3. \A x \in Sessions : x \notin began /\ x # s => ctl'[x] = ctl[x] /\ turn'[x] = turn[x]
      BY <2>2
    <3> QED
      BY <3>1, <3>2, <3>3, ServedParts DEF Awaits
  <2>5. \A x \in Sessions : turn'[x] = "settled" => status'[x] # "running"
    BY <2>2, <2>3, ServedParts
  <2>6. \A x \in Sessions : status'[x] = "running" =>
           x # s /\ status[x] = "running"
    BY <2>1, <2>2
  <2>7. \A x \in Sessions : /\ x # s /\ x \in active => x \in active'
                            /\ x \in Queued => x \in active' \cup Queued'
    BY <2>2
  <2> QED
    BY <1>1, <2>4, <2>5, <2>6, <2>7, OthersKeepServed
<1> QED
  BY <1>4, <1>5, <1>6, <1>7, <1>8, <1>9 DEF TurnStep, Microtask


\* A trigger keeps it.
LEMMA TriggerKeepsServed ==
    ASSUME Base, ServedInv, ~SetupFaults, NEW t \in Triggers, TriggerStep(t)
    PROVE  ServedInv'
<1>1. Owner[t] \in Sessions
  BY OwnerTyped
<1>2. BootRests({}) /\ \A x \in Sessions : turn[x] # "settled"
  BY BootFrame, QuietSettles
     DEF TriggerStep, ScheduleTrigger, CancelTrigger, DeleteTrigger, FireTrigger,
         SyncTriggerState, Request
<1>3. CASE SyncTriggerState(t)
  <2>1. \A x \in Sessions : status'[x] = "running" => status[x] = "running"
    <3>1. Lifecycle!transition("idle", "trigger_scheduled") # "running"
      BY DEF Lifecycle!transition, Lifecycle!transitions
    <3>2. Lifecycle!transition("sleeping", "triggers_empty") # "running"
      BY DEF Lifecycle!transition, Lifecycle!transitions
    <3>3. status' = [status EXCEPT ![Owner[t]] = Synced(trig', Owner[t])]
      BY <1>3 DEF SyncTriggerState
    <3>4. Synced(trig', Owner[t]) = "running" => status[Owner[t]] = "running"
      BY <3>1, <3>2 DEF Synced
    <3> QED
      BY <1>1, <3>3, <3>4, BaseTyped
  <2> QED
    BY <1>2, <1>3, <2>1, StatusKeepsServed DEF SyncTriggerState
<1>4. CASE FireTrigger(t)
  <2> DEFINE unr == [unread EXCEPT ![Owner[t]] = @ \cup {"trigger"}]
  <2>1. unr \in [Sessions -> SUBSET Inputs]
    BY <1>1, BaseTyped DEF Inputs
  <2> HIDE DEF unr
  <2>2. CASE Wake(Owner[t], "trigger_fired", unr)
    BY <1>1, <1>2, <2>1, <2>2, WakeLeaves, DispatchKeepsServed
  <2>3. CASE UNCHANGED <<status, slotVars, turnVars>>
    BY <1>2, <2>3, StatusKeepsServed
  <2> QED
    BY <1>4, <2>2, <2>3 DEF FireTrigger, unr
<1> QED
  BY <1>3, <1>4 DEF TriggerStep, ScheduleTrigger, CancelTrigger, DeleteTrigger

\* The loops over sessions keep it.  The repair leaves no session running that neither
\* holds a slot nor waits for one.
LEMMA SweepKeepsServed ==
    ASSUME Base, ServedInv, ~SetupFaults, SweepStep
    PROVE  ServedInv'
<1>1. PICK p \in todo : BlockStep(p) \/ RecoverStep(p) \/ ArchiveStep(p) \/ RehydrateStep(p)
  BY DEF SweepStep
<1> DEFINE s == p[1]
<1>2. s \in Sessions
  BY <1>1 DEF Base, TypeOK
<1>3. /\ UNCHANGED <<sweep, phase, bootRunning>>
      /\ todo' = todo \ {p}
      /\ sweep # "none"
  BY <1>1 DEF BlockStep, RecoverStep, ArchiveStep, RehydrateStep, SweepOver, bootVars
<1>4. \A x \in Sessions : turn[x] # "settled"
  BY <1>3, ServedParts
<1>5. BootRests({s})
  <2>1. \A x \in Sessions \ {s} : <<x, "none">> \in todo => <<x, "none">> \in todo'
    BY <1>3
  <2> QED
    BY <1>3, <2>1 DEF BootRests, Unrepaired
<1>6. sweep # "rehydrate" => BootRests({})
  BY <1>3 DEF BootRests, Unrepaired
<1> HIDE DEF s
<1>7. CASE BlockStep(p)
  <2>1. CASE status[s] = "running"
    <3>1. Lifecycle!transition("running", "runtime_failure") = "blocked"
      BY DEF Lifecycle!transition, Lifecycle!transitions
    <3>2. AbortScheduledTurn(s) /\ status' = [status EXCEPT ![s] = "blocked"]
      BY <1>7, <2>1, <3>1 DEF BlockStep, SetStatus, s
    <3> QED
      BY <1>2, <1>4, <1>5, <3>2, AbortKeepsServed
  <2>2. CASE status[s] # "running"
    <3>1. UNCHANGED <<threadVars, slotVars, turnVars>> /\ sweep # "rehydrate"
      BY <1>7, <2>2 DEF BlockStep, SweepOver, s
    <3> QED
      BY <1>4, <1>6, <3>1, StatusKeepsServed DEF threadVars
  <2> QED
    BY <2>1, <2>2
<1>8. CASE RecoverStep(p)
  <2>1. sweep # "rehydrate"
    BY <1>8 DEF RecoverStep, SweepOver
  <2>2. CASE Wake(s, "runtime_recovered", unread)
    <3>1. unread \in [Sessions -> SUBSET Inputs]
      BY BaseTyped
    <3>2. Dispatched(s, [status EXCEPT ![s] = "running"], unread)
      BY <1>2, <2>2, <3>1, WakeLeaves
    <3> QED
      BY <1>2, <1>4, <1>6, <2>1, <3>2, DispatchKeepsServed
  <2>3. CASE UNCHANGED <<threadVars, slotVars, turnVars>>
    BY <1>4, <1>6, <2>1, <2>3, StatusKeepsServed DEF threadVars
  <2> QED
    BY <1>8, <2>2, <2>3 DEF RecoverStep, s
<1>9. CASE ArchiveStep(p)
  <2>1. status' = [status EXCEPT ![s] = "archived"]
    BY <1>9 DEF ArchiveStep, s
  <2>2. CASE AbortScheduledTurn(s)
    BY <1>2, <1>4, <1>5, <2>1, <2>2, AbortKeepsServed
  <2>3. CASE UNCHANGED <<slotVars, turnVars>>
    <3>1. \A x \in Sessions : status'[x] = "running" => x # s /\ status[x] = "running"
      BY <2>1, BaseTyped
    <3> QED
      BY <1>4, <1>5, <2>3, <3>1, StatusKeepsServed
  <2> QED
    BY <1>9, <2>2, <2>3 DEF ArchiveStep, s
<1>10. CASE RehydrateStep(p)
  <2>1. Lifecycle!transition("running", "runtime_failure") # "running"
    BY DEF Lifecycle!transition, Lifecycle!transitions
  <2>2. Lifecycle!transition("idle", "trigger_scheduled") # "running"
    BY DEF Lifecycle!transition, Lifecycle!transitions
  <2>3. Lifecycle!transition("sleeping", "triggers_empty") # "running"
    BY DEF Lifecycle!transition, Lifecycle!transitions
  <2>4. \A x \in Sessions : status'[x] = "running" =>
           status[x] = "running" /\ (x = s => s \notin bootRunning)
    BY <1>2, <1>10, <2>1, <2>2, <2>3, BaseTyped DEF RehydrateStep, Synced, s
  <2>5. phase = "syncing"
    BY <1>10, ServedParts DEF RehydrateStep, SweepOver
  <2>6. \A x \in Sessions : status'[x] = "running" =>
           status[x] = "running" /\ (x \in {s} => x \in active \cup Queued)
    BY <2>4, <2>5, ServedParts
  <2> QED
    BY <1>4, <1>5, <1>10, <2>6, StatusKeepsServed DEF RehydrateStep
<1> QED
  BY <1>1, <1>7, <1>8, <1>9, <1>10


\* The other steps keep it.  A loop that ends has reached every session, and a new
\* process knows which sessions to repair.
LEMMA OtherStepsKeepServed ==
    ASSUME Base, ServedInv,
           \/ \E r \in Runtimes : RuntimeStep(r)
           \/ ArchiveProject \/ SetProvider \/ EndSweep \/ Flush
           \/ Crash \/ Shutdown \/ Exit \/ Boot
    PROVE  ServedInv'
<1>1. ASSUME UNCHANGED <<status, slotVars, turnVars, bootRunning>>,
             phase' = "stopping" \/ \A x \in Sessions : Unrepaired(x) => Unrepaired(x)',
             phase = "stopping" => phase' = "stopping",
             \A x \in Sessions : turn[x] # "settled",
             sweep' = "rehydrate" => phase' = "syncing"
      PROVE  ServedInv'
  <2>1. Queued' = Queued /\ UNCHANGED <<active, ctl, turn>>
    BY <1>1, SameQueued DEF slotVars, turnVars
  <2> QED
    BY <1>1, <2>1, ServedParts, ServedPartsNext
<1>2. CASE (\E r \in Runtimes : RuntimeStep(r)) \/ ArchiveProject \/ SetProvider \/ Flush
  <2>1. /\ UNCHANGED <<status, slotVars, turnVars, bootRunning, phase>>
        /\ sweep' # "rehydrate"
        /\ Quiet
    BY <1>2 DEF RuntimeStep, RuntimeDown, RuntimeUp, Attach, ArchiveProject, SetProvider,
       Flush, Request, Quiet, NoSweep, threadVars, bootVars, sweepVars
  <2>2. \A x \in Sessions : Unrepaired(x) => Unrepaired(x)'
    BY <2>1 DEF Unrepaired
  <2> QED
    BY <1>1, <2>1, <2>2, QuietSettles
<1>3. CASE EndSweep
  <2>1. /\ UNCHANGED <<status, slotVars, turnVars, bootRunning>>
        /\ sweep # "none" /\ sweep' = "none" /\ todo = {}
        /\ phase' = IF sweep = "rehydrate" THEN "up" ELSE phase
    BY <1>3 DEF EndSweep, threadVars
  <2>2. \A x \in Sessions : turn[x] # "settled"
    BY <2>1, ServedParts
  <2>3. sweep = "rehydrate" => phase = "syncing"
    BY ServedParts
  <2>4. \A x \in Sessions : Unrepaired(x) => Unrepaired(x)'
    BY <2>1, <2>3 DEF Unrepaired
  <2> QED
    BY <1>1, <2>1, <2>2, <2>3, <2>4
<1>4. CASE BootRecover
  <2>1. /\ UNCHANGED <<status, slotVars, turnVars, bootRunning>>
        /\ sweep' = "recover" /\ phase = "loading" /\ phase' = "syncing"
        /\ Quiet
    BY <1>4 DEF BootRecover, threadVars
  <2>2. \A x \in Sessions : Unrepaired(x) => Unrepaired(x)'
    BY <2>1 DEF Unrepaired
  <2> QED
    BY <1>1, <2>1, <2>2, QuietSettles
<1>5. CASE BootRehydrate
  <2>1. /\ UNCHANGED <<status, slotVars, turnVars, bootRunning, phase>>
        /\ sweep' = "rehydrate" /\ phase = "syncing"
        /\ todo' = Sessions \X {"none"}
        /\ Quiet
    BY <1>5 DEF BootRehydrate, threadVars, bootVars
  <2>2. \A x \in Sessions : Unrepaired(x)'
    BY <2>1 DEF Unrepaired
  <2> QED
    BY <1>1, <2>1, <2>2, QuietSettles
<1>6. CASE Shutdown
  <2>1. Quiet /\ phase' = "stopping" /\ UNCHANGED <<status, turn, sweep>>
    BY <1>6 DEF Shutdown, threadVars, sweepVars
  <2>2. \A x \in Sessions : ctl'[x] # "none" <=> ctl[x] # "none"
    BY <1>6, BaseTyped DEF Shutdown
  <2>3. sweep' = "none" /\ \A x \in Sessions : turn'[x] # "settled"
    BY <2>1, QuietSettles
  <2> QED
    BY <2>1, <2>2, <2>3, ServedParts, ServedPartsNext
<1>7. ASSUME NEW img, StartProcess(img)
      PROVE  ServedInv'
  <2>1. \A x \in Sessions : ctl'[x] = "none" /\ turn'[x] = "none"
    BY <1>7 DEF StartProcess
  <2>2. sweep' = "none" /\ \A x \in Sessions : Unrepaired(x)'
    BY <1>7 DEF StartProcess, Unrepaired
  <2>3. \A x \in Sessions : status'[x] = "running" => x \in bootRunning'
    BY <1>7 DEF StartProcess
  <2> QED
    BY <2>1, <2>2, <2>3, ServedPartsNext DEF Awaits
<1> QED
  BY <1>2, <1>3, <1>4, <1>5, <1>6, <1>7 DEF Boot, Crash, Exit

\* The initial states: no session is running, none has a turn.
LEMMA InitServed == Init => ServedInv
BY DEF Init, ServedInv, TurnsAreControlled, SettledIsOver, SweepsMeetNoSettled, RepairsAtBoot,
       NobodyStranded, Compacting

\* Every step keeps it.
LEMMA NextKeepsServed == ~SetupFaults /\ Base /\ ServedInv /\ [Next]_vars => ServedInv'
<1> SUFFICES ASSUME ~SetupFaults, Base, ServedInv, [Next]_vars PROVE ServedInv'
  OBVIOUS
<1>1. CASE UNCHANGED vars
  <2>1. Queued' = Queued /\ UNCHANGED <<status, active, ctl, turn, sweep>>
    BY <1>1, SameQueued DEF vars, threadVars, slotVars, turnVars, sweepVars
  <2>2. BootRests({})
    BY <1>1, BootFrame DEF vars
  <2> QED
    BY <2>1, <2>2, ServedParts, OthersKeepServed
<1>2. CASE Next
  BY <1>2, RequestKeepsServed, TurnKeepsServed, TriggerKeepsServed, SweepKeepsServed,
     OtherStepsKeepServed DEF Next
<1> QED
  BY <1>1, <1>2

\* ServedInv holds in every reachable state.
LEMMA CoreServes == ASSUME ~SetupFaults PROVE Spec => []ServedInv
<1>1. Init => ServedInv
  BY InitServed
<1>2. Base /\ ServedInv /\ [Next]_vars => ServedInv'
  BY NextKeepsServed
<1> QED
  BY <1>1, <1>2, CoreHasBase, PTL DEF Spec

\* If the set-up of a turn does not throw, no session is stranded: once the server is up,
\* each running session waits in the queue or holds a slot, and each live turn belongs to
\* a running session (core-api.ts, #dispatchOrBlock, #runTurnInternal).
THEOREM TurnsAndStatusesAgree == ASSUME ~SetupFaults PROVE Spec => []TurnAndStatusAgree
<1>1. ServedInv => RunningHasTurn
  BY DEF ServedInv, NobodyStranded, RunningHasTurn, Unrepaired
<1>2. LiveTurnIsRunning /\ RunningHasTurn => TurnAndStatusAgree
  BY DEF TurnAndStatusAgree
<1> QED
  BY <1>1, <1>2, CoreServes, LiveTurnsRun, PTL


-----------------------------------------------------------------------------
(* A sleeping session has a trigger to wait for.                           *)

\* A session that sleeps after a step slept before it, and has kept its triggers and its
\* repair, or has an enabled trigger.
LEMMA SleepersStayArmed ==
    ASSUME SleeperIsArmed,
           \A x \in Sessions : status'[x] = "sleeping" =>
              \/ HasEnabledTriggers(trig', x)
              \/ /\ status[x] = "sleeping"
                 /\ HasEnabledTriggers(trig, x) => HasEnabledTriggers(trig', x)
                 /\ Unrepaired(x) => Unrepaired(x)'
    PROVE  SleeperIsArmed'
BY DEF SleeperIsArmed, HasEnabledTriggers

\* The usual case: the triggers and the process stay, and nobody falls asleep.
LEMMA NobodyFallsAsleep ==
    ASSUME SleeperIsArmed, BootRests({}), UNCHANGED trig,
           \A x \in Sessions : status'[x] = "sleeping" =>
              status[x] = "sleeping" \/ HasEnabledTriggers(trig, x)
    PROVE  SleeperIsArmed'
BY SleepersStayArmed DEF BootRests

\* A dispatched session is running or blocked.
LEMMA DispatchWakes ==
    ASSUME Base, NEW s \in Sessions, NEW unr,
           Dispatched(s, [status EXCEPT ![s] = "running"], unr),
           NEW x \in Sessions, status'[x] = "sleeping"
    PROVE  status[x] = "sleeping" /\ x # s
BY BaseTyped DEF Dispatched

\* A request puts nobody to sleep.
LEMMA RequestKeepsArmed ==
    ASSUME Base, SleeperIsArmed, NEW s \in Sessions, RequestOf(s)
    PROVE  SleeperIsArmed'
<1>1. /\ [unread EXCEPT ![s] = @ \cup {"user"}] \in [Sessions -> SUBSET Inputs]
      /\ unread \in [Sessions -> SUBSET Inputs]
  BY BaseTyped DEF Inputs
<1>2. BootRests({}) /\ UNCHANGED trig
  BY BootFrame
     DEF RequestOf, AppendUserMessage, CreateMessageVariant, RetryBlockedSession, RunSession,
         InterruptSession, DeleteSession, worldVars
<1>3. ASSUME NEW unr \in [Sessions -> SUBSET Inputs],
             NEW event \in {"user_message", "user_reply", "user_retry"},
             Wake(s, event, unr)
      PROVE  SleeperIsArmed'
  BY <1>2, <1>3, WakeLeaves, DispatchWakes, NobodyFallsAsleep
<1>4. CASE AppendUserMessage(s)
  BY <1>1, <1>3, <1>4 DEF AppendUserMessage
<1>5. CASE CreateMessageVariant(s)
  <2>1. \E event \in {"user_message", "user_reply", "user_retry"} :
           Wake(s, event, [unread EXCEPT ![s] = @ \cup {"user"}])
    BY <1>5 DEF CreateMessageVariant
  <2> QED
    BY <1>1, <1>3, <2>1
<1>6. CASE RetryBlockedSession(s)
  BY <1>1, <1>3, <1>6 DEF RetryBlockedSession
<1>7. CASE RunSession(s)
  <2>1. status[s] = "running" /\ status = [status EXCEPT ![s] = "running"]
    BY <1>7, BaseTyped DEF RunSession
  <2>2. Dispatched(s, [status EXCEPT ![s] = "running"], unread)
    BY <1>1, <1>7, <2>1, BaseTyped, DispatchLeaves DEF RunSession
  <2> QED
    BY <1>2, <2>2, DispatchWakes, NobodyFallsAsleep
<1>8. CASE InterruptSession(s) \/ DeleteSession(s)
  <2>1. PICK event \in {"user_interrupt", "user_archive"} : SetStatus(s, event)
    BY <1>8 DEF InterruptSession, DeleteSession
  <2>2. Lifecycle!transition(status[s], event) # "sleeping"
    <3>1. status[s] \in Status
      BY BaseTyped
    <3> QED
      BY <2>1, <3>1 DEF SetStatus, Status, Lifecycle!Status, Lifecycle!validTransitions,
                        Lifecycle!transition, Lifecycle!transitions
  <2>3. \A x \in Sessions : status'[x] = "sleeping" => status[x] = "sleeping"
    BY <2>1, <2>2, BaseTyped DEF SetStatus
  <2> QED
    BY <1>2, <2>3, NobodyFallsAsleep
<1> QED
  BY <1>4, <1>5, <1>6, <1>7, <1>8 DEF RequestOf

\* A turn puts its session to sleep only if one of its triggers is enabled.
LEMMA TurnKeepsArmed ==
    ASSUME Base, SleeperIsArmed, NEW s \in Sessions, TurnStep(s) \/ Microtask(s)
    PROVE  SleeperIsArmed'
<1>1. BootRests({}) /\ UNCHANGED trig
  BY BootFrame
     DEF TurnStep, Microtask, Iterate, FinishTurn, AskUser, FailTurn, Compact, CompactDone,
         Unwind, ReleaseSlot, TurnFrame, worldVars
<1>2. CASE UNCHANGED status
  BY <1>1, <1>2, NobodyFallsAsleep
<1>3. ASSUME FinalizeAborted(s) \/ TurnFinished(s) \/ TurnFailed(s)
                 \/ EndTurn(s, "agent_ask_user")
      PROVE  SleeperIsArmed'
  <2>1. PICK event \in {"user_interrupt", "agent_schedule_sleep", "turn_finished",
                        "runtime_failure", "agent_ask_user"} :
           /\ EndTurn(s, event)
           /\ event = "agent_schedule_sleep" => HasEnabledTriggers(trig, s)
    BY <1>3 DEF FinalizeAborted, TurnFinished, TurnFailed, EndTurn
  <2>2. event # "agent_schedule_sleep" =>
            Lifecycle!transition("running", event) # "sleeping"
    BY DEF Lifecycle!transition, Lifecycle!transitions
  <2>3. \A x \in Sessions : status'[x] = "sleeping" =>
            status[x] = "sleeping" \/ HasEnabledTriggers(trig, x)
    BY <2>1, <2>2, BaseTyped DEF EndTurn
  <2> QED
    BY <1>1, <2>3, NobodyFallsAsleep
<1>4. CASE ReleaseSlot(s)
  BY <1>2, <1>4, ReleaseLeaves DEF Released
<1>5. CASE CompactDone(s)
  <2>1. \/ NextIteration(s)
        \/ FinalizeAborted(s) \/ TurnFinished(s) \/ TurnFailed(s)
    BY <1>5 DEF CompactDone
  <2> QED
    BY <1>2, <1>3, <2>1 DEF NextIteration
<1> QED
  BY <1>2, <1>3, <1>4, <1>5 DEF TurnStep, Microtask, Iterate, NextIteration, FinishTurn,
     AskUser, FailTurn, Compact, Unwind

\* The status of a session follows its triggers (#syncTriggerState).
LEMMA SyncArms ==
    ASSUME NEW tr, NEW s \in Sessions, Synced(tr, s) = "sleeping"
    PROVE  HasEnabledTriggers(tr, s)
<1>1. Lifecycle!transition("sleeping", "triggers_empty") # "sleeping"
  BY DEF Lifecycle!transition, Lifecycle!transitions
<1> QED
  BY <1>1 DEF Synced

\* A trigger that is switched off or deleted wakes its session, and no other session had it.
LEMMA TriggerKeepsArmed ==
    ASSUME Base, SleeperIsArmed, NEW t \in Triggers, TriggerStep(t)
    PROVE  SleeperIsArmed'
<1>1. Owner[t] \in Sessions
  BY OwnerTyped
<1>2. BootRests({})
  BY BootFrame
     DEF TriggerStep, ScheduleTrigger, CancelTrigger, DeleteTrigger, FireTrigger,
         SyncTriggerState
<1>3. \A x \in Sessions \ {Owner[t]} :
         HasEnabledTriggers(trig, x) => HasEnabledTriggers(trig', x)
  <2>1. trig \in [Triggers -> {"absent", "on", "off"}]
    BY DEF Base, TypeOK
  <2>2. \A u \in Triggers \ {t} : trig'[u] = trig[u]
    BY <2>1 DEF TriggerStep, ScheduleTrigger, CancelTrigger, DeleteTrigger, FireTrigger
  <2> QED
    BY <2>2 DEF HasEnabledTriggers
<1>4. CASE SyncTriggerState(t)
  <2>1. status' = [status EXCEPT ![Owner[t]] = Synced(trig', Owner[t])]
    BY <1>4 DEF SyncTriggerState
  <2>2. \A x \in Sessions : status'[x] = "sleeping" =>
           HasEnabledTriggers(trig', x) \/ (x # Owner[t] /\ status[x] = "sleeping")
    BY <1>1, <2>1, SyncArms, BaseTyped
  <2> QED
    BY <1>2, <1>3, <2>2, SleepersStayArmed DEF BootRests
<1>5. CASE FireTrigger(t)
  <2> DEFINE unr == [unread EXCEPT ![Owner[t]] = @ \cup {"trigger"}]
  <2>1. unr \in [Sessions -> SUBSET Inputs]
    BY <1>1, BaseTyped DEF Inputs
  <2> HIDE DEF unr
  <2>2. \A x \in Sessions : status'[x] = "sleeping" => x # Owner[t] /\ status[x] = "sleeping"
    <3>1. CASE Wake(Owner[t], "trigger_fired", unr)
      BY <1>1, <2>1, <3>1, WakeLeaves, DispatchWakes
    <3>2. CASE status[Owner[t]] \notin {"idle", "sleeping"} /\ UNCHANGED status
      BY <3>2
    <3> QED
      BY <1>5, <3>1, <3>2 DEF FireTrigger, unr
  <2> QED
    BY <1>2, <1>3, <2>2, SleepersStayArmed DEF BootRests
<1> QED
  BY <1>4, <1>5 DEF TriggerStep, ScheduleTrigger, CancelTrigger, DeleteTrigger


\* The loops over sessions keep it; the repair compares each sleeping session with its
\* triggers.
LEMMA SweepKeepsArmed ==
    ASSUME Base, SleeperIsArmed, SweepStep
    PROVE  SleeperIsArmed'
<1>1. PICK p \in todo : BlockStep(p) \/ RecoverStep(p) \/ ArchiveStep(p) \/ RehydrateStep(p)
  BY DEF SweepStep
<1> DEFINE s == p[1]
<1>2. s \in Sessions
  BY <1>1 DEF Base, TypeOK
<1>3. UNCHANGED <<sweep, phase, bootRunning, trig>> /\ todo' = todo \ {p}
  BY <1>1 DEF BlockStep, RecoverStep, ArchiveStep, RehydrateStep, SweepOver, bootVars, worldVars
<1>4. \A x \in Sessions \ {s} : Unrepaired(x) => Unrepaired(x)'
  <2>1. \A x \in Sessions \ {s} : <<x, "none">> \in todo => <<x, "none">> \in todo'
    BY <1>3
  <2> QED
    BY <1>3, <2>1 DEF Unrepaired
<1>5. sweep # "rehydrate" => BootRests({})
  BY <1>3 DEF BootRests, Unrepaired
<1> HIDE DEF s
<1>6. ASSUME sweep # "rehydrate",
             \A x \in Sessions : status'[x] = "sleeping" => status[x] = "sleeping"
      PROVE  SleeperIsArmed'
  BY <1>3, <1>5, <1>6, NobodyFallsAsleep
<1>7. CASE BlockStep(p)
  <2>1. Lifecycle!transition("running", "runtime_failure") # "sleeping"
    BY DEF Lifecycle!transition, Lifecycle!transitions
  <2>2. \A x \in Sessions : status'[x] = "sleeping" => status[x] = "sleeping"
    BY <1>2, <1>7, <2>1, BaseTyped DEF BlockStep, SetStatus, threadVars, s
  <2> QED
    BY <1>6, <1>7, <2>2 DEF BlockStep, SweepOver
<1>8. CASE RecoverStep(p)
  <2>1. CASE Wake(s, "runtime_recovered", unread)
    <3>1. unread \in [Sessions -> SUBSET Inputs]
      BY BaseTyped
    <3> QED
      BY <1>2, <1>6, <1>8, <2>1, <3>1, WakeLeaves, DispatchWakes DEF RecoverStep, SweepOver
  <2>2. CASE UNCHANGED <<threadVars, slotVars, turnVars>>
    BY <1>6, <1>8, <2>2 DEF RecoverStep, SweepOver, threadVars
  <2> QED
    BY <1>8, <2>1, <2>2 DEF RecoverStep, s
<1>9. CASE ArchiveStep(p)
  <2>1. status' = [status EXCEPT ![s] = "archived"]
    BY <1>9 DEF ArchiveStep, s
  <2>2. \A x \in Sessions : status'[x] = "sleeping" => status[x] = "sleeping"
    BY <2>1, BaseTyped
  <2> QED
    BY <1>6, <1>9, <2>2 DEF ArchiveStep, SweepOver
<1>10. CASE RehydrateStep(p)
  <2>1. Lifecycle!transition("running", "runtime_failure") # "sleeping"
    BY DEF Lifecycle!transition, Lifecycle!transitions
  <2>2. \/ status' = [status EXCEPT ![s] = Lifecycle!transition("running", "runtime_failure")]
        \/ status' = [status EXCEPT ![s] = Synced(trig, s)]
    BY <1>10, BaseTyped DEF RehydrateStep, s
  <2>3. \A x \in Sessions : status'[x] = "sleeping" =>
           HasEnabledTriggers(trig, x) \/ (x # s /\ status[x] = "sleeping")
    BY <1>2, <2>1, <2>2, SyncArms, BaseTyped
  <2> QED
    BY <1>3, <1>4, <2>3, SleepersStayArmed
<1> QED
  BY <1>1, <1>7, <1>8, <1>9, <1>10

\* The other steps keep it: the repair has reached every session when it ends.
LEMMA OtherStepsKeepArmed ==
    ASSUME RepairsAtBoot, SleeperIsArmed,
           \/ \E r \in Runtimes : RuntimeStep(r)
           \/ ArchiveProject \/ SetProvider \/ EndSweep \/ Flush
           \/ Crash \/ Shutdown \/ Exit \/ Boot
    PROVE  SleeperIsArmed'
<1>1. ASSUME UNCHANGED <<status, trig>>,
             \A x \in Sessions : Unrepaired(x) => Unrepaired(x)'
      PROVE  SleeperIsArmed'
  BY <1>1, SleepersStayArmed
<1>2. CASE (\E r \in Runtimes : RuntimeStep(r)) \/ ArchiveProject \/ SetProvider \/ Flush
  <2>1. UNCHANGED <<status, trig, phase>> /\ sweep' # "rehydrate"
    BY <1>2 DEF RuntimeStep, RuntimeDown, RuntimeUp, Attach, ArchiveProject, SetProvider,
       Flush, Request, Quiet, NoSweep, threadVars, bootVars, sweepVars, worldVars
  <2> QED
    BY <1>1, <2>1 DEF Unrepaired
<1>3. CASE EndSweep
  <2>1. /\ UNCHANGED <<status, trig>>
        /\ sweep' = "none" /\ todo = {}
        /\ phase' = IF sweep = "rehydrate" THEN "up" ELSE phase
        /\ sweep = "rehydrate" => phase = "syncing"
    BY <1>3 DEF EndSweep, threadVars, worldVars, RepairsAtBoot
  <2> QED
    BY <1>1, <2>1 DEF Unrepaired
<1>4. CASE BootRecover
  <2>1. UNCHANGED <<status, trig>> /\ sweep' = "recover" /\ phase' = "syncing"
    BY <1>4 DEF BootRecover, threadVars, worldVars
  <2> QED
    BY <1>1, <2>1 DEF Unrepaired
<1>5. CASE BootRehydrate
  <2>1. /\ UNCHANGED <<status, trig, phase>>
        /\ phase = "syncing" /\ todo' = Sessions \X {"none"}
    BY <1>5 DEF BootRehydrate, threadVars, worldVars, bootVars
  <2> QED
    BY <1>1, <2>1 DEF Unrepaired
<1>6. CASE Shutdown
  <2>1. UNCHANGED <<status, trig>> /\ phase = "up"
    BY <1>6 DEF Shutdown, threadVars, worldVars
  <2> QED
    BY <1>1, <2>1 DEF Unrepaired
<1>7. ASSUME NEW img, StartProcess(img)
      PROVE  SleeperIsArmed'
  BY <1>7 DEF StartProcess, SleeperIsArmed, Unrepaired
<1> QED
  BY <1>2, <1>3, <1>4, <1>5, <1>6, <1>7 DEF Boot, Crash, Exit

\* Every step keeps it.
LEMMA NextKeepsArmed ==
    Base /\ RepairsAtBoot /\ SleeperIsArmed /\ [Next]_vars => SleeperIsArmed'
<1> SUFFICES ASSUME Base, RepairsAtBoot, SleeperIsArmed, [Next]_vars PROVE SleeperIsArmed'
  OBVIOUS
<1>1. CASE UNCHANGED vars
  <2>1. UNCHANGED <<status, trig>> /\ BootRests({})
    BY <1>1, BootFrame DEF vars, threadVars, worldVars
  <2> QED
    BY <2>1, NobodyFallsAsleep
<1>2. CASE Next
  BY <1>2, RequestKeepsArmed, TurnKeepsArmed, TriggerKeepsArmed, SweepKeepsArmed,
     OtherStepsKeepArmed DEF Next
<1> QED
  BY <1>1, <1>2

\* SleeperIsArmed holds in every reachable state.
LEMMA CoreArms == ASSUME ~SetupFaults PROVE Spec => []SleeperIsArmed
<1>1. Init => SleeperIsArmed
  BY DEF Init, SleeperIsArmed
<1>2. Base /\ RepairsAtBoot /\ SleeperIsArmed /\ [Next]_vars => SleeperIsArmed'
  BY NextKeepsArmed
<1>3. ServedInv => RepairsAtBoot
  BY DEF ServedInv
<1> QED
  BY <1>1, <1>2, <1>3, CoreHasBase, CoreServes, PTL DEF Spec

\* If the set-up of a turn does not throw, a restart, like every other step, leaves no
\* status that nothing will ever change: running without a turn, or sleeping without a
\* trigger (core-api.ts, rehydrateAfterStartup, #syncTriggerState).
THEOREM StatusesAreRepaired == ASSUME ~SetupFaults PROVE Spec => []StatusIsRepaired
<1>1. ServedInv => RunningHasTurn
  BY DEF ServedInv, NobodyStranded, RunningHasTurn, Unrepaired
<1>2. SleeperIsArmed => SleepingHasTrigger
  BY DEF SleeperIsArmed, SleepingHasTrigger, HasEnabledTriggers, Unrepaired
<1>3. RunningHasTurn /\ SleepingHasTrigger => StatusIsRepaired
  BY DEF StatusIsRepaired
<1> QED
  BY <1>1, <1>2, <1>3, CoreServes, CoreArms, PTL


-----------------------------------------------------------------------------
(* A turn that may still answer has read the user's input.                 *)

ReadInv == LiveTurnHasReadUser /\ UnwindingHasReadUser /\ WakesMeetNoUnwinding

\* What the invariant needs of the session x: nothing of it changes that matters ...
Rests(x) ==
    /\ ctl'[x] = ctl[x] /\ turn'[x] = turn[x]
    /\ "user" \in unread'[x] => "user" \in unread[x]
    /\ status'[x] = "running" => status[x] = "running" \/ ~Unwinding(x)

\* ... or its turn has just read the thread, ends, or is aborted with its session stopped.
Settles(x) ==
    \/ ctl'[x] = "live" /\ ("user" \in unread'[x] => x \in bootRunning)
    \/ ctl'[x] = "none"
    \/ turn'[x] # "raced" /\ ctl'[x] = "aborted"

Stops(x) == ctl'[x] = "aborted" /\ status'[x] # "running"

\* The invariant, about one session at a time.
LEMMA ReadParts ==
    ASSUME Base, ServedInv
    PROVE  ReadInv <=>
             \A x \in Sessions :
                /\ ctl[x] = "live" => "user" \notin unread[x] \/ x \in bootRunning
                /\ Unwinding(x) /\ status[x] = "running" =>
                      "user" \notin unread[x] \/ x \in bootRunning
                /\ sweep \in {"recover", "rehydrate"} => ~Unwinding(x)
<1>1. \A x \in Sessions : ctl[x] = "live" => x \in active
  BY ServedParts, BaseTyped DEF Awaits
<1>2. active \subseteq Sessions
  BY BaseTyped
<1> QED
  BY <1>1, <1>2 DEF ReadInv, LiveTurnHasReadUser, UnwindingHasReadUser, WakesMeetNoUnwinding

\* What is enough for it in the next state.
LEMMA ReadPartsNext ==
    ASSUME Base',
           \A x \in Sessions :
              /\ ctl'[x] = "live" => "user" \notin unread'[x] \/ x \in bootRunning'
              /\ (turn'[x] = "raced" /\ ctl'[x] = "aborted" /\ status'[x] = "running") =>
                    "user" \notin unread'[x] \/ x \in bootRunning'
              /\ sweep' \in {"recover", "rehydrate"} =>
                    ~(turn'[x] = "raced" /\ ctl'[x] = "aborted")
    PROVE  ReadInv'
<1>1. active' \subseteq Sessions
  BY DEF Base, TypeOK
<1> QED
  BY <1>1 DEF ReadInv, LiveTurnHasReadUser, UnwindingHasReadUser, WakesMeetNoUnwinding, Unwinding

\* A step keeps it if every session rests, settles, or is stopped outside the loops that
\* wake sessions.
LEMMA SessionsKeepReads ==
    ASSUME Base, Base', ServedInv, ReadInv, UNCHANGED <<bootRunning, sweep>>,
           \A x \in Sessions :
              \/ Rests(x) \/ Settles(x)
              \/ Stops(x) /\ sweep \notin {"recover", "rehydrate"}
    PROVE  ReadInv'
<1> DEFINE P(x) == /\ ctl[x] = "live" => "user" \notin unread[x] \/ x \in bootRunning
                   /\ Unwinding(x) /\ status[x] = "running" =>
                         "user" \notin unread[x] \/ x \in bootRunning
                   /\ sweep \in {"recover", "rehydrate"} => ~Unwinding(x)
           Q(x) == /\ ctl'[x] = "live" => "user" \notin unread'[x] \/ x \in bootRunning'
                   /\ (turn'[x] = "raced" /\ ctl'[x] = "aborted" /\ status'[x] = "running") =>
                         "user" \notin unread'[x] \/ x \in bootRunning'
                   /\ sweep' \in {"recover", "rehydrate"} =>
                         ~(turn'[x] = "raced" /\ ctl'[x] = "aborted")
<1>1. \A x \in Sessions : P(x)
  BY ReadParts
<1>2. ASSUME NEW x \in Sessions PROVE Q(x)
  <2>1. CASE Rests(x)
    BY <1>1, <2>1 DEF Rests, Unwinding
  <2>2. CASE Settles(x)
    BY <2>2 DEF Settles
  <2>3. CASE Stops(x) /\ sweep \notin {"recover", "rehydrate"}
    BY <2>3 DEF Stops
  <2> QED
    BY <2>1, <2>2, <2>3
<1> QED
  BY <1>2, ReadPartsNext

\* A dispatch keeps it: a new turn reads the thread, and a turn that goes on although its
\* session was not running belongs to a session of bootRunning.
LEMMA DispatchKeepsReads ==
    ASSUME Base, Base', RunsInv, ServedInv, ReadInv, ~SetupFaults, NEW s \in Sessions,
           NEW unr \in [Sessions -> SUBSET Inputs],
           \A x \in Sessions : x # s => unr[x] = unread[x],
           status[s] # "running" \/ unr = unread,
           \A x \in Sessions : ~Unwinding(x), UNCHANGED <<bootRunning, sweep>>,
           Dispatched(s, [status EXCEPT ![s] = "running"], unr)
    PROVE  ReadInv'
<1>1. \A x \in Sessions : x # s => Rests(x)
  BY BaseTyped DEF Dispatched, Rests
<1>2. Rests(s) \/ Settles(s)
  <2>1. status[s] # "running" /\ ctl[s] = "live" => s \in bootRunning
    BY DEF RunsInv, LiveTurnIsRunning
  <2>2. \/ ctl'[s] = "live" /\ unread'[s] = {}
        \/ /\ ctl'[s] = ctl[s] /\ turn'[s] = turn[s]
           /\ unread'[s] = unr[s]
    BY BaseTyped DEF Dispatched
  <2>3. ~Unwinding(s) /\ ctl[s] \in {"none", "live", "aborted"}
    BY BaseTyped
  <2> QED
    BY <2>1, <2>2, <2>3 DEF Rests, Settles, Unwinding
<1> QED
  BY <1>1, <1>2, SessionsKeepReads

\* An abort keeps it if its session is stopped, and no loop is about to wake it again.
LEMMA AbortKeepsReads ==
    ASSUME Base, Base', ServedInv, ReadInv, NEW s \in Sessions, AbortScheduledTurn(s),
           NEW v, v # "running", status' = [status EXCEPT ![s] = v],
           UNCHANGED <<unread, bootRunning, sweep>>, sweep \notin {"recover", "rehydrate"}
    PROVE  ReadInv'
<1>1. /\ ctl' = [ctl EXCEPT ![s] = IF @ = "live" THEN "aborted" ELSE @]
      /\ UNCHANGED turn
  BY AbortLeaves
<1>2. \A x \in Sessions : x # s => Rests(x)
  BY <1>1, BaseTyped DEF Rests
<1>3. Rests(s) \/ Stops(s)
  BY <1>1, BaseTyped DEF Rests, Stops
<1> QED
  BY <1>2, <1>3, SessionsKeepReads

\* A change of a status, or of nothing, keeps it if nobody is made running.
LEMMA StatusKeepsReads ==
    ASSUME Base, Base', ServedInv, ReadInv, UNCHANGED <<unread, turnVars, bootRunning, sweep>>,
           \A x \in Sessions : status'[x] = "running" => status[x] = "running"
    PROVE  ReadInv'
<1>1. \A x \in Sessions : Rests(x)
  BY DEF turnVars, Rests
<1> QED
  BY <1>1, SessionsKeepReads

\* A request keeps it.
LEMMA RequestKeepsReads ==
    ASSUME Base, Base', RunsInv, ServedInv, ReadInv, ~SetupFaults, NEW s \in Sessions,
           RequestOf(s)
    PROVE  ReadInv'
<1> DEFINE told == [unread EXCEPT ![s] = @ \cup {"user"}]
<1>1. /\ told \in [Sessions -> SUBSET Inputs]
      /\ unread \in [Sessions -> SUBSET Inputs]
      /\ \A x \in Sessions : x # s => told[x] = unread[x]
  BY BaseTyped DEF Inputs
<1> HIDE DEF told
<1>2. /\ UNCHANGED <<bootRunning, sweep>> /\ sweep = "none"
      /\ \A x \in Sessions : ~Unwinding(x)
  BY DEF RequestOf, AppendUserMessage, CreateMessageVariant, RetryBlockedSession, RunSession,
         InterruptSession, DeleteSession, Request, Quiet, NoSweep, bootVars, sweepVars
<1>3. ASSUME NEW unr \in {told, unread},
             NEW event \in {"user_message", "user_reply", "user_retry"},
             Wake(s, event, unr)
      PROVE  ReadInv'
  <2>1. unr \in [Sessions -> SUBSET Inputs] /\ \A x \in Sessions : x # s => unr[x] = unread[x]
    BY <1>1
  <2>2. status[s] # "running" /\ Dispatched(s, [status EXCEPT ![s] = "running"], unr)
    BY <1>3, <2>1, WakeLeaves
  <2> QED
    BY <1>2, <2>1, <2>2, DispatchKeepsReads
<1>4. CASE AppendUserMessage(s)
  BY <1>3, <1>4 DEF AppendUserMessage, told
<1>5. CASE CreateMessageVariant(s)
  <2>1. \E event \in {"user_message", "user_reply", "user_retry"} : Wake(s, event, told)
    BY <1>5 DEF CreateMessageVariant, told
  <2> QED
    BY <1>3, <2>1
<1>6. CASE RetryBlockedSession(s)
  BY <1>3, <1>6 DEF RetryBlockedSession
<1>7. CASE RunSession(s)
  <2>1. status[s] = "running" /\ status = [status EXCEPT ![s] = "running"]
    BY <1>7, BaseTyped DEF RunSession
  <2>2. Dispatched(s, [status EXCEPT ![s] = "running"], unread)
    BY <1>1, <1>7, <2>1, BaseTyped, DispatchLeaves DEF RunSession
  <2> QED
    BY <1>1, <1>2, <2>2, DispatchKeepsReads
<1>8. CASE InterruptSession(s)
  <2>1. /\ SetStatus(s, "user_interrupt") /\ AbortScheduledTurn(s)
        /\ UNCHANGED unread
    BY <1>8 DEF InterruptSession
  <2>2. Lifecycle!transition(status[s], "user_interrupt") = "idle"
    <3>1. status[s] \in Status
      BY BaseTyped
    <3> QED
      BY <2>1, <3>1 DEF SetStatus, Status, Lifecycle!Status, Lifecycle!validTransitions,
                        Lifecycle!transition, Lifecycle!transitions
  <2>3. status' = [status EXCEPT ![s] = "idle"]
    BY <2>1, <2>2 DEF SetStatus
  <2> QED
    BY <1>2, <2>1, <2>3, AbortKeepsReads
<1>9. CASE DeleteSession(s)
  <2>1. SetStatus(s, "user_archive") /\ UNCHANGED <<unread, turnVars>>
    BY <1>9 DEF DeleteSession
  <2>2. Lifecycle!transition(status[s], "user_archive") = "archived"
    <3>1. status[s] \in Status
      BY BaseTyped
    <3> QED
      BY <2>1, <3>1 DEF SetStatus, Status, Lifecycle!Status, Lifecycle!validTransitions,
                        Lifecycle!transition, Lifecycle!transitions
  <2>3. \A x \in Sessions : status'[x] = "running" => status[x] = "running"
    BY <2>1, <2>2, BaseTyped DEF SetStatus
  <2> QED
    BY <1>2, <2>1, <2>3, StatusKeepsReads
<1> QED
  BY <1>4, <1>5, <1>6, <1>7, <1>8, <1>9 DEF RequestOf


\* A turn that goes on, ends or is released keeps it: it reads the thread, or has no
\* controller any more.
LEMMA TurnKeepsReads ==
    ASSUME Base, Base', ServedInv, ReadInv, ~SetupFaults, NEW s \in Sessions,
           TurnStep(s) \/ Microtask(s)
    PROVE  ReadInv'
<1>1. UNCHANGED <<bootRunning, sweep>>
  BY DEF TurnStep, Microtask, Iterate, FinishTurn, AskUser, FailTurn, Compact, CompactDone,
         Unwind, ReleaseSlot, TurnFrame, bootVars, sweepVars
<1>2. ASSUME UNCHANGED slotVars,
             FinalizeAborted(s) \/ TurnFinished(s) \/ TurnFailed(s)
                 \/ EndTurn(s, "agent_ask_user")
      PROVE  ReadInv'
  <2>1. Ended(s)
    BY <1>2, EndLeaves
  <2>2. Settles(s)
    BY <2>1, BaseTyped DEF Ended, Settles
  <2>3. \A x \in Sessions : x # s => Rests(x)
    BY <2>1, BaseTyped DEF Ended, Rests
  <2> QED
    BY <1>1, <2>2, <2>3, SessionsKeepReads
<1>3. ASSUME NextIteration(s), ctl[s] # "aborted"
      PROVE  ReadInv'
  <2>1. Settles(s)
    BY <1>3, BaseTyped DEF NextIteration, Settles
  <2>2. \A x \in Sessions : x # s => Rests(x)
    BY <1>3, BaseTyped DEF NextIteration, Rests
  <2> QED
    BY <1>1, <2>1, <2>2, SessionsKeepReads
<1>4. CASE Iterate(s)
  BY <1>3, <1>4 DEF Iterate, Answerable
<1>5. CASE FinishTurn(s) \/ AskUser(s) \/ FailTurn(s)
  BY <1>2, <1>5 DEF FinishTurn, AskUser, FailTurn, TurnFrame
<1>6. CASE Compact(s)
  <2>1. /\ \E t : turn' = [turn EXCEPT ![s] = t]
        /\ ctl[s] = "live" /\ UNCHANGED <<status, unread, ctl>>
    BY <1>6 DEF Compact, Answerable
  <2>2. Settles(s)
    BY <2>1, ReadParts DEF Settles
  <2>3. \A x \in Sessions : x # s => Rests(x)
    BY <2>1, BaseTyped DEF Rests
  <2> QED
    BY <1>1, <2>2, <2>3, SessionsKeepReads
<1>7. CASE CompactDone(s)
  <2>1. \/ ctl[s] # "aborted" /\ NextIteration(s)
        \/ FinalizeAborted(s) \/ TurnFinished(s) \/ TurnFailed(s)
    BY <1>7 DEF CompactDone
  <2> QED
    BY <1>2, <1>3, <1>7, <2>1 DEF CompactDone, TurnFrame
<1>8. CASE Unwind(s)
  BY <1>2, <1>8 DEF Unwind, TurnFrame
<1>9. CASE ReleaseSlot(s)
  <2>1. turn[s] = "settled" /\ ctl[s] # "live"
    BY <1>9, ServedParts DEF ReleaseSlot, Awaits
  <2>2. Released(s)
    BY <1>9, ReleaseLeaves
  <2>3. PICK began \in SUBSET Queued : \E faulty \in SUBSET began :
           LET entered == {x \in began : status[x] = "running" /\ ctl[x] # "live"}
           IN  /\ faulty # {} => SetupFaults
               /\ status' = status
               /\ ctl' = [x \in Sessions |-> IF x \in entered THEN "live" ELSE ctl[x]]
               /\ turn' = [x \in Sessions |->
                              IF x \in entered \ faulty THEN "raced"
                              ELSE IF x \in began THEN "settled"
                              ELSE IF x = s THEN "none" ELSE turn[x]]
               /\ unread' = [x \in Sessions |->
                                IF x \in entered \ faulty THEN {} ELSE unread[x]]
    BY <2>2 DEF Released
  <2>4. \A x \in began : ctl[x] # "live" /\ x # s
    BY <2>1, ServedParts, BaseTyped DEF Awaits
  <2>5. \A x \in began : Settles(x)
    BY <2>3, <2>4, BaseTyped DEF Settles
  <2>6. Settles(s)
    BY <2>1, <2>3, <2>4, BaseTyped DEF Settles
  <2>7. \A x \in Sessions : x \notin began /\ x # s => Rests(x)
    BY <2>3 DEF Rests
  <2> QED
    BY <1>1, <2>5, <2>6, <2>7, SessionsKeepReads
<1> QED
  BY <1>4, <1>5, <1>6, <1>7, <1>8, <1>9 DEF TurnStep, Microtask

\* A trigger keeps it: its event is not input of the user.
LEMMA TriggerKeepsReads ==
    ASSUME Base, Base', RunsInv, ServedInv, ReadInv, ~SetupFaults, NEW t \in Triggers,
           TriggerStep(t)
    PROVE  ReadInv'
<1>1. Owner[t] \in Sessions
  BY OwnerTyped
<1>2. /\ UNCHANGED <<bootRunning, sweep>>
      /\ \A x \in Sessions : ~Unwinding(x)
  BY DEF TriggerStep, ScheduleTrigger, CancelTrigger, DeleteTrigger, FireTrigger,
         SyncTriggerState, Request, Quiet, bootVars, sweepVars
<1>3. CASE SyncTriggerState(t)
  <2>1. \A x \in Sessions : Rests(x)
    BY <1>2, <1>3 DEF SyncTriggerState, turnVars, Rests
  <2> QED
    BY <1>2, <2>1, SessionsKeepReads
<1>4. CASE FireTrigger(t)
  <2> DEFINE unr == [unread EXCEPT ![Owner[t]] = @ \cup {"trigger"}]
  <2>1. /\ unr \in [Sessions -> SUBSET Inputs]
        /\ \A x \in Sessions : x # Owner[t] => unr[x] = unread[x]
        /\ \A x \in Sessions : "user" \in unr[x] => "user" \in unread[x]
    BY <1>1, BaseTyped DEF Inputs
  <2> HIDE DEF unr
  <2>2. CASE Wake(Owner[t], "trigger_fired", unr)
    <3>1. /\ status[Owner[t]] # "running"
          /\ Dispatched(Owner[t], [status EXCEPT ![Owner[t]] = "running"], unr)
      BY <1>1, <2>1, <2>2, WakeLeaves
    <3> QED
      BY <1>1, <1>2, <2>1, <3>1, DispatchKeepsReads
  <2>3. CASE unread' = unr /\ UNCHANGED <<status, slotVars, turnVars>>
    <3>1. \A x \in Sessions : Rests(x)
      BY <1>2, <2>1, <2>3 DEF turnVars, Rests
    <3> QED
      BY <1>2, <3>1, SessionsKeepReads
  <2> QED
    BY <1>4, <2>2, <2>3 DEF FireTrigger, unr
<1> QED
  BY <1>3, <1>4 DEF TriggerStep, ScheduleTrigger, CancelTrigger, DeleteTrigger

\* The loops over sessions keep it: the loop that wakes sessions aborts none.
LEMMA SweepKeepsReads ==
    ASSUME Base, Base', RunsInv, ServedInv, ReadInv, ~SetupFaults, SweepStep
    PROVE  ReadInv'
<1>1. PICK p \in todo : BlockStep(p) \/ RecoverStep(p) \/ ArchiveStep(p) \/ RehydrateStep(p)
  BY DEF SweepStep
<1> DEFINE s == p[1]
<1>2. s \in Sessions
  BY <1>1 DEF Base, TypeOK
<1>3. UNCHANGED <<sweep, bootRunning>>
  BY <1>1 DEF BlockStep, RecoverStep, ArchiveStep, RehydrateStep, SweepOver, bootVars
<1> HIDE DEF s
<1>4. CASE UNCHANGED <<threadVars, slotVars, turnVars>>
  BY <1>3, <1>4, StatusKeepsReads DEF threadVars
<1>5. CASE BlockStep(p) /\ status[s] = "running"
  <2>1. Lifecycle!transition("running", "runtime_failure") = "blocked"
    BY DEF Lifecycle!transition, Lifecycle!transitions
  <2>2. /\ AbortScheduledTurn(s) /\ status' = [status EXCEPT ![s] = "blocked"]
        /\ UNCHANGED unread /\ sweep = "block"
    BY <1>5, <2>1 DEF BlockStep, SetStatus, SweepOver, s
  <2> QED
    BY <1>2, <1>3, <2>2, AbortKeepsReads
<1>6. CASE RecoverStep(p) /\ Wake(s, "runtime_recovered", unread)
  <2>1. unread \in [Sessions -> SUBSET Inputs]
    BY BaseTyped
  <2>2. status[s] # "running" /\ Dispatched(s, [status EXCEPT ![s] = "running"], unread)
    BY <1>2, <1>6, <2>1, WakeLeaves
  <2>3. \A x \in Sessions : ~Unwinding(x)
    BY <1>6, ReadParts DEF RecoverStep, SweepOver
  <2> QED
    BY <1>2, <1>3, <2>1, <2>2, <2>3, DispatchKeepsReads
<1>7. CASE ArchiveStep(p)
  <2>1. /\ status' = [status EXCEPT ![s] = "archived"]
        /\ UNCHANGED unread /\ sweep = "archive"
    BY <1>7 DEF ArchiveStep, SweepOver, s
  <2>2. CASE AbortScheduledTurn(s)
    BY <1>2, <1>3, <2>1, <2>2, AbortKeepsReads
  <2>3. CASE UNCHANGED <<slotVars, turnVars>>
    <3>1. \A x \in Sessions : status'[x] = "running" => status[x] = "running"
      BY <2>1, BaseTyped
    <3> QED
      BY <1>3, <2>1, <2>3, <3>1, StatusKeepsReads
  <2> QED
    BY <1>7, <2>2, <2>3 DEF ArchiveStep, s
<1>8. CASE RehydrateStep(p)
  <2>1. Lifecycle!transition("running", "runtime_failure") # "running"
    BY DEF Lifecycle!transition, Lifecycle!transitions
  <2>2. Lifecycle!transition("idle", "trigger_scheduled") # "running"
    BY DEF Lifecycle!transition, Lifecycle!transitions
  <2>3. Lifecycle!transition("sleeping", "triggers_empty") # "running"
    BY DEF Lifecycle!transition, Lifecycle!transitions
  <2>4. \A x \in Sessions : status'[x] = "running" => status[x] = "running"
    BY <1>2, <1>8, <2>1, <2>2, <2>3, BaseTyped DEF RehydrateStep, Synced, s
  <2> QED
    BY <1>3, <1>8, <2>4, StatusKeepsReads DEF RehydrateStep
<1> QED
  BY <1>1, <1>4, <1>5, <1>6, <1>7, <1>8 DEF BlockStep, RecoverStep, s

\* The other steps keep it: a shutdown aborts turns that have read the user's input.
LEMMA OtherStepsKeepReads ==
    ASSUME Base, Base', ServedInv, ReadInv,
           \/ \E r \in Runtimes : RuntimeStep(r)
           \/ ArchiveProject \/ SetProvider \/ EndSweep \/ Flush
           \/ Crash \/ Shutdown \/ Exit \/ Boot
    PROVE  ReadInv'
<1>1. ASSUME UNCHANGED <<threadVars, turnVars, bootRunning>>,
             sweep' = "none" \/ \A x \in Sessions : ~Unwinding(x)
      PROVE  ReadInv'
  <2>1. UNCHANGED <<status, unread, ctl, turn, bootRunning>>
    BY <1>1 DEF threadVars, turnVars
  <2> QED
    BY <1>1, <2>1, ReadParts, ReadPartsNext DEF Unwinding
<1>2. CASE (\E r \in Runtimes : RuntimeStep(r)) \/ ArchiveProject \/ SetProvider \/ EndSweep
           \/ Flush \/ Boot
  BY <1>1, <1>2 DEF RuntimeStep, RuntimeDown, RuntimeUp, Attach, ArchiveProject, SetProvider,
     EndSweep, Flush, Boot, BootRecover, BootRehydrate, Request, Quiet, threadVars, bootVars
<1>3. CASE Shutdown
  <2>1. /\ UNCHANGED <<status, unread, turn, bootRunning>> /\ sweep' = "none"
        /\ \A x \in Sessions : ~Unwinding(x)
    BY <1>3, QuietSettles DEF Shutdown, Quiet, threadVars, sweepVars
  <2>2. \A x \in Sessions : ctl'[x] # "live" /\ (ctl'[x] = "aborted" =>
            ctl[x] = "live" \/ ctl[x] = "aborted")
    BY <1>3, BaseTyped DEF Shutdown
  <2> QED
    BY <2>1, <2>2, ReadParts, ReadPartsNext DEF Unwinding
<1>4. ASSUME NEW img, StartProcess(img)
      PROVE  ReadInv'
  BY <1>4, ReadPartsNext DEF StartProcess
<1> QED
  BY <1>2, <1>3, <1>4 DEF Crash, Exit


\* Every step keeps it.
LEMMA NextKeepsReads ==
    ~SetupFaults /\ Base /\ Base' /\ RunsInv /\ ServedInv /\ ReadInv /\ [Next]_vars => ReadInv'
<1> SUFFICES ASSUME ~SetupFaults, Base, Base', RunsInv, ServedInv, ReadInv, [Next]_vars
             PROVE  ReadInv'
  OBVIOUS
<1>1. CASE UNCHANGED vars
  BY <1>1, StatusKeepsReads DEF vars, threadVars, bootVars, sweepVars
<1>2. CASE Next
  BY <1>2, RequestKeepsReads, TurnKeepsReads, TriggerKeepsReads, SweepKeepsReads,
     OtherStepsKeepReads DEF Next
<1> QED
  BY <1>1, <1>2

\* RunsInv and ReadInv hold in every reachable state.
LEMMA CoreRuns == Spec => []RunsInv
<1>1. Init => RunsInv
  BY InitRuns
<1>2. Base /\ RunsInv /\ [Next]_vars => RunsInv'
  BY NextKeepsRuns
<1> QED
  BY <1>1, <1>2, CoreHasBase, PTL DEF Spec

LEMMA CoreReads == ASSUME ~SetupFaults PROVE Spec => []ReadInv
<1>1. Init => ReadInv
  BY DEF Init, ReadInv, LiveTurnHasReadUser, UnwindingHasReadUser, WakesMeetNoUnwinding,
         Unwinding
<1>2. Base /\ Base' /\ RunsInv /\ ServedInv /\ ReadInv /\ [Next]_vars => ReadInv'
  BY NextKeepsReads
<1> QED
  BY <1>1, <1>2, CoreHasBase, CoreRuns, CoreServes, PTL DEF Spec

\* If the set-up of a turn does not throw, a turn that may still answer has shown the
\* user's input to the model, but for the session that goes on under the repair after a
\* restart (agent-loop.ts, the start of each iteration).
THEOREM LiveTurnsHaveRead == ASSUME ~SetupFaults PROVE Spec => []LiveTurnHasReadUser
<1>1. ReadInv => LiveTurnHasReadUser
  BY DEF ReadInv
<1> QED
  BY <1>1, CoreReads, PTL

\* The parts of the invariant hold together: what a run checks on small instances, for
\* every set of sessions, triggers and runtimes and every limit.
THEOREM CoreInvHolds == ASSUME ~SetupFaults PROVE Spec => []CoreInv
<1>1. RunsInv /\ ServedInv /\ SleeperIsArmed /\ ReadInv => CoreInv
  BY DEF RunsInv, ServedInv, ReadInv, CoreInv
<1> QED
  BY <1>1, CoreRuns, CoreServes, CoreArms, CoreReads, PTL

-----------------------------------------------------------------------------
(* Who drops the user's input.                                             *)

\* A turn that makes its session idle has read the user's input, or was aborted while it
\* was compacting.
LEMMA TurnDropsNoInput ==
    ASSUME Base, ServedInv, ReadInv, NEW s \in Sessions, TurnStep(s) \/ Microtask(s),
           NEW x \in Sessions, "user" \in unread[x], status[x] = "running",
           status'[x] = "idle"
    PROVE  (Compacting(x) /\ ctl[x] = "aborted") \/ x \in bootRunning
<1>1. ASSUME NEW event, EndTurn(s, event),
             \/ ctl[s] = "live"
             \/ Unwinding(s)
             \/ Compacting(s) /\ ctl[s] = "aborted"
             \/ Lifecycle!transition("running", event) # "idle"
      PROVE  (Compacting(x) /\ ctl[x] = "aborted") \/ x \in bootRunning
  <2>1. x = s /\ Lifecycle!transition("running", event) = "idle"
    BY <1>1, BaseTyped DEF EndTurn
  <2> QED
    BY <1>1, <2>1, ReadParts
<1>2. CASE UNCHANGED status
  BY <1>2
<1>3. CASE FinishTurn(s) \/ AskUser(s) \/ FailTurn(s)
  BY <1>1, <1>3 DEF FinishTurn, TurnFinished, AskUser, FailTurn, TurnFailed, Answerable
<1>4. CASE CompactDone(s)
  <2>1. CASE ctl[s] = "aborted" /\ FinalizeAborted(s)
    BY <1>1, <1>4, <2>1 DEF CompactDone, FinalizeAborted, EndTurn
  <2>2. CASE ctl[s] = "live" /\ (TurnFinished(s) \/ TurnFailed(s))
    BY <1>1, <2>2 DEF TurnFinished, TurnFailed
  <2>3. ctl[s] # "none"
    BY <1>4, ServedParts DEF CompactDone, Compacting, Awaits
  <2> QED
    BY <1>2, <1>4, <2>1, <2>2, <2>3, BaseTyped DEF CompactDone, NextIteration
<1>5. CASE Unwind(s)
  BY <1>1, <1>5 DEF Unwind, FinalizeAborted, EndTurn
<1>6. CASE ReleaseSlot(s)
  BY <1>2, <1>6, ReleaseLeaves DEF Released
<1> QED
  BY <1>2, <1>3, <1>4, <1>5, <1>6 DEF TurnStep, Microtask, Iterate, NextIteration, Compact

\* No other step makes a running session idle, but the user's and a restart.
LEMMA OthersDropNoInput ==
    ASSUME Base, Next, NEW x \in Sessions, status[x] = "running", status'[x] = "idle",
           ~InterruptSession(x), restarts' = restarts
    PROVE  \E s \in Sessions : TurnStep(s) \/ Microtask(s)
<1>1. ASSUME NEW s \in Sessions, NEW unr, Dispatched(s, [status EXCEPT ![s] = "running"], unr)
      PROVE  FALSE
  BY <1>1, BaseTyped DEF Dispatched
<1>2. CASE \E s \in Sessions : RequestOf(s)
  <2>1. PICK s \in Sessions : RequestOf(s)
    BY <1>2
  <2>2. /\ [unread EXCEPT ![s] = @ \cup {"user"}] \in [Sessions -> SUBSET Inputs]
        /\ unread \in [Sessions -> SUBSET Inputs]
    BY BaseTyped DEF Inputs
  <2>3. ASSUME NEW unr \in [Sessions -> SUBSET Inputs],
               NEW event \in {"user_message", "user_reply", "user_retry"},
               Wake(s, event, unr)
        PROVE  FALSE
    BY <1>1, <2>3, WakeLeaves
  <2>4. CASE AppendUserMessage(s)
    BY <2>2, <2>3, <2>4 DEF AppendUserMessage
  <2>5. CASE CreateMessageVariant(s)
    <3>1. \E event \in {"user_message", "user_reply", "user_retry"} :
             Wake(s, event, [unread EXCEPT ![s] = @ \cup {"user"}])
      BY <2>5 DEF CreateMessageVariant
    <3> QED
      BY <2>2, <2>3, <3>1
  <2>6. CASE RetryBlockedSession(s)
    BY <2>2, <2>3, <2>6 DEF RetryBlockedSession
  <2>7. CASE RunSession(s)
    <3>1. status[s] = "running" /\ status = [status EXCEPT ![s] = "running"]
      BY <2>7, BaseTyped DEF RunSession
    <3>2. Dispatched(s, [status EXCEPT ![s] = "running"], unread)
      BY <2>2, <2>7, <3>1, BaseTyped, DispatchLeaves DEF RunSession
    <3> QED
      BY <1>1, <3>2
  <2>8. CASE InterruptSession(s)
    <3>1. x = s
      BY <2>8, BaseTyped DEF InterruptSession, SetStatus
    <3> QED
      BY <2>8, <3>1
  <2>9. CASE DeleteSession(s)
    <3>1. x = s
      BY <2>9, BaseTyped DEF DeleteSession, SetStatus
    <3> QED
      BY <2>9, <3>1 DEF DeleteSession, SetStatus, Lifecycle!validTransitions,
                        Lifecycle!transitions
  <2> QED
    BY <2>1, <2>4, <2>5, <2>6, <2>7, <2>8, <2>9 DEF RequestOf
<1>3. CASE \E t \in Triggers : TriggerStep(t)
  <2>1. PICK t \in Triggers : TriggerStep(t)
    BY <1>3
  <2>2. Owner[t] \in Sessions
    BY OwnerTyped
  <2>3. CASE SyncTriggerState(t)
    BY <2>2, <2>3, BaseTyped DEF SyncTriggerState, Synced
  <2>4. CASE FireTrigger(t)
    <3> DEFINE unr == [unread EXCEPT ![Owner[t]] = @ \cup {"trigger"}]
    <3>1. unr \in [Sessions -> SUBSET Inputs]
      BY <2>2, BaseTyped DEF Inputs
    <3> HIDE DEF unr
    <3>2. ~Wake(Owner[t], "trigger_fired", unr)
      BY <1>1, <2>2, <3>1, WakeLeaves
    <3> QED
      BY <2>4, <3>2 DEF FireTrigger, unr
  <2> QED
    BY <2>1, <2>3, <2>4 DEF TriggerStep, ScheduleTrigger, CancelTrigger, DeleteTrigger
<1>4. CASE SweepStep
  <2>1. PICK p \in todo : BlockStep(p) \/ RecoverStep(p) \/ ArchiveStep(p) \/ RehydrateStep(p)
    BY <1>4 DEF SweepStep
  <2> DEFINE s == p[1]
  <2>2. s \in Sessions
    BY <2>1 DEF Base, TypeOK
  <2> HIDE DEF s
  <2>3. CASE BlockStep(p)
    <3>1. Lifecycle!transition("running", "runtime_failure") # "idle"
      BY DEF Lifecycle!transition, Lifecycle!transitions
    <3> QED
      BY <2>2, <2>3, <3>1, BaseTyped DEF BlockStep, SetStatus, threadVars, s
  <2>4. CASE RecoverStep(p)
    <3>1. unread \in [Sessions -> SUBSET Inputs]
      BY BaseTyped
    <3>2. ~Wake(s, "runtime_recovered", unread)
      BY <1>1, <2>2, <3>1, WakeLeaves
    <3> QED
      BY <2>4, <3>2 DEF RecoverStep, threadVars, s
  <2>5. CASE ArchiveStep(p)
    BY <2>2, <2>5, BaseTyped DEF ArchiveStep, s
  <2>6. CASE RehydrateStep(p)
    <3>1. Lifecycle!transition("running", "runtime_failure") # "idle"
      BY DEF Lifecycle!transition, Lifecycle!transitions
    <3> QED
      BY <2>2, <2>6, <3>1, BaseTyped DEF RehydrateStep, Synced, s
  <2> QED
    BY <2>1, <2>3, <2>4, <2>5, <2>6
<1>5. CASE \/ \E r \in Runtimes : RuntimeStep(r)
           \/ ArchiveProject \/ SetProvider \/ EndSweep \/ Flush \/ Shutdown \/ Boot
  BY <1>5 DEF RuntimeStep, RuntimeDown, RuntimeUp, Attach, ArchiveProject, SetProvider,
     EndSweep, Flush, Shutdown, Boot, BootRecover, BootRehydrate, threadVars
<1>6. CASE Crash \/ Exit
  <2>1. restarts \in Nat
    BY BoundsTyped DEF Base, TypeOK
  <2> QED
    BY <1>6, <2>1 DEF Crash, Exit, StartProcess
<1> QED
  BY <1>2, <1>3, <1>4, <1>5, <1>6 DEF Next

\* If the set-up of a turn does not throw, input of the user is dropped only by the user, by
\* a restart, and in the two cases that DroppedByUserOrStaleTurn names (core-api.ts,
\* #finalizeAbortedTurn).
THEOREM InputIsDroppedByUser ==
    ASSUME ~SetupFaults PROVE Spec => DroppedByUserOrStaleTurn
<1>1. Base /\ ServedInv /\ ReadInv /\ [Next]_vars =>
        [\A s \in Sessions :
            ("user" \in unread[s] /\ status[s] = "running" /\ status'[s] = "idle")
                => \/ InterruptSession(s)
                   \/ Compacting(s) /\ ctl[s] = "aborted"
                   \/ s \in bootRunning
                   \/ restarts' # restarts]_vars
  BY TurnDropsNoInput, OthersDropNoInput
<1> QED
  BY <1>1, CoreHasBase, CoreServes, CoreReads, PTL DEF Spec, DroppedByUserOrStaleTurn


-----------------------------------------------------------------------------
(* The core implements the transition table.                               *)

\* The status on disk, as the lifecycle sees it.
saved == [s \in Sessions |-> disk[s].status]

\* One session moves along an edge of the table, or nothing happens.
LEMMA MoveStep ==
    ASSUME UNCHANGED disk, NEW s \in Sessions, NEW v \in Status,
           Lifecycle!Edge(status[s], v), status' = [status EXCEPT ![s] = v]
    PROVE  Lifecycle!Next
BY DEF Lifecycle!Next, Lifecycle!Move, Status

\* The events of SetStatus and of the end of a turn are edges.
LEMMA EventIsEdge ==
    ASSUME NEW a \in Status, NEW e \in Lifecycle!validTransitions(a)
    PROVE  Lifecycle!transition(a, e) \in Status /\ Lifecycle!Edge(a, Lifecycle!transition(a, e))
BY TransitionTyped DEF Lifecycle!Edge, Lifecycle!validTransitions

LEMMA SetStatusMoves ==
    ASSUME Base, UNCHANGED disk, NEW s \in Sessions, NEW e, SetStatus(s, e)
    PROVE  Lifecycle!Next
<1>1. status[s] \in Status /\ e \in Lifecycle!validTransitions(status[s])
  BY BaseTyped DEF SetStatus
<1>2. /\ Lifecycle!transition(status[s], e) \in Status
      /\ Lifecycle!Edge(status[s], Lifecycle!transition(status[s], e))
  BY <1>1, EventIsEdge
<1> QED
  BY <1>2, MoveStep DEF SetStatus

\* A wake-up is one step of the table, or two at once without a provider.
LEMMA WakeMoves ==
    ASSUME Base, UNCHANGED disk, NEW s \in Sessions, NEW unr \in [Sessions -> SUBSET Inputs],
           NEW event \in {"user_message", "user_reply", "user_retry", "trigger_fired",
                          "runtime_recovered"},
           Wake(s, event, unr)
    PROVE  Lifecycle!Next
<1>1. Dispatched(s, [status EXCEPT ![s] = "running"], unr)
  BY WakeLeaves
<1>2. Lifecycle!Edge(status[s], "running")
  <2>1. status[s] \in Status /\ event \in Lifecycle!validTransitions(status[s])
    BY BaseTyped DEF Wake
  <2>2. Lifecycle!transition(status[s], event) = "running"
    BY <2>1, WakesRun
  <2> QED
    BY <2>1, <2>2 DEF Lifecycle!Edge
<1>3. CASE status' = [status EXCEPT ![s] = "running"]
  BY <1>2, <1>3, MoveStep DEF Status, Lifecycle!Status
<1>4. CASE status' = [[status EXCEPT ![s] = "running"] EXCEPT ![s] = "blocked"]
  <2>1. status' = [status EXCEPT ![s] = Lifecycle!transition("running", "runtime_failure")]
    <3>1. Lifecycle!transition("running", "runtime_failure") = "blocked"
      BY DEF Lifecycle!transition, Lifecycle!transitions
    <3> QED
      BY <1>4, <3>1, BaseTyped
  <2> QED
    BY <1>2, <2>1 DEF Lifecycle!Next, Lifecycle!WakeAndBlock
<1> QED
  BY <1>1, <1>3, <1>4 DEF Dispatched

\* The requests follow the table.
LEMMA RequestMoves ==
    ASSUME Base, NEW s \in Sessions, RequestOf(s)
    PROVE  [Lifecycle!Next]_Lifecycle!vars
<1>1. /\ [unread EXCEPT ![s] = @ \cup {"user"}] \in [Sessions -> SUBSET Inputs]
      /\ unread \in [Sessions -> SUBSET Inputs]
  BY BaseTyped DEF Inputs
<1>2. UNCHANGED disk
  BY DEF RequestOf, AppendUserMessage, CreateMessageVariant, RetryBlockedSession, RunSession,
         InterruptSession, DeleteSession
<1>3. ASSUME NEW unr \in [Sessions -> SUBSET Inputs],
             NEW event \in {"user_message", "user_reply", "user_retry"},
             Wake(s, event, unr)
      PROVE  Lifecycle!Next
  BY <1>2, <1>3, WakeMoves
<1>4. CASE AppendUserMessage(s)
  BY <1>1, <1>3, <1>4 DEF AppendUserMessage
<1>5. CASE CreateMessageVariant(s)
  <2>1. \E event \in {"user_message", "user_reply", "user_retry"} :
           Wake(s, event, [unread EXCEPT ![s] = @ \cup {"user"}])
    BY <1>5 DEF CreateMessageVariant
  <2> QED
    BY <1>1, <1>3, <2>1
<1>6. CASE RetryBlockedSession(s)
  BY <1>1, <1>3, <1>6 DEF RetryBlockedSession
<1>7. CASE RunSession(s)
  <2>1. status[s] = "running" /\ status = [status EXCEPT ![s] = "running"]
    BY <1>7, BaseTyped DEF RunSession
  <2>2. Dispatched(s, status, unread)
    BY <1>1, <1>7, <2>1, BaseTyped, DispatchLeaves DEF RunSession
  <2>3. CASE status' = status
    BY <1>2, <2>3 DEF Lifecycle!vars
  <2>4. CASE status' = [status EXCEPT ![s] = "blocked"]
    <3>1. Lifecycle!Edge(status[s], "blocked")
      BY <2>1 DEF Lifecycle!Edge, Lifecycle!validTransitions, Lifecycle!transition,
                  Lifecycle!transitions
    <3> QED
      BY <1>2, <2>4, <3>1, MoveStep DEF Status, Lifecycle!Status
  <2> QED
    BY <2>2, <2>3, <2>4 DEF Dispatched
<1>8. CASE InterruptSession(s) \/ DeleteSession(s)
  BY <1>2, <1>8, SetStatusMoves DEF InterruptSession, DeleteSession
<1> QED
  BY <1>4, <1>5, <1>6, <1>7, <1>8 DEF RequestOf

\* The end of a turn follows the table, whatever its outcome.
LEMMA TurnMoves ==
    ASSUME Base, NEW s \in Sessions, TurnStep(s) \/ Microtask(s)
    PROVE  [Lifecycle!Next]_Lifecycle!vars
<1>1. UNCHANGED disk
  BY DEF TurnStep, Microtask, Iterate, FinishTurn, AskUser, FailTurn, Compact, CompactDone,
         Unwind, ReleaseSlot, TurnFrame
<1>2. CASE UNCHANGED status
  BY <1>1, <1>2 DEF Lifecycle!vars
<1>3. ASSUME FinalizeAborted(s) \/ TurnFinished(s) \/ TurnFailed(s)
                 \/ EndTurn(s, "agent_ask_user")
      PROVE  [Lifecycle!Next]_Lifecycle!vars
  <2>1. PICK e \in {"user_interrupt", "agent_schedule_sleep", "turn_finished",
                    "runtime_failure", "agent_ask_user"} : EndTurn(s, e)
    BY <1>3 DEF FinalizeAborted, TurnFinished, TurnFailed, EndTurn
  <2>2. CASE status[s] = "running"
    <3>1. "running" \in Status /\ e \in Lifecycle!validTransitions("running")
      BY DEF Status, Lifecycle!Status, Lifecycle!validTransitions, Lifecycle!transitions
    <3>2. /\ Lifecycle!transition(status[s], e) \in Status
          /\ Lifecycle!Edge(status[s], Lifecycle!transition(status[s], e))
      BY <2>2, <3>1, EventIsEdge
    <3> QED
      BY <1>1, <2>1, <2>2, <3>2, MoveStep DEF EndTurn
  <2>3. CASE status[s] # "running"
    BY <1>2, <2>1, <2>3 DEF EndTurn
  <2> QED
    BY <2>2, <2>3
<1>4. CASE CompactDone(s)
  BY <1>2, <1>3, <1>4 DEF CompactDone, NextIteration
<1>5. CASE ReleaseSlot(s)
  BY <1>2, <1>5, ReleaseLeaves DEF Released
<1> QED
  BY <1>2, <1>3, <1>4, <1>5 DEF TurnStep, Microtask, Iterate, NextIteration, FinishTurn,
     AskUser, FailTurn, Compact, Unwind

\* A status that follows the triggers moves along an edge, or stays.
LEMMA SyncMoves ==
    ASSUME Base, UNCHANGED disk, NEW s \in Sessions, NEW tr,
           status' = [status EXCEPT ![s] = Synced(tr, s)]
    PROVE  [Lifecycle!Next]_Lifecycle!vars
<1>1. CASE Synced(tr, s) = status[s]
  <2>1. status' = status
    BY <1>1, BaseTyped
  <2> QED
    BY <2>1 DEF Lifecycle!vars
<1>2. ASSUME NEW e \in Lifecycle!validTransitions(status[s]),
             Synced(tr, s) = Lifecycle!transition(status[s], e)
      PROVE  Lifecycle!Next
  <2>1. status[s] \in Status
    BY BaseTyped
  <2>2. Synced(tr, s) \in Status /\ Lifecycle!Edge(status[s], Synced(tr, s))
    BY <1>2, <2>1, EventIsEdge
  <2> QED
    BY <2>2, MoveStep
<1>3. /\ "trigger_scheduled" \in Lifecycle!validTransitions("idle")
      /\ "triggers_empty" \in Lifecycle!validTransitions("sleeping")
  BY DEF Lifecycle!validTransitions, Lifecycle!transitions
<1> QED
  BY <1>1, <1>2, <1>3 DEF Synced

\* The triggers follow the table.
LEMMA TriggerMoves ==
    ASSUME Base, NEW t \in Triggers, TriggerStep(t)
    PROVE  [Lifecycle!Next]_Lifecycle!vars
<1>1. Owner[t] \in Sessions
  BY OwnerTyped
<1>2. CASE SyncTriggerState(t)
  BY <1>1, <1>2, SyncMoves DEF SyncTriggerState
<1>3. CASE FireTrigger(t)
  <2> DEFINE unr == [unread EXCEPT ![Owner[t]] = @ \cup {"trigger"}]
  <2>1. unr \in [Sessions -> SUBSET Inputs] /\ UNCHANGED disk
    BY <1>1, <1>3, BaseTyped DEF Inputs, FireTrigger
  <2> HIDE DEF unr
  <2>2. CASE Wake(Owner[t], "trigger_fired", unr)
    BY <1>1, <2>1, <2>2, WakeMoves
  <2>3. CASE UNCHANGED status
    BY <2>1, <2>3 DEF Lifecycle!vars
  <2> QED
    BY <1>3, <2>2, <2>3 DEF FireTrigger, unr
<1> QED
  BY <1>2, <1>3 DEF TriggerStep, ScheduleTrigger, CancelTrigger, DeleteTrigger

\* So do the loops over sessions, but for the archived sessions of a project.
LEMMA SweepMoves ==
    ASSUME Base, SweepStep
    PROVE  [Lifecycle!Next]_Lifecycle!vars
<1>1. PICK p \in todo : BlockStep(p) \/ RecoverStep(p) \/ ArchiveStep(p) \/ RehydrateStep(p)
  BY DEF SweepStep
<1> DEFINE s == p[1]
<1>2. s \in Sessions
  BY <1>1 DEF Base, TypeOK
<1>3. UNCHANGED disk
  BY <1>1 DEF BlockStep, RecoverStep, ArchiveStep, RehydrateStep, SweepOver
<1> HIDE DEF s
<1>4. CASE UNCHANGED status
  BY <1>3, <1>4 DEF Lifecycle!vars
<1>5. CASE BlockStep(p)
  BY <1>2, <1>3, <1>4, <1>5, SetStatusMoves DEF BlockStep, threadVars, s
<1>6. CASE RecoverStep(p)
  <2>1. unread \in [Sessions -> SUBSET Inputs]
    BY BaseTyped
  <2>2. CASE Wake(s, "runtime_recovered", unread)
    BY <1>2, <1>3, <2>1, <2>2, WakeMoves
  <2> QED
    BY <1>4, <1>6, <2>2 DEF RecoverStep, threadVars, s
<1>7. CASE ArchiveStep(p)
  <2>1. status' = [status EXCEPT ![s] = "archived"]
    BY <1>7 DEF ArchiveStep, s
  <2>2. CASE status[s] = "archived"
    <3>1. status' = status
      BY <2>1, <2>2, BaseTyped
    <3> QED
      BY <1>4, <3>1
  <2>3. CASE status[s] # "archived"
    BY <1>2, <1>3, <2>1, <2>3 DEF Lifecycle!Next, Lifecycle!ArchiveWithProject
  <2> QED
    BY <2>2, <2>3
<1>8. CASE RehydrateStep(p)
  <2>1. CASE status[s] = "running" /\ s \in bootRunning
    <3>1. "runtime_failure" \in Lifecycle!validTransitions(status[s])
      BY <2>1 DEF Lifecycle!validTransitions, Lifecycle!transitions
    <3>2. SetStatus(s, "runtime_failure")
      BY <1>8, <2>1, <3>1 DEF RehydrateStep, SetStatus, s
    <3> QED
      BY <1>2, <1>3, <3>2, SetStatusMoves
  <2>2. CASE ~(status[s] = "running" /\ s \in bootRunning)
    <3>1. status' = [status EXCEPT ![s] = Synced(trig, s)]
      BY <1>8, <2>2 DEF RehydrateStep, s
    <3> QED
      BY <1>2, <1>3, <3>1, SyncMoves
  <2> QED
    BY <2>1, <2>2
<1> QED
  BY <1>1, <1>5, <1>6, <1>7, <1>8

\* A flush is a Save; a new process is a Restart.
LEMMA OtherStepsMove ==
    ASSUME Base,
           \/ \E r \in Runtimes : RuntimeStep(r)
           \/ ArchiveProject \/ SetProvider \/ EndSweep \/ Flush
           \/ Crash \/ Shutdown \/ Exit \/ Boot
    PROVE  [Lifecycle!Next]_Lifecycle!vars
<1>1. status = [s \in Sessions |-> status[s]]
  BY BaseTyped
<1>2. CASE \/ \E r \in Runtimes : RuntimeStep(r)
           \/ ArchiveProject \/ SetProvider \/ EndSweep \/ Shutdown \/ Boot
  <2>1. UNCHANGED <<status, disk>>
    BY <1>2 DEF RuntimeStep, RuntimeDown, RuntimeUp, Attach, ArchiveProject, SetProvider,
       EndSweep, Shutdown, Boot, BootRecover, BootRehydrate, threadVars
  <2> QED
    BY <2>1 DEF Lifecycle!vars
<1>3. CASE Flush
  <2>1. UNCHANGED status /\ saved' = [s \in Sessions |-> status[s]]
    BY <1>3 DEF Flush, Image, threadVars, saved
  <2> QED
    BY <1>1, <2>1 DEF Lifecycle!Next, Lifecycle!Save, saved
<1>4. CASE Crash
  <2>1. status' = saved /\ saved' = status'
    BY <1>4 DEF Crash, StartProcess, saved
  <2> QED
    BY <2>1 DEF Lifecycle!Next, Lifecycle!Restart, saved
<1>5. CASE Exit
  <2>1. /\ status' = [s \in Sessions |-> status[s]]
        /\ saved' = [s \in Sessions |-> status[s]]
    BY <1>5 DEF Exit, StartProcess, Image, saved
  <2> QED
    BY <1>1, <2>1 DEF Lifecycle!Next, Lifecycle!Restart, saved
<1> QED
  BY <1>2, <1>3, <1>4, <1>5

\* Every status follows the transition table of session-supervisor.ts: the detailed core
\* implements SessionLifecycle, through archiving, crashes and restarts, whether or not
\* the set-up of turns may fail.
THEOREM CoreImplementsLifecycle == Spec => LifecycleSpec
<1>1. Init => Lifecycle!Init
  BY DEF Init, Image, Lifecycle!Init
<1>2. Base /\ [Next]_vars => [Lifecycle!Next]_Lifecycle!vars
  <2> SUFFICES ASSUME Base, [Next]_vars PROVE [Lifecycle!Next]_Lifecycle!vars
    OBVIOUS
  <2>1. CASE UNCHANGED vars
    BY <2>1 DEF vars, threadVars, Lifecycle!vars
  <2>2. CASE Next
    BY <2>2, RequestMoves, TurnMoves, TriggerMoves, SweepMoves, OtherStepsMove DEF Next
  <2> QED
    BY <2>1, <2>2
<1> QED
  BY <1>1, <1>2, CoreHasBase, PTL DEF Spec, LifecycleSpec, Lifecycle!Spec
=============================================================================
