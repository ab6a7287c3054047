\* Messages, interrupts, deletion and archiving: more sessions than slots.
SPECIFICATION FairSpec
CONSTANTS
    Sessions = {s1, s2, s3}
    s1 = s1
    s2 = s2
    s3 = s3
    t1 = t1
    t2 = t2
    MaxConcurrent = 2
    Triggers = {}
    Owner <- NoOwner
    OneShot = {}
    Runtimes = {}
    Project = {s1}
    MaxIterations = 1
    SetupFaults = FALSE
    ReadyAtStart = {TRUE}
    MaxRestarts = 0
CHECK_DEADLOCK FALSE
INVARIANTS
    TypeOK
    SlotHeldByTurn
    LiveTurnHasReadUser
PROPERTIES
    SupervisorSpec
    DroppedByUserOrStaleTurn
    QueuedIsServed
    RunningIsTransient
