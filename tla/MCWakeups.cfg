\* Triggers and runtimes wake and block two sessions that share one slot.
SPECIFICATION Spec
CONSTANTS
    Sessions = {s1, s2}
    s1 = s1
    s2 = s2
    t1 = t1
    t2 = t2
    r1 = r1
    MaxConcurrent = 1
    Triggers = {t1, t2}
    Owner <- OwnerIsS1
    OneShot = {t1}
    Runtimes = {r1}
    Project = {s1, s2}
    MaxIterations = 1
    SetupFaults = FALSE
    ReadyAtStart = {TRUE, FALSE}
    MaxRestarts = 0
CHECK_DEADLOCK FALSE
INVARIANTS
    QueuedIsRunning
    TurnAndStatusAgree
