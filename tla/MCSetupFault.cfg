\* The set-up of a turn may throw.
SPECIFICATION Spec
CONSTANTS
    Sessions = {s1}
    s1 = s1
    t1 = t1
    t2 = t2
    MaxConcurrent = 1
    Triggers = {}
    Owner <- NoOwner
    OneShot = {}
    Runtimes = {}
    Project = {}
    MaxIterations = 1
    SetupFaults = TRUE
    ReadyAtStart = {TRUE}
    MaxRestarts = 0
CHECK_DEADLOCK FALSE
INVARIANTS
    RunningHasTurn
