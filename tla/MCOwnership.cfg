\* One session, one runtime: what blocked it, and what wakes it.
SPECIFICATION OwnershipSpec
CONSTANTS
    Sessions = {s1}
    s1 = s1
    t1 = t1
    t2 = t2
    r1 = r1
    MaxConcurrent = 1
    Triggers = {}
    Owner <- NoOwner
    OneShot = {}
    Runtimes = {r1}
    Project = {}
    MaxIterations = 1
    SetupFaults = FALSE
    ReadyAtStart = {TRUE}
    MaxRestarts = 0
CHECK_DEADLOCK FALSE
PROPERTIES
    RecoversOnlyWhatItBlocked
