\* A crash or an orderly restart, with a trigger and a runtime.
SPECIFICATION Spec
CONSTANTS
    Sessions = {s1}
    s1 = s1
    t1 = t1
    t2 = t2
    r1 = r1
    MaxConcurrent = 1
    Triggers = {t1}
    Owner <- OwnerIsS1
    OneShot = {t1}
    Runtimes = {r1}
    Project = {s1}
    MaxIterations = 2
    SetupFaults = FALSE
    ReadyAtStart = {TRUE, FALSE}
    MaxRestarts = 1
CHECK_DEADLOCK FALSE
INVARIANTS
    StatusIsRepaired
    CoreInv
PROPERTIES
    LifecycleSpec
