\* The session's thread and every component at the edges, one at a time.
SPECIFICATION EdgesSpec
CONSTANTS
    Focus = {"thread", "devices", "projects", "requests", "terminals", "voice", "service", "mcp", "workbench", "app", "work"}
    MaxSeq = 6
    MaxBranches = 2
    BatchSize = 2
    MaxBlocks = 2
    MaxRestarts = 1
    Compacts = TRUE
    DeviceIds = {"d1", "d2"}
    PairingCodes = {"c1", "c2"}
    StreamTokens = {"t1"}
    MaxPairRuns = 1
    Folders = {"p", "q"}
    DefaultFolder = "q"
    ProjectSessions = {"s1", "s2"}
    MaxTurns = 2
    MaxStarts = 1
    Terms = {"a", "b"}
    TermOps = {1, 2}
    MaxOutput = 2
    MaxKept = 2
    MaxTermOps = 3
    MaxStreams = 1
    Pids = {"p1", "p2", "p3"}
    Ports = {3000, 3130}
    Terminals = {"t1", "t2"}
    MaxCommands = 2
    MaxRecordings = 2
    MaxRequests = 4
    MaxTries = 1
    MaxTransports = 2
    GiveUp = 0
    MaxTicks = 1
    SessionProject <- SomeProjects
    FirstSessions = {"s1", "s3"}
    FirstProject = "p"
    Texts = {"t", "u"}
    MaxClicks = 3
    MaxHandlers = 2
    Desktops = {"a", "b"}
    FirstDesktop = "a"
    Urls = {"u", "v"}
    FirstUrl = "u"
    MaxTaps = 3
    MaxMoves = 1
    Todos <- SomeTodos
    Steps <- SomeSteps
    Files = {"f"}
    Tasks = {"x"}
    Window = 1
    MaxItems = 1
    MaxFacts = 4
    MaxOf <- SomeFacts
CHECK_DEADLOCK FALSE
INVARIANTS
    TypesOK
    CallsAndResultsPair
    ExclusiveRunsAlone
    KeysOpenOnce
    SessionsAreHoused
    ConsoleIsFaithful
    WorkIsProven
    
    ClosedStaysClosed
PROPERTIES
    FactsSurvive
    LateRequestsAreChecked
