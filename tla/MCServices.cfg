\* Every component around the core, one at a time.
SPECIFICATION FairSpec
CONSTANTS
    Focus = {"permissions", "webridge", "mcp calls", "console", "android", "maintenance", "skills", "language servers", "evidence", "files", "subagents", "extensions", "model calls", "browser", "worktrees", "trigger clock", "memory store", "mcp surface", "skill sources", "packages", "usage", "supervisor"}
    ToolCalls = {"c1", "c2"}
    UsedInputs = {"read", "sensitive", "install", "destroy", "mcp"}
    MaxGrants = 1
    DeniedByRule = {"mcp"}
    AskedByRule = {"read"}
    AllowedByRule = {}
    McpCallIds = {"k1", "k2", "k3"}
    Watched = {"k1", "k3"}
    EditedFiles = {"f", "g"}
    FileTexts = {"short", "long"}
    LongTexts = {"long"}
    MaxForeign = 1
    TreeSessions = {"s1", "s2"}
    TreePlaces = {"w1"}
    MaxWork = 1
    ShellCommands = {"test", "format"}
    ShellChecks = {"test"}
    ShellWriters = {"format"}
    AgentTasks = {"b1", "b2"}
    MaxEntries = 1
    MaxRounds = 1
    MaxToolCalls = 2
    MaxDeaths = 1
    WebClients = {"e1", "e2"}
    WebCommands = {1, 2}
    MaxPolls = 2
    TabSessions = {"s1", "s2"}
    MaxConnections = 3
    MaxAttempts = 2
    MaxOps = 1
    ConsoleSessions = {"s1", "s2"}
    MaxEvents = 3
    MaxFetches = 1
    MaxBreaks = 1
    MaxLog = 2
    MaxKills = 1
    Providers = {"deepseek", "openai", "anthropic"}
    MaxRetries = 1
    MaxPieces = 2
    KeptTurns = {1, 2}
    Threshold = 2
    MaxFailures = 2
    SkillProjects = {"p", "q"}
    Home = "p"
    SkillReaders = {"s1", "s2"}
    SkillRegistries = {"r"}
    MaxTold = 5
    LspOps = {1, 2}
    SourceFiles = {"f", "g"}
    MaxClients = 2
    MaxServers = 2
    McpServers = {"a", "b"}
    OfProject = {"a", "b"}
    ToolSets = {{"t"}}
    MaxChanges = 2
    Sessions = {s1, s2, s3, s4}
    MaxConcurrent = 2
CHECK_DEADLOCK FALSE
INVARIANTS
    NobodyWaitsInVain
    NothingIsPassed
    
    StoresAreWhole
    NextIsFirstDue
    SurfaceIsUsable
    NoServerIsLost
    EndsAreTold
    NoWorkIsLost
    ReplyIsShownOnce
    SlotInv
    AsksItsCaller
PROPERTIES
    PermissionsHold
    OverStaysOver
    WaitingEnds
    NothingUnreadIsLost
    FirstComeFirstServed
