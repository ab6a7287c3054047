------------------------------ MODULE Projects ------------------------------
(***************************************************************************)
(* Projects and the sessions in them: the project store (state.json, read  *)
(* and rewritten by every call), the folders it is about, the session that *)
(* each project's work goes to, and the project root that the skill store  *)
(* and the MCP manager share (#prepareProjectScopedStores).                *)
(***************************************************************************)
EXTENDS Naturals, FiniteSets

CONSTANTS Folders,        \* a project's id is the hash of its folder's path
          DefaultFolder,  \* the default workspace
          ProjectSessions,
          MaxTurns, MaxStarts

None == "none"

VARIABLES
    present,    \* the folders that exist
    stored,     \* state.json: each project, "open", "archived" or None
    currentId, defaultId,  \* state.json
    home,       \* the project of each session, or None
    live,       \* the sessions that are not archived
    turnRoot,   \* the project root that the turn of each session was started in
    sharedRoot, \* the project root of the skill store and the MCP manager
    turnsRun, starts

projectVars == <<present, stored, currentId, defaultId, home, live, turnRoot,
    sharedRoot, turnsRun, starts>>

\* After the first start.
Init ==
    /\ present = Folders
    /\ stored = [p \in Folders |-> IF p = DefaultFolder THEN "open" ELSE None]
    /\ currentId = DefaultFolder /\ defaultId = DefaultFolder
    /\ home = [s \in ProjectSessions |-> None]
    /\ live = {}
    /\ turnRoot = [s \in ProjectSessions |-> None]
    /\ sharedRoot = None
    /\ turnsRun = 0 /\ starts = 0

-----------------------------------------------------------------------------
\* normalizeProject: archived stays archived, anything else is what the disk says.
StatusOf(p) ==
    IF stored[p] # "open" THEN stored[p] ELSE IF p \in present THEN "active" ELSE "missing"

\* create() of a folder that is a project already keeps its status: an archived project
\* cannot be opened again, though it is made the current one.
Upserted(p) == [stored EXCEPT ![p] = IF @ = None THEN "open" ELSE @]

\* ensureDefaultProject: the project that is marked as default, else the one in the
\* default folder; it is active again whatever it was.
DefaultProject == IF defaultId # None THEN defaultId ELSE DefaultFolder

\* getCurrentProject, with what it writes: the current project, or the default.
CurrentStands == currentId # None /\ StatusOf(currentId) \notin {None, "archived"}
Current == IF CurrentStands THEN currentId ELSE DefaultProject
EnsureDefault ==
    /\ present' = present \cup {DefaultProject}
    /\ stored' = [stored EXCEPT ![DefaultProject] = "open"]
    /\ currentId' = DefaultProject
    /\ defaultId' = DefaultProject
EnsureCurrent ==
    IF CurrentStands THEN UNCHANGED <<present, stored, currentId, defaultId>> ELSE EnsureDefault

CreateProject(p, create) ==
    /\ p \in present \/ create
    /\ present' = present \cup {p}
    /\ stored' = Upserted(p)
    /\ currentId' = p
    /\ UNCHANGED <<defaultId, home, live, turnRoot, sharedRoot, turnsRun, starts>>

\* The REPL selects a project, even an archived one, and lists them; a preview of a
\* page asks for the current project, too.
SelectProject(p) ==
    /\ stored[p] # None
    /\ currentId' = p
    /\ UNCHANGED <<present, stored, defaultId, home, live, turnRoot, sharedRoot, turnsRun,
                   starts>>
GetCurrentProject ==
    /\ EnsureCurrent
    /\ UNCHANGED <<home, live, turnRoot, sharedRoot, turnsRun, starts>>

\* Mutant: the sessions stay.
ArchiveOnlyProject(p) ==
    /\ stored[p] # None
    /\ stored' = [stored EXCEPT ![p] = "archived"]
    /\ currentId' = IF currentId = p THEN None ELSE currentId
    /\ UNCHANGED <<present, defaultId, home, live, turnRoot, sharedRoot, turnsRun, starts>>

\* The sessions of an archived project are archived with it, their turns aborted.
ArchiveProject(p) ==
    /\ stored[p] # None
    /\ stored' = [stored EXCEPT ![p] = "archived"]
    /\ currentId' = IF currentId = p THEN None ELSE currentId
    /\ LET housed == {s \in live : home[s] = p}
       IN  /\ live' = live \ housed
           /\ turnRoot' = [s \in ProjectSessions |-> IF s \in housed THEN None ELSE turnRoot[s]]
    /\ UNCHANGED <<present, defaultId, home, sharedRoot, turnsRun, starts>>

-----------------------------------------------------------------------------
\* createSession: in the project asked for, which becomes the current one and must not
\* be archived, or in the current project.
CreateSessionIn(s, p) ==
    /\ home[s] = None
    /\ StatusOf(p) \in {"active", "missing"}
    /\ currentId' = p
    /\ home' = [home EXCEPT ![s] = p]
    /\ live' = live \cup {s}
    /\ UNCHANGED <<present, stored, defaultId, turnRoot, sharedRoot, turnsRun, starts>>
CreateSession(s) ==
    /\ home[s] = None
    /\ EnsureCurrent
    /\ home' = [home EXCEPT ![s] = Current]
    /\ live' = live \cup {s}
    /\ UNCHANGED <<turnRoot, sharedRoot, turnsRun, starts>>

\* #ensureSessionProject: a session whose project is archived moves to the current one.
Rehoused(s) == IF StatusOf(home[s]) \in {"active", "missing"} THEN home[s] ELSE Current

\* #runTurnInternal: the turn runs in the session's project (worktrees: Worktrees), and
\* the shared stores are pointed at it; turns of other sessions may be running.
StartTurn(s) ==
    /\ s \in live /\ turnRoot[s] = None /\ turnsRun < MaxTurns
    /\ IF Rehoused(s) = home[s] THEN UNCHANGED <<present, stored, currentId, defaultId>>
                                ELSE EnsureCurrent
    /\ home' = [home EXCEPT ![s] = Rehoused(s)]
    /\ turnRoot' = [turnRoot EXCEPT ![s] = Rehoused(s)]
    /\ sharedRoot' = Rehoused(s)
    /\ turnsRun' = turnsRun + 1
    /\ UNCHANGED <<live, starts>>

EndTurn(s) ==
    /\ turnRoot[s] # None
    /\ turnRoot' = [turnRoot EXCEPT ![s] = None]
    /\ UNCHANGED <<present, stored, currentId, defaultId, home, live, sharedRoot,
                   turnsRun, starts>>

DeleteSession(s) ==
    /\ s \in live /\ turnRoot[s] = None
    /\ live' = live \ {s}
    /\ UNCHANGED <<present, stored, currentId, defaultId, home, turnRoot, sharedRoot,
                   turnsRun, starts>>

\* loadSessions opens the default project and makes it the current one, whatever was;
\* then it asks for the project of every session, the archived ones too, and saves it:
\* those of an archived project move to the default project.
Restart ==
    /\ starts < MaxStarts
    /\ starts' = starts + 1
    /\ EnsureDefault
    /\ home' = [s \in ProjectSessions |->
           IF home[s] = None \/ stored'[home[s]] # "archived" THEN home[s] ELSE DefaultProject]
    /\ turnRoot' = [s \in ProjectSessions |-> None]
    /\ sharedRoot' = None
    /\ UNCHANGED <<live, turnsRun>>

\* The user deletes a folder or puts it back.
FolderChanges(p) ==
    /\ present' = IF p \in present THEN present \ {p} ELSE present \cup {p}
    /\ UNCHANGED <<stored, currentId, defaultId, home, live, turnRoot, sharedRoot,
                   turnsRun, starts>>

Next ==
    \/ \E p \in Folders :
           \/ \E create \in BOOLEAN : CreateProject(p, create)
           \/ SelectProject(p)
           \/ ArchiveProject(p)
           \/ FolderChanges(p)
    \/ \E s \in ProjectSessions :
           \/ \E p \in Folders : CreateSessionIn(s, p)
           \/ CreateSession(s) \/ StartTurn(s) \/ EndTurn(s) \/ DeleteSession(s)
    \/ GetCurrentProject
    \/ Restart

-----------------------------------------------------------------------------
TypeOK ==
    /\ present \subseteq Folders
    /\ stored \in [Folders -> {None, "open", "archived"}]
    /\ {currentId, defaultId} \subseteq Folders \cup {None}
    /\ home \in [ProjectSessions -> Folders \cup {None}]
    /\ live \subseteq ProjectSessions
    /\ turnRoot \in [ProjectSessions -> Folders \cup {None}]

\* A session that is not archived has a project that is not archived, whatever the order
\* in which projects are archived, opened again and lose their folders, and a turn works
\* in the project of its session (core-api.ts, archiveProject, #ensureSessionProject).
SessionsAreHoused ==
    /\ \A s \in live : StatusOf(home[s]) \in {"active", "missing"}
    /\ \A s \in ProjectSessions : turnRoot[s] # None => s \in live /\ turnRoot[s] = home[s]

\* The skill store and the MCP manager look in the project of the turn that uses them:
\* a turn that another session's turn has overtaken finds the other project there.
TurnsSeeTheirProject == \A s \in ProjectSessions : turnRoot[s] # None => sharedRoot = turnRoot[s]
=============================================================================
