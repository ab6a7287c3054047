----------------------------- MODULE SkillSources -----------------------------
(***************************************************************************)
(* Where skills come from (src/skills/skill-store.ts, the downloads of     *)
(* src/extensions/extension-manager.ts).                                   *)
(*                                                                         *)
(* Sources of the current project, directories near the files a session    *)
(* touches, and remote registries are one saved list, which the store of   *)
(* all sessions turns into an index.  A package is downloaded file by file *)
(* while its publisher goes on publishing, from a registry that lists the  *)
(* hash of each file, or from a branch of a GitHub repository.             *)
(***************************************************************************)
EXTENDS Naturals, Sequences, FiniteSets, Functions

CONSTANTS
    SkillProjects, \* the projects, all of them with skills in "root" and "sub"
    Home,          \* the project the core is started in
    Readers,       \* sessions
    Registries, Signed, \* registries, and those that sign what they list
    Installs,      \* installations under way at once
    MaxEdits,      \* bound: changes of the list of sources, switches, restarts
    MaxTold,       \* bound: events
    MaxRevs        \* bound: revisions that are published

VARIABLES
    projectRoot,   \* #projectRoot, the project of the latest turn of any session
    sources,       \* #state.sources, as saved
    index,         \* #entries: the places whose skills are offered
    told,          \* the dynamic_loaded events
    listed,        \* the revision in the index of each registry; 0: none yet
    served,        \* the revision of each file at its address
    install,       \* installations under way
    cache,         \* githubSkillPackageCache
    disk,          \* the files installed, from each origin
    switches

sourcesVars == <<projectRoot, sources, index, told, listed, served, install, cache, disk,
    switches>>
catalogVars == <<projectRoot, sources, index, told, switches>>
packageVars == <<install, cache, disk>>
webVars == <<listed, served>>

None == "none"
Files == 1..2
Origins == Registries \cup {"github"}
\* A place with skills: the directory of a project it is in.
Place == SkillProjects \X {"root", "sub"}

\* The default sources are replaced together: one stands for them.
NoSources == [default |-> None, dynamic |-> {}, remote |-> [r \in Registries |-> None]]

\* #scanAll(): the enabled sources with a path.
ScanAll(list) ==
    list.dynamic \cup {place \in Place : place = <<list.default, "root">>}

Idle == [at |-> "idle", from |-> None, rev |-> 0, files |-> <<>>]

Init ==
    /\ projectRoot = Home
    /\ sources = [NoSources EXCEPT !.default = Home]
    /\ index = ScanAll(sources) /\ told = <<>>
    /\ listed = [r \in Registries |-> 0]
    /\ served = [o \in Origins |-> [f \in Files |-> 0]]
    /\ install = [i \in Installs |-> Idle]
    /\ cache = <<>> /\ disk = [o \in Origins |-> <<>>] /\ switches = 0

----------------------------------------------------------------------------
(* The list of sources.                                                    *)

Edits == switches < MaxEdits /\ switches' = switches + 1

\* setProjectRoot(), before a turn: the default sources are the project's.
SetProjectRoot(p) ==
    /\ p # projectRoot /\ Edits
    /\ projectRoot' = p
    /\ sources' = [sources EXCEPT !.default = p]
    /\ index' = ScanAll(sources')
    /\ UNCHANGED <<told, packageVars, webVars>>

\* addSource(), with or without trust in unsigned lists; and removeSource(), of any
\* source.  Neither rebuilds the index.
AddSource(r, trust) ==
    /\ Edits
    /\ sources' = [sources EXCEPT !.remote[r] = trust]
    /\ UNCHANGED <<projectRoot, index, told, packageVars, webVars>>
RemoveSource(list) ==
    /\ list # sources /\ Edits /\ sources' = list
    /\ UNCHANGED <<projectRoot, index, told, packageVars, webVars>>
Removals ==
    {[sources EXCEPT !.default = None]}
    \cup {[sources EXCEPT !.dynamic = @ \ {place}] : place \in sources.dynamic}
    \cup {[sources EXCEPT !.remote[r] = None] : r \in Registries}

\* Mutant: nobody remembers what was told.
HasDynamicEventNever(s, key) == FALSE

\* #hasDynamicEvent()
HasDynamicEvent(s, key) == \E n \in DOMAIN told : told[n] = [s |-> s, key |-> key]

\* dynamicSkillRootsForPath(): the directory of the file, and those above it.
DynamicSkillRoots(p, dir) == {<<p, dir>>, <<p, "root">>}

\* activateForTouchedPaths(): the session is told of new sources, and of active skills
\* whose paths the file is in (those of "sub" are for "sub"); a skill of the same name
\* in another project has the same package id.
Touch(s, dir) ==
    /\ Len(told) + 2 <= MaxTold
    /\ LET roots == DynamicSkillRoots(projectRoot, dir)
           added == roots \ sources.dynamic
           found == [is |-> "sources", of |-> added]
           match == [is |-> "skill", of |-> {dir}]
           news == IF added # {} /\ ~HasDynamicEvent(s, found) THEN <<found>> ELSE <<>>
           matched == IF /\ dir = "sub" /\ \E place \in index' : place[2] = "sub"
                         /\ ~HasDynamicEvent(s, match)
                      THEN <<match>> ELSE <<>>
       IN  /\ sources' = [sources EXCEPT !.dynamic = @ \cup added]
           /\ index' = IF added # {} THEN ScanAll(sources') ELSE index
           /\ told' = told \o [n \in DOMAIN (news \o matched) |->
                                  [s |-> s, key |-> (news \o matched)[n]]]
    /\ UNCHANGED <<projectRoot, switches, packageVars, webVars>>

\* The next process: sources of the saved list stay, those that lack are added.
Restart ==
    /\ Edits
    /\ projectRoot' = Home
    /\ sources' = [sources EXCEPT !.default = IF @ = None THEN Home ELSE @]
    /\ index' = ScanAll(sources')
    /\ install' = [i \in Installs |-> Idle] /\ cache' = <<>>
    /\ UNCHANGED <<told, disk, webVars>>

----------------------------------------------------------------------------
(* Packages.                                                               *)

Step(i, next) == install' = [install EXCEPT ![i] = next]
Doing(i, step) == install[i].at = step

\* install(): the source is looked up, then its list is awaited.
InstallStarts(i, r) ==
    /\ Doing(i, "idle") /\ sources.remote[r] # None
    /\ Step(i, [Idle EXCEPT !.at = IF sources.remote[r] = "trusted" THEN "trusting"
                                   ELSE "fetching", !.from = r])
    /\ UNCHANGED <<cache, disk, catalogVars, webVars>>

\* #fetchRegistry() and #verifyRegistry(): an unsigned list needs the user's trust.
FetchRegistry(i) ==
    /\ install[i].at \in {"fetching", "trusting"}
    /\ LET r == install[i].from IN
       /\ listed[r] # 0
       /\ r \in Signed \/ Doing(i, "trusting")
       /\ Step(i, [install[i] EXCEPT !.at = "downloading", !.rev = listed[r]])
    /\ UNCHANGED <<cache, disk, catalogVars, webVars>>

\* Mutant: what arrives is taken for what was listed.
AnyFile(rev, arrived) == TRUE

\* #downloadRegistryFile() compares the hash.
IsListed(rev, arrived) == rev = arrived

Downloaded(i) == Len(install[i].files) = Cardinality(Files)
Arrives(i) == served[install[i].from][Len(install[i].files) + 1]

DownloadRegistryFile(i) ==
    /\ Doing(i, "downloading") /\ ~Downloaded(i)
    /\ IsListed(install[i].rev, Arrives(i))
    /\ Step(i, [install[i] EXCEPT !.files = Append(@, Arrives(i))])
    /\ UNCHANGED <<cache, disk, catalogVars, webVars>>

\* The temporary directory takes the place of what was installed.
Installed(i) ==
    /\ Doing(i, "downloading") /\ Downloaded(i)
    /\ disk' = [disk EXCEPT ![install[i].from] = install[i].files]
    /\ Step(i, Idle) /\ UNCHANGED <<cache, catalogVars, webVars>>

\* downloadGitHubSkillPackage(): from the cache, or the list of files, then each file
\* as it is on the branch by then ...
GitHubInstallStarts(i) ==
    /\ Doing(i, "idle") /\ served["github"] # [f \in Files |-> 0]
    /\ IF cache # <<>>
       THEN disk' = [disk EXCEPT !["github"] = cache] /\ UNCHANGED install
       ELSE /\ Step(i, [Idle EXCEPT !.at = "tree", !.from = "github"])
            /\ UNCHANGED disk
    /\ UNCHANGED <<cache, catalogVars, webVars>>
ViaTree(i) ==
    /\ Doing(i, "tree") /\ ~Downloaded(i)
    /\ Step(i, [install[i] EXCEPT !.files = Append(@, Arrives(i))])
    /\ UNCHANGED <<cache, disk, catalogVars, webVars>>
\* ... or, over the rate limit, an archive of one commit.
ViaTarball(i) ==
    /\ Doing(i, "tree") /\ ~Downloaded(i)
    /\ Step(i, [install[i] EXCEPT !.at = "tarball",
                                  !.files = [f \in Files |-> served["github"][f]]])
    /\ UNCHANGED <<cache, disk, catalogVars, webVars>>
GitHubInstalled(i) ==
    /\ install[i].at \in {"tree", "tarball"} /\ Downloaded(i)
    /\ cache' = install[i].files
    /\ disk' = [disk EXCEPT !["github"] = install[i].files]
    /\ Step(i, Idle) /\ UNCHANGED <<catalogVars, webVars>>

\* A request, a check or a verification fails: nothing is installed.
InstallFails(i) ==
    /\ ~Doing(i, "idle") /\ Step(i, Idle)
    /\ UNCHANGED <<cache, disk, catalogVars, webVars>>

\* A registry lists a new revision, before or after its files are replaced, one by one;
\* a commit replaces all files.
ListedChanges(r) ==
    /\ listed[r] < MaxRevs /\ listed' = [listed EXCEPT ![r] = @ + 1]
    /\ UNCHANGED <<served, catalogVars, packageVars>>
ServedChanges(r, f) ==
    /\ served[r][f] < MaxRevs /\ served' = [served EXCEPT ![r][f] = @ + 1]
    /\ UNCHANGED <<listed, catalogVars, packageVars>>
Commit ==
    /\ served["github"][1] < MaxRevs
    /\ served' = [served EXCEPT !["github"] = [f \in Files |-> @[f] + 1]]
    /\ UNCHANGED <<listed, catalogVars, packageVars>>

CatalogNext ==
    \/ \E p \in SkillProjects : SetProjectRoot(p)
    \/ \E r \in Registries, trust \in {"trusted", "listed"} : AddSource(r, trust)
    \/ \E list \in Removals : RemoveSource(list)
    \/ \E s \in Readers, dir \in {"root", "sub"} : Touch(s, dir)
    \/ Restart

PackageNext ==
    \/ \E i \in Installs :
          \/ \E r \in Registries : InstallStarts(i, r)
          \/ FetchRegistry(i) \/ DownloadRegistryFile(i) \/ Installed(i)
          \/ GitHubInstallStarts(i) \/ ViaTree(i) \/ ViaTarball(i) \/ GitHubInstalled(i)
          \/ InstallFails(i)
    \/ \E r \in Registries : ListedChanges(r) \/ \E f \in Files : ServedChanges(r, f)
    \/ Commit

Next == CatalogNext \/ PackageNext

SourcesSpec == Init /\ [][Next]_sourcesVars

----------------------------------------------------------------------------

TypeOK ==
    /\ projectRoot \in SkillProjects /\ index \subseteq Place
    /\ sources.dynamic \subseteq Place
    /\ \A i \in Installs : Len(install[i].files) <= Cardinality(Files)

\* #downloadRegistryFile: what is installed from a registry is one revision that it has
\* listed, whatever is published, removed or installed at the same time, never a mixture.
InstalledIsAsPublished ==
    \A r \in Registries : disk[r] # <<>> =>
        \E rev \in 1..listed[r] : disk[r] = [f \in Files |-> rev]

\* #hasDynamicEvent: no session is told twice of the same skill or sources, also when
\* these were removed and found again, in another project or after a restart.
ToldOnce == IsInjective(told)

\* skill-store.ts:730: the skills offered are those of the turn's project.  The code
\* does not satisfy it: README, Deviations.
SkillsAreTheProjects == \A place \in index : place[1] = projectRoot

\* extension-manager.ts:687: what is installed from GitHub is one commit.  The code does
\* not satisfy it: README, Deviations.
GitHubIsOneCommit == disk["github"] # <<>> => disk["github"][1] = disk["github"][2]
=============================================================================
