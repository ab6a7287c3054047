----------------------------- MODULE Extensions -----------------------------
(***************************************************************************)
(* ExtensionManager and ExtensionRegistryStore: extensions installed one   *)
(* by one or in a bundle, with downloads and server starts between the     *)
(* steps, the lock file that records them, and the registry sources the    *)
(* user adds, removes and refreshes over the network.                      *)
(***************************************************************************)
EXTENDS Naturals, Sequences, SequencesExt

CONSTANTS Registries, \* ids of registry sources at a URL
          Singles,    \* extensions that can be installed on their own
          Bundle,     \* the items of the one bundle, in order
          MaxSources, \* bound on the changes of the list of sources
          MaxEnables  \* bound on the times an extension is enabled

VARIABLES
    sources,   \* sources.json: "fresh", "failed" (lastError) or "none"
    cache,     \* the sources with a file in registry-cache
    refresh,   \* refreshSource of each source: sources.json as it was read, or <<>>
    wanted,    \* the sources the user added and did not remove
    changes,   \* how often the user has changed the list
    install,   \* the installations under way: the items done and how they are
    locked,    \* lock.json: the status of each record, or "none"
    installed, \* the extensions whose installation has returned
    enables

extensionVars == <<sources, cache, refresh, wanted, changes, install, locked, installed, enables>>
sourceVars == <<sources, cache, refresh, wanted, changes>>
lockVars == <<install, locked, installed, enables>>

Items == Singles \cup ToSet(Bundle)
Extension == Items \cup {"bundle"}

\* What an installation installs, item by item.
Parts(x) == IF x = "bundle" THEN Bundle ELSE <<x>>

NoInstall == <<"none">>
Installing(x) == install[x] # NoInstall

Init ==
    /\ sources = [r \in Registries |-> "none"] /\ cache = {}
    /\ refresh = [r \in Registries |-> <<>>]
    /\ wanted = {} /\ changes = 0
    /\ install = [x \in Extension |-> NoInstall]
    /\ locked = [x \in Extension |-> "none"]
    /\ installed = {} /\ enables = 0

-----------------------------------------------------------------------------
AddSource(r) ==
    /\ changes < MaxSources /\ changes' = changes + 1
    /\ sources' = [sources EXCEPT ![r] = "fresh"]
    /\ wanted' = wanted \cup {r}
    /\ UNCHANGED <<cache, refresh, lockVars>>

RemoveSource(r) ==
    /\ changes < MaxSources /\ changes' = changes + 1
    /\ sources[r] # "none"
    /\ sources' = [sources EXCEPT ![r] = "none"]
    /\ cache' = cache \ {r}
    /\ wanted' = wanted \ {r}
    /\ UNCHANGED <<refresh, lockVars>>

\* refreshSource reads sources.json and then waits for the download.
RefreshStarts(r) ==
    /\ sources[r] # "none" /\ refresh[r] = <<>>
    /\ refresh' = [refresh EXCEPT ![r] = <<sources>>]
    /\ UNCHANGED <<sources, cache, wanted, changes, lockVars>>

\* What it writes is what it read, with the one source brought up to date.
RefreshEnds(r, result) ==
    /\ refresh[r] # <<>>
    /\ sources' = [refresh[r][1] EXCEPT ![r] = result]
    /\ cache' = IF result = "fresh" THEN cache \cup {r} ELSE cache
    /\ refresh' = [refresh EXCEPT ![r] = <<>>]
    /\ UNCHANGED <<wanted, changes, lockVars>>

-----------------------------------------------------------------------------
\* install(): what was installed so far is a sequence of statuses.
InstallStarts(x) ==
    /\ ~Installing(x)
    /\ install' = [install EXCEPT ![x] = <<>>]
    /\ UNCHANGED <<locked, installed, enables, sourceVars>>

\* recordInstall: the lock file is read and written in one go.
Record(records) == locked' = [x \in Extension |-> IF x \in DOMAIN records THEN records[x]
                                                                         ELSE locked[x]]

\* A bundle is active if all its items are.
Sum(statuses) == IF ToSet(statuses) = {"active"} THEN "active" ELSE "installed"

\* The download, the server's start or the package's installation is over and is
\* recorded; after its last item the bundle is recorded at once.
ItemInstalled(x, status) ==
    /\ Installing(x)
    /\ LET results == Append(install[x], status)
           item == Parts(x)[Len(results)]
           last == Len(results) = Len(Parts(x))
       IN  /\ Record(IF x = "bundle" /\ last
                     THEN [e \in {item, x} |-> IF e = x THEN Sum(results) ELSE status]
                     ELSE [e \in {item} |-> status])
           /\ install' = [install EXCEPT ![x] = IF last THEN NoInstall ELSE results]
           /\ installed' = installed \cup {item} \cup (IF last THEN {x} ELSE {})
    /\ UNCHANGED <<enables, sourceVars>>

\* Mutant: a bundle goes on without the item.
ItemIsSkipped(x) ==
    /\ Installing(x)
    /\ install' = [install EXCEPT ![x] = IF Len(@) + 1 = Len(Parts(x)) THEN NoInstall
                                         ELSE Append(@, "installed")]
    /\ UNCHANGED <<locked, installed, enables, sourceVars>>

\* It throws: the items before it stay, the rest and the bundle are not recorded.
ItemFails(x) ==
    /\ Installing(x)
    /\ install' = [install EXCEPT ![x] = NoInstall]
    /\ UNCHANGED <<locked, installed, enables, sourceVars>>

\* enable() of a skill or a server: a record is changed, none is made.
Enable(x) ==
    /\ enables < MaxEnables /\ enables' = enables + 1
    /\ x \in installed \ {"bundle"}
    /\ Record([e \in {x} |-> IF locked[x] = "none" THEN "none" ELSE "active"])
    /\ UNCHANGED <<install, installed, sourceVars>>

SourcesNext ==
    \E r \in Registries :
        \/ AddSource(r) \/ RemoveSource(r) \/ RefreshStarts(r)
        \/ \E result \in {"fresh", "failed"} : RefreshEnds(r, result)

LockNext ==
    \/ \E x \in Singles \cup {"bundle"} :
          \/ InstallStarts(x) \/ ItemFails(x)
          \/ \E status \in {"installed", "active"} : ItemInstalled(x, status)
    \/ \E x \in Items : Enable(x)

Next == SourcesNext \/ LockNext

ExtensionSpec == Init /\ [][Next]_extensionVars

-----------------------------------------------------------------------------
\* The lock file records every extension whose installation has returned, however
\* installations overlap and fail, and a bundle only with all its items.
LockIsWhole ==
    /\ \A x \in installed : locked[x] # "none"
    /\ locked["bundle"] # "none" => \A i \in ToSet(Bundle) : locked[i] # "none"

\* sources.json holds the sources the user has added and not removed.
SourcesAreTheUsers == {r \in Registries : sources[r] # "none"} = wanted
=============================================================================
