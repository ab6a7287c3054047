------------------------------- MODULE SkillStore -------------------------------
(***************************************************************************)
(* SkillStore for one skill name: versions of the skill on disk, what the  *)
(* scanner says of each, and the saved state (the pointer to the active    *)
(* version, the user's disable, a status per version) from which every     *)
(* operation recomputes the index.  Installations come from a registry,    *)
(* from a link, or from the skill evolution (generated).  Skills of a      *)
(* project, a local or a legacy source, which are active beside the        *)
(* version that the pointer names, are not among the versions.             *)
(***************************************************************************)
EXTENDS Naturals, FiniteSets, FiniteSetsExt

CONSTANTS Installed, \* versions, as numbers, that can be installed
          Generated, \* versions that the skill evolution can generate
          MaxCrashes \* bound on crashes of the process during an installation; two of them
                     \* before the first pointer would leave two versions active

VARIABLES
    package,      \* what is on disk of each version: the scanner's verdict, or "none"
    pointer,      \* state.active: the active version and the one before it, 0 for none
    disabled,     \* state.disabled
    stored,       \* state.packageStatus, "none" if absent
    skillCrashes

skillVars == <<package, pointer, disabled, stored, skillCrashes>>

Versions == Installed \cup Generated
Verdicts == {"safe", "caution", "dangerous"}
NoPointer == [id |-> 0, previous |-> 0]

Init ==
    /\ package = [v \in Versions |-> "none"] /\ pointer = NoPointer
    /\ disabled = FALSE /\ stored = [v \in Versions |-> "none"]
    /\ skillCrashes = 0

-----------------------------------------------------------------------------
(* The index.                                                              *)

\* shouldEnableSkill(): warnings are accepted unless the skill was generated.
Allowed(v, verdict) == verdict = "safe" \/ (verdict = "caution" /\ v \notin Generated)

\* The status of what it rejects.
Rejected(v, verdict) ==
    IF v \in Generated /\ verdict # "dangerous" THEN "quarantined" ELSE "invalid"

\* Mutant: a version that is not the active one keeps its status.
LoadedAlone(v) ==
    IF disabled THEN "disabled" ELSE IF stored[v] = "none" THEN "active" ELSE stored[v]

\* #loadPackage(): a version without a stored status is active.
Loaded(v) ==
    IF disabled THEN "disabled"
    ELSE IF pointer.id \notin {0, v} THEN "archived"
    ELSE IF stored[v] = "none" THEN "active" ELSE stored[v]

\* #safeLoadPackage(): the scan has the last word.
Status(v) ==
    IF Loaded(v) = "active" /\ ~Allowed(v, package[v]) THEN Rejected(v, package[v])
    ELSE IF Loaded(v) \in {"invalid", "quarantined"} /\ package[v] = "caution" THEN "disabled"
    ELSE Loaded(v)

\* #scanAll(): the index has what is on disk.
Entries == {v \in Versions : package[v] # "none"}

\* list(), of which formatPrompt() tells the model.
Active == {v \in Entries : Status(v) = "active"}

\* get(): the active version, or one of the best rank.
Rank(v) == CASE Status(v) = "active" -> 0 [] Status(v) = "disabled" -> 1
             [] Status(v) = "quarantined" -> 2 [] Status(v) = "invalid" -> 3 [] OTHER -> 4

Get == CHOOSE v \in Entries : \A w \in Entries : Rank(v) < Rank(w) \/ (Rank(v) = Rank(w) /\ v >= w)

-----------------------------------------------------------------------------
(* The operations; each saves the state and rebuilds the index.            *)

\* Mutant: the version that was active stays active.
ActivateToo(v) ==
    /\ stored' = [stored EXCEPT ![v] = "active"]
    /\ disabled' = FALSE
    /\ UNCHANGED pointer

\* #activate()
Activate(v) ==
    /\ pointer' = [id |-> v, previous |-> IF pointer.id \in {0, v} THEN pointer.previous
                                          ELSE pointer.id]
    /\ stored' = [stored EXCEPT ![v] = "active"]
    /\ disabled' = FALSE

SetStored(v, status) ==
    /\ stored' = [stored EXCEPT ![v] = status]
    /\ UNCHANGED <<pointer, disabled>>

\* install() and installExternalPackage(): what is rejected is not kept, but
\* its status is stored; an unsigned source (of install() only) is quarantined.
Install(v, verdict, unsigned) ==
    /\ v \in Installed
    /\ IF ~Allowed(v, verdict)
       THEN SetStored(v, Rejected(v, verdict)) /\ UNCHANGED package
       ELSE /\ package' = [package EXCEPT ![v] = verdict]
            /\ IF unsigned THEN SetStored(v, "quarantined") ELSE Activate(v)
    /\ UNCHANGED skillCrashes

\* installGeneratedPackage(): written in place before it is scanned.
InstallGenerated(v, verdict) ==
    /\ v \in Generated
    /\ package' = [package EXCEPT ![v] = verdict]
    /\ IF Allowed(v, verdict) THEN Activate(v) ELSE SetStored(v, Rejected(v, verdict))
    /\ UNCHANGED skillCrashes

\* The process dies between rmSync, renameSync (or the writes of a generated
\* package) and the save; the next process rebuilds the index.
InstallCrashes(v, verdict) ==
    /\ skillCrashes < MaxCrashes
    /\ v \in Installed => verdict = "none" \/ Allowed(v, verdict)
    /\ package' = [package EXCEPT ![v] = verdict]
    /\ skillCrashes' = skillCrashes + 1
    /\ UNCHANGED <<pointer, disabled, stored>>

\* enable(), of a version or of the highest: what the scan blocks, and what
\* was rejected or quarantined without a warning, is refused.
Enable(vs, trustWarnings) ==
    /\ vs \cap Entries # {}
    /\ LET v == Max(vs \cap Entries)
       IN  /\ Status(v) \in {"invalid", "quarantined"} =>
                /\ trustWarnings
                /\ IF Status(v) = "quarantined" THEN package[v] # "dangerous"
                                                ELSE package[v] = "caution"
           /\ Activate(v)
    /\ UNCHANGED <<package, skillCrashes>>

Disable ==
    /\ Entries # {}
    /\ disabled' = TRUE
    /\ stored' = [stored EXCEPT ![Get] = "disabled"]
    /\ UNCHANGED <<package, pointer, skillCrashes>>

\* rollback()
Rollback ==
    /\ pointer.previous \in Entries
    /\ Activate(pointer.previous)
    /\ UNCHANGED <<package, skillCrashes>>

Next ==
    \/ \E v \in Versions, d \in Verdicts, u \in BOOLEAN : Install(v, d, u)
    \/ \E v \in Versions, d \in Verdicts : InstallGenerated(v, d)
    \/ \E v \in Versions, d \in Verdicts \cup {"none"} : InstallCrashes(v, d)
    \/ \E vs \in {Versions} \cup {{v} : v \in Versions}, t \in BOOLEAN : Enable(vs, t)
    \/ Disable
    \/ Rollback

Spec == Init /\ [][Next]_skillVars

-----------------------------------------------------------------------------
(* Properties.                                                             *)

\* #loadPackage() and #activate(): whatever is installed, generated, enabled,
\* disabled and rolled back in whatever order, with one crash in between, the
\* prompt never offers two versions of a skill, and get() finds the one it
\* offers.
OneVersionActive ==
    /\ Cardinality(Active) <= 1
    /\ Active # {} => Get \in Active
=============================================================================
