------------------------------ MODULE MemoryStore ------------------------------
(***************************************************************************)
(* The files of MemoryStore: one per memory, the archive, the manifest and *)
(* index built from them, the proposals, and the memories of an older      *)
(* version, which the first start takes over.  An operation is a series of *)
(* writes, each of them atomic; the process may end between two of them.   *)
(*                                                                         *)
(* Maintenance has what makes the consolidator run.  Here its answer is    *)
(* any sequence of operations on the memories and on the proposals.        *)
(***************************************************************************)
EXTENDS Naturals, Sequences, FiniteSets, Functions

CONSTANTS Ids,       \* memories
          Legacy,    \* those of the older version
          Places,    \* what a file's path is made of, besides its id: type and title
          Proposals, \* proposals
          MaxCrashes \* bound on crashes

VARIABLES
    topics,     \* the memories' files under topics/
    archived,    \* those under archive/
    manifest,   \* what MEMORY.md lists; index.json has the same of all files
    migrated,   \* state.json: legacyJsonMigrated
    proposed,   \* the status of each proposal, "none" if there is no file
    todo,       \* the writes of the operation under way that are still to come
    doing,      \* the memory that the operation is about, or Nobody
    memoryUp,   \* whether the process is there
    remembered, \* the memories that were stored
    crashes     \* how many crashes there were, and what was under way in them

memoryVars == <<topics, archived, manifest, migrated, proposed, todo, doing, memoryUp,
                remembered, crashes>>

Nobody == "nobody"
File(i, p, status) == [id |-> i, place |-> p, status |-> status]
FilesOf(i) == {f \in topics : f.id = i}
At(f, g) == f.id = g.id /\ f.place = g.place
FileOf(i) == CHOOSE f \in FilesOf(i) : TRUE
\* all() reads topics/ anew; search and the manifest leave out what is archived.
Found == {f \in topics : f.status = "active"}

-----------------------------------------------------------------------------
(* Operations as sequences of writes.                                      *)

Write(f) == [do |-> "write", file |-> f]
Remove(f) == [do |-> "remove", file |-> f]
Keep(f) == [do |-> "keep", file |-> f]
Mark(p, status) == [do |-> "mark", proposal |-> p, status |-> status]
rebuildIndex == <<[do |-> "manifest"]>>

store(i, p) == <<Write(File(i, p, "active"))>> \o rebuildIndex

\* A new type or title is another path: the old file goes first.
update(i, p, status) ==
    LET old == FileOf(i)
    IN  (IF p # old.place THEN <<Remove(old)>> ELSE <<>>)
        \o <<Write(File(i, p, status))>> \o rebuildIndex

\* Mutant: the file moves from topics/ to archive/.
archiveByMove(i) ==
    LET f == FileOf(i) IN <<Remove(f), Keep(File(i, f.place, "archived"))>> \o rebuildIndex

archive(i) ==
    LET f == File(i, FileOf(i).place, "archived")
    IN  update(i, f.place, "archived") \o <<Keep(f), Remove(f)>> \o rebuildIndex

\* The constructor: #ensureLayout(), #migrateLegacyJsonOnce(), rebuildIndex().  A
\* legacy memory whose file is there is left as it is.
Constructor ==
    LET old == {i \in Legacy : ~migrated /\ FilesOf(i) = {}}
        next[S \in SUBSET Legacy] ==
            IF S = {} THEN <<>>
            ELSE LET i == CHOOSE x \in S : TRUE
                 IN  <<Write(File(i, CHOOSE p \in Places : TRUE, "active"))>> \o next[S \ {i}]
    IN  next[old] \o (IF migrated THEN <<>> ELSE <<[do |-> "migrated"]>>) \o rebuildIndex

-----------------------------------------------------------------------------
Init ==
    /\ topics = {} /\ archived = {} /\ manifest = {} /\ migrated = FALSE
    /\ proposed = [p \in Proposals |-> "none"]
    /\ todo = <<>> /\ doing = Nobody /\ memoryUp = FALSE
    /\ remembered = Legacy /\ crashes = [n |-> 0, hit |-> {}]

Start ==
    /\ ~memoryUp /\ memoryUp' = TRUE /\ todo' = Constructor /\ doing' = Nobody
    /\ UNCHANGED <<topics, archived, manifest, migrated, proposed, remembered, crashes>>

\* The next write of the operation under way.
Step ==
    /\ todo # <<>> /\ todo' = Tail(todo)
    /\ LET w == Head(todo)
       IN  /\ topics' = CASE w.do = "write" -> {f \in topics : ~At(f, w.file)} \cup {w.file}
                          [] w.do = "remove" -> {f \in topics : ~At(f, w.file)}
                          [] OTHER -> topics
           /\ archived' = IF w.do = "keep" THEN archived \cup {w.file.id} ELSE archived
           /\ manifest' = IF w.do = "manifest" THEN Found ELSE manifest
           /\ migrated' = (migrated \/ w.do = "migrated")
           /\ proposed' = IF w.do = "mark" THEN [proposed EXCEPT ![w.proposal] = w.status] ELSE proposed
           \* store() returns, and the caller is told.
           /\ remembered' = IF Len(todo) = 1 /\ doing # Nobody THEN remembered \cup {doing} ELSE remembered
    /\ UNCHANGED <<doing, memoryUp, crashes>>

\* An operation, which runs to its end without a pause.
Begin(writes, i) ==
    /\ memoryUp /\ todo = <<>>
    /\ todo' = writes /\ doing' = i
    /\ UNCHANGED <<topics, archived, manifest, migrated, proposed, memoryUp, remembered, crashes>>

Unused(i) == i \notin Legacy \cup archived /\ i \notin remembered /\ FilesOf(i) = {}

\* The tool memory_add.
MemoryAdd(i, p) == Unused(i) /\ Begin(store(i, p), i)

\* The extractor's answer.
WriteProposal(p) ==
    /\ proposed[p] = "none"
    /\ \E status \in {"pending", "rejected"} : Begin(<<Mark(p, status)>>, Nobody)

\* The consolidator's operations.
Promote(p, i, place) ==
    /\ proposed[p] = "pending" /\ Unused(i)
    /\ Begin(store(i, place) \o <<Mark(p, "accepted")>>, i)

Update(i, place, done) ==
    /\ FilesOf(i) # {} /\ done \in {Nobody} \cup {p \in Proposals : proposed[p] = "pending"}
    /\ Begin(update(i, place, FileOf(i).status)
             \o (IF done = Nobody THEN <<>> ELSE <<Mark(done, "accepted")>>), i)

Archive(i) == FilesOf(i) # {} /\ Begin(archive(i), i)

Reject(p) == proposed[p] = "pending" /\ Begin(<<Mark(p, "rejected")>>, Nobody)

\* The process ends.  hit tells which memories were without a file in an update.
Torn == {w \in Range(todo) : w = Head(todo) /\ w.do = "write" /\ w.file.id \in remembered}
Crash ==
    /\ memoryUp /\ crashes.n < MaxCrashes
    /\ memoryUp' = FALSE /\ todo' = <<>> /\ doing' = Nobody
    /\ crashes' = [n |-> crashes.n + 1,
                   hit |-> crashes.hit \cup {w.file.id : w \in Torn}]
    /\ UNCHANGED <<topics, archived, manifest, migrated, proposed, remembered>>

Next ==
    \/ Start \/ Step \/ Crash
    \/ \E i \in Ids, p \in Places : MemoryAdd(i, p)
    \/ \E p \in Proposals : WriteProposal(p)
    \/ \E p \in Proposals, i \in Ids, place \in Places : Promote(p, i, place)
    \/ \E i \in Ids, place \in Places, done \in {Nobody} \cup Proposals : Update(i, place, done)
    \/ \E i \in Ids : Archive(i)
    \/ \E p \in Proposals : Reject(p)

Spec == Init /\ [][Next]_memoryVars

-----------------------------------------------------------------------------
(* Properties.                                                             *)

\* Whatever write a crash comes after: a memory that was stored is in topics/ or in
\* the archive.
KeptOrArchived(i) == FilesOf(i) # {} \/ i \in archived

\* Between operations MEMORY.md, which every prompt gets, lists what a search can find;
\* a memory has one file, and what is archived is not found any more.  A memory is
\* lost only if the process ends between the two writes of an update.
MemoryIsKept ==
    /\ memoryUp /\ todo = <<>> => manifest = Found
    /\ \A i \in Ids : Cardinality(FilesOf(i)) <= 1
    /\ \A i \in archived : \A f \in FilesOf(i) : f \notin Found
    /\ \A i \in remembered : migrated /\ todo = <<>> => KeptOrArchived(i) \/ i \in crashes.hit

\* A crash loses no memory.  The code does not satisfy it (update() removes the file
\* before it writes the new one, memory-store.ts:352), and no run checks it: README,
\* Deviations.
NoMemoryIsLost == \A i \in remembered : migrated /\ todo = <<>> => KeptOrArchived(i)
=============================================================================
