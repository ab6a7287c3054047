------------------------------ MODULE FileEdits ------------------------------
(***************************************************************************)
(* The file tools of one session branch: what read_file remembers of the   *)
(* files it has read (ReadFileState), the tools that may only replace what *)
(* it remembers, and the checkpoints by which revert_file_change goes back *)
(* one step.  To one session the tools of another, a formatter and the     *)
(* user's editor are all other programs that change the files.             *)
(***************************************************************************)
EXTENDS Naturals

CONSTANTS Files,
          Texts,     \* the contents a file can have, apart from none at all
          Long,      \* those of more than MAX_LINES lines, and notebooks
          MaxForeign \* bound on the changes other programs make

VARIABLES
    file,    \* the content of each file
    view,    \* what ReadFileState holds of each file
    saved,   \* the checkpoint of the last diff_event of each file in the thread
    learnt,  \* the contents, not empty, that the session has seen in full or has written
    foreign  \* how often another program has changed a file

fileVars == <<file, view, saved, learnt, foreign>>

Absent == "absent"
Empty == "empty"
Contents == Texts \cup {Empty}
Exists(f) == file[f] # Absent

\* An entry of ReadFileState.  range stands for its offset, limit and mtimeMs: the
\* read that would be the same again, "none" if a tool wrote the file or its mtime
\* has changed.  A file without an entry is to every tool like one read in part.
Unread == [content |-> Absent, partial |-> TRUE, range |-> "none"]
Written(c) == [content |-> c, partial |-> FALSE, range |-> "none"]

NoCheckpoint == [before |-> Absent, after |-> Absent]

Init ==
    /\ file \in [Files -> Contents \cup {Absent}]
    /\ view = [f \in Files |-> Unread]
    /\ saved = [f \in Files |-> NoCheckpoint]
    /\ learnt = {} /\ foreign = 0

-----------------------------------------------------------------------------
\* Nothing is to be learnt of an empty file, nor by reading one of those in but.
Learn(c, but) == learnt \cup ({c} \ ({Empty} \cup but))

\* The answer "File unchanged since last read", which changes nothing.
Unchanged(f, range) ==
    file[f] # Empty /\ view[f].range = range

\* read_file, of the whole file or of some of its lines.  Without a limit a long
\* file is cut off at MAX_LINES and still counts as read in full.
ReadFile(f, range) ==
    /\ Exists(f) /\ ~Unchanged(f, range)
    /\ view' = [view EXCEPT ![f] = [content |-> file[f], partial |-> range = "part",
                                    range |-> range]]
    /\ learnt' = IF range = "all" THEN Learn(file[f], Long) ELSE learnt
    /\ UNCHANGED <<file, saved, foreign>>

\* Mutant: a file that was read once may be changed.
ReadBefore(f) == Exists(f) /\ ~view[f].partial

\* The check of every tool that changes a file that is there.
FreshlyRead(f) == Exists(f) /\ ~view[f].partial /\ view[f].content = file[f]

\* A tool gives f the content c, and records the checkpoint.
Replace(f, c) ==
    /\ file' = [file EXCEPT ![f] = c]
    /\ view' = [view EXCEPT ![f] = Written(c)]
    /\ saved' = [saved EXCEPT ![f] = [before |-> file[f], after |-> c]]
    /\ learnt' = Learn(c, {})
    /\ UNCHANGED foreign

WriteFile(f) ==
    /\ Exists(f) => FreshlyRead(f)
    /\ \E c \in Contents : Replace(f, c)

\* edit_file, multi_edit_file, apply_patch_file and notebook_edit.
EditFile(f) ==
    /\ FreshlyRead(f)
    /\ \E c \in Contents \ {file[f]} : Replace(f, c)

\* edit_file with an empty old_string needs no read: it fills an empty file.
FillFile(f) ==
    /\ ~Exists(f) \/ file[f] = Empty
    /\ \E c \in Texts : Replace(f, c)

DeleteFile(f) ==
    /\ FreshlyRead(f)
    /\ file' = [file EXCEPT ![f] = Absent]
    /\ view' = [view EXCEPT ![f] = Unread]
    /\ saved' = [saved EXCEPT ![f] = [before |-> file[f], after |-> Empty]]
    /\ UNCHANGED <<learnt, foreign>>

\* move_file: onto a file only if that was read as well.
MoveFile(f, g) ==
    /\ f # g /\ FreshlyRead(f)
    /\ Exists(g) => FreshlyRead(g)
    /\ file' = [file EXCEPT ![f] = Absent, ![g] = file[f]]
    /\ view' = [view EXCEPT ![f] = Unread, ![g] = Written(file[f])]
    /\ saved' = [saved EXCEPT ![f] = [before |-> file[f], after |-> Empty],
                              ![g] = [before |-> file[g], after |-> file[f]]]
    /\ UNCHANGED <<learnt, foreign>>

\* What revert_file_change refuses: a file that is not as the checkpoint left it.
Untouched(f) == Exists(f) => file[f] = saved[f].after

\* revert_file_change; it records no checkpoint of its own.
GoBack(f) ==
    /\ saved[f] # NoCheckpoint
    /\ file' = [file EXCEPT ![f] = saved[f].before]
    /\ view' = [view EXCEPT ![f] = IF saved[f].before = Absent THEN Unread
                                                             ELSE Written(saved[f].before)]
    /\ UNCHANGED <<saved, learnt, foreign>>

RevertFile(f) == Untouched(f) /\ GoBack(f)

\* With force = true, which the user has to ask for, whatever the file is now is lost.
ForceRevert(f) == ~Untouched(f) /\ GoBack(f)

\* Another program writes or removes f.  Its mtime in whole milliseconds can stay.
ForeignChange(f) ==
    /\ foreign < MaxForeign /\ foreign' = foreign + 1
    /\ \E c \in (Contents \cup {Absent}) \ {file[f]} : file' = [file EXCEPT ![f] = c]
    /\ \E range \in {view[f].range, "none"} : view' = [view EXCEPT ![f].range = range]
    /\ UNCHANGED <<saved, learnt>>

\* Entries are evicted when there are too many, and all are gone after a restart.
Forget ==
    /\ \E F \in {Files} \cup {{f} : f \in Files} :
           view' = [f \in Files |-> IF f \in F THEN Unread ELSE view[f]]
    /\ UNCHANGED <<file, saved, learnt, foreign>>

ToolStep ==
    \E f \in Files :
        \/ \E range \in {"all", "part"} : ReadFile(f, range)
        \/ WriteFile(f) \/ EditFile(f) \/ FillFile(f) \/ DeleteFile(f)
        \/ \E g \in Files : MoveFile(f, g)
        \/ RevertFile(f)

Next ==
    \/ ToolStep
    \/ \E f \in Files : ForceRevert(f) \/ ForeignChange(f)
    \/ Forget

FileSpec == Init /\ [][Next]_fileVars

-----------------------------------------------------------------------------
\* What is gone from f after the step.
Lost(f) == IF file'[f] # file[f] THEN {file[f]} \ {file'[g] : g \in Files} ELSE {}

\* A tool destroys only what the session has seen in full or has written, whoever
\* changed the file in between and in whatever sequence of edits, moves and
\* reverts; of a long file the session has seen only the beginning.
NothingUnreadIsLost ==
    [][(\A f \in Files : Lost(f) \subseteq learnt \cup Long \cup {Absent, Empty})
       \/ ~ToolStep]_fileVars

\* develop.md:138: "片段读取不能解锁编辑", the reading of a part does not unlock edits.
\* The code does not satisfy it, and no run checks it: README, Deviations.
PartsUnlockNothing ==
    [][(\A f \in Files : Lost(f) \subseteq learnt \cup {Absent, Empty}) \/ ~ToolStep]_fileVars
=============================================================================
