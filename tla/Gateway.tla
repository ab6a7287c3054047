------------------------------- MODULE Gateway -------------------------------
(***************************************************************************)
(* Requests about sessions at the HTTP gateway (handleRoute): some look    *)
(* the session up before their body is awaited, some after; meanwhile the  *)
(* session may run, be renamed or be archived.  With them the title that   *)
(* the model finds for a session from its first message, up to 8 s later,  *)
(* and the branch that each device has selected.                           *)
(***************************************************************************)
EXTENDS Naturals, FiniteSets

CONSTANTS Viewers,      \* devices
          RequestIds,
          MaxBranches, MaxCalls \* bounds on branches and on requests for a title

Main == 1
Free == [op |-> "none", by |-> "none", at |-> Main]

VARIABLES
    state,      \* session.status
    title,      \* "draft" (as the first message begins, or a default), "found" or "given"
    branchCount, activeBranch, \* session.branches, numbered in their order
    branchMade, \* the branch of the last message
    waitingFor, \* requests that wait for their body
    selectedIn, \* selectedBranchBySession of each device
    naming,     \* calls of the model for a title that are under way
    named, files, wakers \* uploads and triggers of the session

gatewayVars == <<state, title, branchCount, activeBranch, branchMade, waitingFor, selectedIn,
    naming, named, files, wakers>>

Init ==
    /\ state = "idle" /\ title = "draft"
    /\ branchCount = 1 /\ activeBranch = Main /\ branchMade = Main
    /\ waitingFor = [r \in RequestIds |-> Free]
    /\ selectedIn = [d \in Viewers |-> 0]
    /\ naming = 0 /\ named = 0
    /\ files = 0 /\ wakers = 0

-----------------------------------------------------------------------------
\* The operations with a body, and what they check of the session when they arrive.
Operations == {"message", "variant", "upload", "rename", "trigger"}
FoundAtOnce(op) == op = "upload" => state # "archived"

Arrive(r, d, op, b) ==
    /\ waitingFor[r] = Free
    /\ FoundAtOnce(op)
    /\ waitingFor' = [waitingFor EXCEPT ![r] = [op |-> op, by |-> d, at |-> b]]
    /\ UNCHANGED <<state, title, branchCount, activeBranch, branchMade, selectedIn, naming,
                   named, files, wakers>>

Handled(r) == waitingFor' = [waitingFor EXCEPT ![r] = Free]

\* The model is asked for a title with the first message, and with a later one that is
\* the first its branch shows (after a compaction), unless the user has given one that
\* is not like a draft.
AskForTitle ==
    \/ /\ title = "draft" /\ named < MaxCalls
       /\ naming' = naming + 1 /\ named' = named + 1
    \/ /\ title # "draft" \/ named > 0
       /\ UNCHANGED <<naming, named>>

\* Mutant: the session was looked up before the body came.
AppendToWhatWas(r) ==
    /\ waitingFor[r].op = "message"
    /\ state' = "running"
    /\ AskForTitle
    /\ Handled(r)
    /\ UNCHANGED <<title, branchCount, activeBranch, branchMade, selectedIn, files, wakers>>

\* appendMessage: in the branch the request names (0: none), else the one its device
\* selected, else the active one; the device selects it.
AppendMessage(r) ==
    LET d == waitingFor[r].by
        b == IF waitingFor[r].at # 0 THEN waitingFor[r].at
             ELSE IF selectedIn[d] # 0 THEN selectedIn[d] ELSE activeBranch
    IN  /\ waitingFor[r].op = "message"
        /\ state \in {"idle", "waiting_user", "sleeping"}
        /\ state' = "running"
        /\ activeBranch' = b /\ branchMade' = b
        /\ selectedIn' = [selectedIn EXCEPT ![d] = b]
        /\ AskForTitle
        /\ Handled(r)
        /\ UNCHANGED <<title, branchCount, files, wakers>>

\* createMessageVariant: a new branch with the edited message.
CreateMessageVariant(r) ==
    /\ waitingFor[r].op = "variant"
    /\ state \notin {"archived", "running"} /\ branchCount < MaxBranches
    /\ branchCount' = branchCount + 1
    /\ activeBranch' = branchCount + 1 /\ branchMade' = branchCount + 1
    /\ selectedIn' = [selectedIn EXCEPT ![waitingFor[r].by] = branchCount + 1]
    /\ state' = "running"
    /\ Handled(r)
    /\ UNCHANGED <<title, naming, named, files, wakers>>

\* saveUploadedFile looks at the session again.
UploadSessionFiles(r) ==
    /\ waitingFor[r].op = "upload"
    /\ state # "archived"
    /\ files' = 1
    /\ Handled(r)
    /\ UNCHANGED <<state, title, branchCount, activeBranch, branchMade, selectedIn, naming,
                   named, wakers>>

\* renameSession does not look at the status: an archived session can be renamed.
RenameSession(r) ==
    /\ waitingFor[r].op = "rename"
    /\ title' = "given"
    /\ Handled(r)
    /\ UNCHANGED <<state, branchCount, activeBranch, branchMade, selectedIn, naming, named,
                   files, wakers>>

\* createTrigger: Scheduler.schedule does not look at the status either; an idle
\* session sleeps until its trigger fires.
CreateTrigger(r) ==
    /\ waitingFor[r].op = "trigger"
    /\ wakers' = 1
    /\ state' = IF state = "idle" THEN "sleeping" ELSE state
    /\ Handled(r)
    /\ UNCHANGED <<title, branchCount, activeBranch, branchMade, selectedIn, naming, named, files>>

\* The request finds the session in a status it cannot work with, or is cut off.
Refused(r) ==
    /\ waitingFor[r] # Free
    /\ Handled(r)
    /\ UNCHANGED <<state, title, branchCount, activeBranch, branchMade, selectedIn, naming,
                   named, files, wakers>>

-----------------------------------------------------------------------------
\* A turn ends; a session that is not running is deleted.
TurnEnds ==
    /\ state = "running"
    /\ state' \in {"idle", "waiting_user", "blocked"}
    /\ UNCHANGED <<title, branchCount, activeBranch, branchMade, waitingFor, selectedIn,
                   naming, named, files, wakers>>
Wakes ==
    /\ wakers = 1 /\ state \in {"idle", "sleeping"}
    /\ state' = "running"
    /\ UNCHANGED <<title, branchCount, activeBranch, branchMade, waitingFor, selectedIn,
                   naming, named, files, wakers>>
DeleteSession ==
    /\ state \notin {"running", "archived"}
    /\ state' = "archived"
    /\ UNCHANGED <<title, branchCount, activeBranch, branchMade, waitingFor, selectedIn,
                   naming, named, files, wakers>>

\* Mutant: the title that was there when the model was asked counts.
TitleArrivesAnyway ==
    /\ naming > 0
    /\ naming' = naming - 1
    /\ title' \in {title, "found"}
    /\ UNCHANGED <<state, branchCount, activeBranch, branchMade, waitingFor, selectedIn,
                   named, files, wakers>>

\* The model's title comes, or none: the session is looked at again.
TitleArrives ==
    /\ naming > 0
    /\ naming' = naming - 1
    /\ title' \in {title} \cup IF state # "archived" /\ title = "draft" THEN {"found"} ELSE {}
    /\ UNCHANGED <<state, branchCount, activeBranch, branchMade, waitingFor, selectedIn,
                   named, files, wakers>>

Next ==
    \/ \E r \in RequestIds :
           \/ \E d \in Viewers, op \in Operations, b \in 0..branchCount : Arrive(r, d, op, b)
           \/ AppendMessage(r) \/ CreateMessageVariant(r) \/ UploadSessionFiles(r)
           \/ RenameSession(r) \/ CreateTrigger(r) \/ Refused(r)
    \/ TurnEnds \/ Wakes \/ DeleteSession \/ TitleArrives

-----------------------------------------------------------------------------
TypeOK ==
    /\ state \in {"idle", "running", "waiting_user", "sleeping", "blocked", "archived"}
    /\ title \in {"draft", "found", "given"}
    /\ branchCount \in 1..MaxBranches
    /\ {activeBranch, branchMade} \subseteq 1..branchCount
    /\ selectedIn \in [Viewers -> 0..branchCount]
    /\ naming \in 0..MaxCalls

\* What a request does is right for the session it finds when its body is there: an
\* archived session never runs again and gets no file, message or branch, a running one
\* gets no second message or branch, and the title that the user has given, or that was
\* found first, is not replaced by one that was asked for earlier (http-server.ts,
\* handleRoute; core-api.ts, #maybeAutoTitleSession and saveUploadedFile).
IsChecked ==
    /\ state = "archived" =>
           state' = "archived" /\ UNCHANGED <<branchCount, activeBranch, branchMade, files>>
    /\ state = "running" => UNCHANGED <<branchCount, activeBranch, branchMade>>
    /\ title = "given" => title' = "given"
    /\ title = "found" => title' # "draft"
LateRequestsAreChecked == [][IsChecked]_gatewayVars
=============================================================================
