------------------------------ MODULE Workbench ------------------------------
(***************************************************************************)
(* What the web console's App() does when the user clicks: its handlers    *)
(* are async functions that go on after each await with what they had read *)
(* before, while the user clicks on, the event stream and the poll reload  *)
(* the list of sessions, and other clients delete sessions.                *)
(*                                                                         *)
(* An operation is a record that says which await it is at.  A request and *)
(* its answer are one step, but for the lists of sessions: an answer may   *)
(* be old when it arrives.  WebConsole has the events of the threads; here *)
(* a thread is known by its session and its branch.                        *)
(***************************************************************************)
EXTENDS Naturals, FiniteSets, Sequences, SequencesExt

CONSTANTS ProjectOf, \* for each session, there already or not, its project
          Texts,     \* what the user writes
          MaxClicks, \* bound on clicks, reloads and what other clients do
          MaxOps     \* bound on handlers under way at a click

VARIABLES
    exists,   \* the sessions that the core has
    picked,   \* the branch that the device state, or else the core, has for a session
    project,  \* selectedProjectId
    selected, \* selectedId
    branch,   \* selectedBranchId
    shown,    \* the session and branch of the events in the thread
    listed,   \* sessions
    draft,    \* the texts in the composer
    files,    \* whether something is attached
    busy,     \* busy and projectBusy: what is disabled while a handler runs
    choosing,
    ops,      \* the handlers under way
    sent,     \* the messages that the core has accepted
    written,  \* the texts that were ever in the composer
    doubtful, \* those written while a message was on its way, or sent while another handler
              \* that disables the composer was, or whose answer was lost
    clicks

workbenchVars == <<exists, picked, project, selected, branch, shown, listed, draft, files, busy,
                   choosing, ops, sent, written, doubtful, clicks>>
serverVars == <<exists, picked>>
composerVars == <<draft, files, written, doubtful>>

Nothing == "nothing"
Sessions == DOMAIN ProjectOf
Projects == {ProjectOf[s] : s \in Sessions}
SessionsOf(p) == {s \in exists : ProjectOf[s] = p}
FirstOf(list) == IF list = {} THEN {Nothing} ELSE list

\* home is the session that was selected at the click; next what comes after the list.
Op(is, at, s) == [is |-> is, at |-> at, s |-> s, b |-> "main", p |-> Nothing, prefer |-> Nothing,
                  list |-> {}, next |-> "end", text |-> {}, home |-> Nothing]
FromHere(o) == [o EXCEPT !.home = selected]
Load(s) == Op("load", "load", s)
LoadBranch(s, b) == [Load(s) EXCEPT !.at = "loadBranch", !.b = b]

\* reloadSessions() begins: which project's list it asks for.
Reloading(o, prefer, next) ==
    [o EXCEPT !.at = "reload", !.p = project, !.prefer = prefer, !.next = next]

Replace(o, new) == ops' = (ops \ {o}) \cup new
Done(o) == Replace(o, {})

Init ==
    /\ exists \in SUBSET Sessions
    /\ picked = [s \in Sessions |-> "main"]
    /\ project \in Projects
    /\ selected \in FirstOf(SessionsOf(project)) /\ listed = SessionsOf(project)
    /\ branch = "main" /\ shown = {<<s, "main">> : s \in {selected} \ {Nothing}}
    /\ draft = {} /\ files = FALSE /\ busy = FALSE /\ choosing = FALSE
    /\ ops = {} /\ sent = <<>> /\ written = {} /\ doubtful = {} /\ clicks = 0

-----------------------------------------------------------------------------
(* The selection.                                                          *)

\* setSelectedId() and the effect of a change: attachments are dropped and the thread
\* is loaded; the operation o goes on as those in new.
GoTo(x, o, new) ==
    /\ selected' = x
    /\ files' = IF x = selected THEN files ELSE FALSE
    /\ Replace(o, new \cup IF x = selected \/ x = Nothing THEN {} ELSE {Load(x)})
    /\ shown' = IF x = Nothing \/ o.is = "create" THEN {} ELSE shown
    /\ branch' = IF x = Nothing THEN "main" ELSE branch

\* loadThread() has all its answers: they are what is shown now.  A deleted session is
\* archived, and can still be read.
LoadEnds(o) ==
    /\ o.at \in {"load", "loadBranch"}
    /\ LET b == IF o.at = "load" THEN picked[o.s] ELSE o.b
       IN  branch' = b /\ shown' = {<<o.s, b>>}
    /\ Done(o)
    /\ busy' = IF o.is \in {"submit", "edit", "delete"} THEN FALSE ELSE busy
    /\ choosing' = IF o.is = "project" THEN FALSE ELSE choosing
    /\ UNCHANGED <<serverVars, composerVars, project, selected, listed, sent, clicks>>

\* GET /sessions is answered, with what the core has then.
ListServed(o) ==
    /\ o.at = "reload"
    /\ Replace(o, {[o EXCEPT !.at = "listed", !.list = SessionsOf(o.p)]})
    /\ UNCHANGED <<serverVars, composerVars, project, selected, branch, shown, listed, busy, choosing, sent, clicks>>

\* reloadSessions(): the session that is preferred, else the one that is selected, else
\* the first of the list.
Preferred(o) ==
    IF o.prefer \in o.list THEN {o.prefer}
    ELSE IF selected \in o.list THEN {selected} ELSE FirstOf(o.list)

\* What an operation does with the list, when x is selected.
AfterList(o, x) ==
    LET on == [o EXCEPT !.at = o.next, !.list = {}, !.p = Nothing, !.prefer = Nothing, !.next = "end"]
    IN  CASE o.next = "end" -> {}
          [] o.next = "load" -> IF x = Nothing THEN {} ELSE {[Load(x) EXCEPT !.is = o.is]}
          [] o.next = "merge" -> IF o.home \in o.list THEN {[on EXCEPT !.b = branch]} ELSE {}
          [] o.next = "send" -> {[on EXCEPT !.b = branch]}
          [] o.next = "loadBranch" -> {[LoadBranch(o.s, o.b) EXCEPT !.is = o.is]}
          [] o.next = "upload" -> {[on EXCEPT !.b = "main"]}

\* selectProject() goes to the first session, and deleteSession() to another one if its
\* session was selected when the user clicked; createSession() empties the thread.
ListArrives(o) ==
    /\ o.at = "listed" /\ listed' = o.list
    /\ \E x \in IF o.next = "load" THEN FirstOf(o.list \ {o.s}) ELSE Preferred(o) :
          LET rest == AfterList(o, x)
          IN  /\ GoTo(x, o, rest)
              /\ busy' = IF rest = {} /\ o.is \in {"create", "delete"} THEN FALSE ELSE busy
              /\ choosing' = IF rest = {} /\ o.is = "project" THEN FALSE ELSE choosing
    /\ UNCHANGED <<serverVars, project, draft, written, doubtful, sent, clicks>>

-----------------------------------------------------------------------------
(* What the user does.                                                     *)

Click == clicks < MaxClicks /\ clicks' = clicks + 1 /\ Cardinality(ops) < MaxOps
Starts(o) == ops' = ops \cup {o}

Under(is) == {o \in ops : o.is = is}

\* The handlers that disable the composer, and enable it when they end.
Busying == {"submit", "create", "edit", "delete"}
Holders == {o \in ops : o.is \in Busying}

\* Files cannot be attached while busy, but the text can be changed.
Write(t) ==
    /\ Click /\ t \notin written
    /\ draft' = draft \cup {t} /\ written' = written \cup {t}
    /\ doubtful' = IF Under("submit") = {} THEN doubtful ELSE doubtful \cup {t}
    /\ files' \in IF busy THEN {files} ELSE {files, TRUE}
    /\ UNCHANGED <<serverVars, project, selected, branch, shown, listed, busy, choosing, ops, sent>>

\* submitMessage()
Submit ==
    /\ Click /\ ~busy /\ (draft # {} \/ files)
    /\ busy' = TRUE
    /\ LET o == [FromHere(Op("submit", "create", selected)) EXCEPT
                   !.text = draft, !.next = IF files THEN "upload" ELSE "send"]
       IN  Starts(IF selected = Nothing THEN [o EXCEPT !.p = project]
                  ELSE [o EXCEPT !.at = o.next, !.b = IF files THEN "main" ELSE branch, !.next = "end"])
    /\ doubtful' = IF Holders = {} THEN doubtful ELSE doubtful \cup draft
    /\ UNCHANGED <<serverVars, project, selected, branch, shown, listed, draft, files, written, choosing, sent>>

\* createSession()
Create ==
    /\ Click /\ ~busy /\ ~choosing
    /\ busy' = TRUE /\ Starts([Op("create", "create", Nothing) EXCEPT !.p = project])
    /\ UNCHANGED <<serverVars, composerVars, project, selected, branch, shown, listed, choosing, sent>>

\* selectProject(); the select is disabled while choosing.
SelectProject(p) ==
    /\ Click /\ ~choosing /\ p # project
    /\ choosing' = TRUE /\ project' = p
    /\ Starts([Op("project", "reload", Nothing) EXCEPT !.p = p, !.next = "load"])
    /\ UNCHANGED <<serverVars, composerVars, selected, branch, shown, listed, busy, sent>>

\* selectSession(), or a click on a notification, which may be about any session.
SelectSession(s) ==
    /\ Click /\ s \in exists /\ s # selected
    /\ GoTo(s, Load(s), {})
    /\ UNCHANGED <<serverVars, project, listed, draft, busy, choosing, sent, written, doubtful>>

\* selectBranch(): the device state is patched first.
SelectBranch(b) ==
    /\ Click /\ selected \in listed /\ b # branch
    /\ Starts([Op("branch", "patch", selected) EXCEPT !.b = b])
    /\ UNCHANGED <<serverVars, composerVars, project, selected, branch, shown, listed, busy, choosing, sent>>

\* submitEditedUserMessage(); its button is not disabled while busy.
Edit ==
    /\ Click /\ selected \in listed
    /\ busy' = TRUE /\ Starts([Op("edit", "variant", selected) EXCEPT !.b = "edit"])
    /\ doubtful' = doubtful \cup UNION {o.text : o \in Under("submit")}
    /\ UNCHANGED <<serverVars, project, selected, branch, shown, listed, draft, files, written, choosing, sent>>

\* deleteSession(); deleteIdleAndBlockedSessions() does it for several.
Delete(s) ==
    /\ Click /\ ~busy /\ s \in listed
    /\ busy' = TRUE /\ Starts(FromHere(Op("delete", "delete", s)))
    /\ UNCHANGED <<serverVars, composerVars, project, selected, branch, shown, listed, choosing, sent>>

-----------------------------------------------------------------------------
(* What the handlers do after each await.                                  *)

\* POST /sessions, for the project that was selected at the click.
Created(o) ==
    /\ o.at = "create"
    /\ \E s \in {x \in Sessions \ exists : ProjectOf[x] = o.p} :
          /\ exists' = exists \cup {s}
          /\ Replace(o, {[Reloading(o, s, o.next) EXCEPT !.s = s, !.home = s]})
    /\ UNCHANGED <<picked, composerVars, project, selected, branch, shown, listed, busy, choosing, sent, clicks>>

\* The branch that is read when the files are there may be another session's.
Uploaded(o) ==
    /\ o.at = "upload" /\ o.s \in exists
    /\ Replace(o, {[o EXCEPT !.at = "send", !.b = branch]})
    /\ UNCHANGED <<serverVars, composerVars, project, selected, branch, shown, listed, busy, choosing, sent, clicks>>

\* Mutant: the message goes to the session that is selected by then.
ReceiverNow(o) == selected

\* The session that was selected at the click, or was made for the message.
Receiver(o) == o.s

Message(o) == [text |-> o.text, s |-> Receiver(o), b |-> o.b, home |-> o.home]

\* POST /sessions/:id/messages: the core has the message, keeps its branch as the one the
\* device has picked, and the draft is gone.
Accepted(o) ==
    /\ o.at = "send" /\ Receiver(o) \in exists
    /\ sent' = Append(sent, Message(o))
    /\ picked' = [picked EXCEPT ![Receiver(o)] = o.b]

Sent(o) ==
    /\ Accepted(o)
    /\ draft' = {} /\ files' = FALSE
    /\ Replace(o, {Reloading(o, o.s, "loadBranch")})
    /\ UNCHANGED <<exists, project, selected, branch, shown, listed, busy, choosing, written, doubtful, clicks>>

\* createMessageVariant() makes a branch and the session's active one; then the device
\* state is patched, and the console is on the branch.
VariantMade(o) ==
    /\ o.at = "variant" /\ o.s \in exists
    /\ picked' = [picked EXCEPT ![o.s] = "edit"]
    /\ Replace(o, {[o EXCEPT !.at = "patch"]})
    /\ UNCHANGED <<exists, composerVars, project, selected, branch, shown, listed, busy, choosing, sent, clicks>>

Patched(o) ==
    /\ o.at = "patch"
    /\ picked' = [picked EXCEPT ![o.s] = o.b]
    /\ branch' = o.b
    /\ Replace(o, {IF o.is = "edit" THEN Reloading(o, o.s, "loadBranch") ELSE LoadBranch(o.s, o.b)})
    /\ UNCHANGED <<exists, composerVars, project, selected, shown, listed, busy, choosing, sent, clicks>>

\* DELETE /sessions/:id
Deleted(o) ==
    /\ o.at = "delete"
    /\ exists' = exists \ {o.s}
    /\ Replace(o, {IF o.s = o.home THEN Reloading(o, Nothing, "load") ELSE Reloading(o, o.home, "end")})
    /\ UNCHANGED <<picked, composerVars, project, selected, branch, shown, listed, busy, choosing, sent, clicks>>

\* A list is reloaded by an event, or by the poll, which then merges what is new of the
\* session that was selected into the thread that is shown.
ReloadStarts(is) ==
    /\ Click
    /\ Starts(Reloading(FromHere(Op(is, "reload", Nothing)), selected,
                        IF is = "reconcile" THEN "merge" ELSE "end"))
    /\ UNCHANGED <<serverVars, composerVars, project, selected, branch, shown, listed, busy, choosing, sent>>

Merged(o) ==
    /\ o.at = "merge" /\ o.home \in exists
    /\ shown' = shown \cup {<<o.home, o.b>>}
    /\ Done(o)
    /\ UNCHANGED <<serverVars, composerVars, project, selected, branch, listed, busy, choosing, sent, clicks>>

\* A request fails, or its session is gone: the handler ends with an error.  The answer
\* to a message may be lost when the core has it.
Fails(o) ==
    /\ Done(o)
    /\ busy' = IF o.is \in Busying THEN FALSE ELSE busy
    /\ choosing' = IF o.is = "project" THEN FALSE ELSE choosing
    /\ \/ UNCHANGED <<sent, picked, doubtful>>
       \/ Accepted(o) /\ doubtful' = doubtful \cup o.text
    /\ UNCHANGED <<exists, project, selected, branch, shown, listed, draft, files, written, clicks>>

\* Another client deletes a session.
DeletedElsewhere(s) ==
    /\ Click /\ s \in exists
    /\ exists' = exists \ {s}
    /\ UNCHANGED <<picked, composerVars, project, selected, branch, shown, listed, busy, choosing, ops, sent>>

Next ==
    \/ \E t \in Texts : Write(t)
    \/ Submit \/ Create \/ Edit
    \/ \E p \in Projects : SelectProject(p)
    \/ \E s \in Sessions : SelectSession(s) \/ Delete(s) \/ DeletedElsewhere(s)
    \/ \E b \in {"main", "edit"} : SelectBranch(b)
    \/ \E is \in {"list", "reconcile"} : ReloadStarts(is)
    \/ \E o \in ops :
          \/ LoadEnds(o) \/ ListServed(o) \/ ListArrives(o) \/ Created(o) \/ Uploaded(o) \/ Sent(o)
          \/ VariantMade(o) \/ Patched(o) \/ Deleted(o) \/ Merged(o) \/ Fails(o)

Spec == Init /\ [][Next]_workbenchVars

-----------------------------------------------------------------------------
(* Properties.                                                             *)

SentAs(t) == {i \in DOMAIN sent : t \in sent[i].text}

\* A message goes to the session that was selected when the user sent it, or was made
\* for it, wherever the user has gone since; what was written leaves the composer only
\* when the core has it, unless it was written while another message was on its way; and
\* it is not sent twice, unless the composer was free only because an edit had ended while
\* another handler was still under way, or the core's answer was lost.
MessagesArrive ==
    /\ \A i \in DOMAIN sent : sent[i].s = sent[i].home
    /\ \A t \in written : t \in draft \/ SentAs(t) # {} \/ t \in doubtful
    /\ \A t \in written \ doubtful : \A i, j \in SentAs(t) : i = j

\* App.tsx:914-926 and :752: when nothing is under way, the thread is the selected
\* session's.  The code does not satisfy it: README, Deviations.
ShownIsSelected == ops = {} => \A x \in shown : x[1] = selected
=============================================================================
