----------------------------- MODULE AndroidApp -----------------------------
(***************************************************************************)
(* The Android app: MainActivity with ConnectionStore and EndpointResolver *)
(* (apps/android/ForgeAgentAndroid).                                       *)
(*                                                                         *)
(* A tap does its part on the UI thread and leaves the rest to a single    *)
(* background thread, whose outcome comes back as a runnable for the UI    *)
(* thread.  activeConnection and resolvedBaseUrl are fields both threads   *)
(* write.  A web view that is replaced is not destroyed: its callbacks go  *)
(* on using those fields.  The user does not wait for any of it.           *)
(***************************************************************************)
EXTENDS Naturals, Sequences, FiniteSets, SequencesExt

CONSTANTS
    Desktops,   \* connections: one for each pairing with a desktop
    Urls,       \* addresses
    MaxTaps,    \* bound: what the user does
    MaxMoves    \* bound: changes of what answers at an address

None == "none"

VARIABLES
    answers,  \* the desktop that answers at each address, or None
    saved,    \* ConnectionStore: the connections with their endpoints
    activeId, \* PREF_ACTIVE_CONNECTION_ID
    activeConnection, resolvedBaseUrl, tokenInjected,
    executor, \* the tasks of the background thread; the first is under way
    posted,   \* the runnables for the UI thread
    screen,   \* "home", "setup", "pairing", "offline" or "console"
    view,     \* webView: its address, or None
    loading,  \* addresses of the web views, live or replaced, that still load
    token,    \* the token in the local storage of each address
    chosen,   \* ghost: the connection the user asked for last
    met,      \* ghost: the desktop that answered when resolvedBaseUrl was found
    taps, moves

appVars == <<answers, saved, activeId, activeConnection, resolvedBaseUrl, tokenInjected,
    executor, posted, screen, view, loading, token, chosen, met, taps, moves>>

Fields == <<activeConnection, resolvedBaseUrl, tokenInjected>>
Web == <<view, loading, token>>

\* An entry of the store: absent, or the addresses and the one that worked last.
Absent == [is |-> "absent", urls |-> {}, last |-> None]
Entry(urls, last) == [is |-> "saved", urls |-> urls, last |-> last]
List == {desktop \in Desktops : saved[desktop].is = "saved"}

\* All but one desktop were paired before.
Init ==
    /\ answers \in [Urls -> Desktops]
    /\ saved \in [Desktops -> {Absent} \cup {Entry({url}, url) : url \in Urls}]
    /\ \A desktop \in List : answers[saved[desktop].last] = desktop
    /\ Cardinality(List) = Cardinality(Desktops) - 1
    /\ activeId \in List
    /\ activeConnection = None /\ resolvedBaseUrl = None /\ tokenInjected = FALSE
    /\ executor = <<>> /\ posted = <<>> /\ screen = "home"
    /\ view = None /\ loading = <<>> /\ token = [url \in Urls |-> None]
    /\ chosen = None /\ met = None /\ taps = 0 /\ moves = 0

\* ConnectionStore.upsert() and delete(), with the connection that is active then.
Upsert(desktop, entry) ==
    /\ saved' = [saved EXCEPT ![desktop] = entry]
    /\ activeId' = IF activeId = None THEN desktop ELSE activeId

----------------------------------------------------------------------------
(* The UI thread.                                                          *)

\* render*(): a screen of the app's own; the web view is forgotten, not stopped.
Render(name) == screen' = name /\ view' = None

Task(kind, desktop) ==
    [kind |-> kind, desktop |-> desktop, step |-> "resolve",
     entry |-> saved[desktop], base |-> None, met |-> None]

\* active(): the first of the list when the preference names none of it.
Active == IF activeId \in List THEN activeId
          ELSE IF List = {} THEN None ELSE CHOOSE desktop \in List : TRUE

\* showConnectionSwitcher(): a dialog over the console, as well as the rows at home or
\* "Retry"; a notification opens the active one, whatever is on the screen.
CanSwitchTo(desktop) ==
    /\ desktop \in List
    /\ screen \in {"home", "console", "offline"} \/ desktop = Active

\* openConnection().
Open(desktop) ==
    /\ CanSwitchTo(desktop) /\ taps < MaxTaps
    /\ taps' = taps + 1
    /\ activeConnection' = desktop /\ activeId' = desktop /\ chosen' = desktop
    /\ Render("pairing")
    /\ executor' = Append(executor, Task("open", desktop))
    /\ UNCHANGED <<answers, saved, resolvedBaseUrl, tokenInjected, posted, loading,
                   token, moves, met>>

\* showAddEndpointDialog(): the address is saved and tried at once.
AddEndpoint(desktop, url) ==
    /\ screen \in {"home", "offline"} /\ taps < MaxTaps
    /\ desktop \in List /\ url \notin saved[desktop].urls
    /\ taps' = taps + 1
    /\ LET entry == Entry(saved[desktop].urls \cup {url}, saved[desktop].last)
       IN  /\ saved' = [saved EXCEPT ![desktop] = entry]
           /\ executor' = Append(executor, [Task("open", desktop) EXCEPT !.entry = entry])
    /\ activeConnection' = desktop /\ activeId' = desktop /\ chosen' = desktop
    /\ Render("pairing")
    /\ UNCHANGED <<answers, resolvedBaseUrl, tokenInjected, posted, loading, token, moves, met>>

\* pairFromUri(): a scanned code or a link.
Pair(desktop, url) ==
    /\ desktop \notin List /\ taps < MaxTaps
    /\ \A i \in DOMAIN executor : executor[i].desktop # desktop
    /\ taps' = taps + 1 /\ chosen' = desktop
    /\ Render("pairing")
    /\ executor' = Append(executor, [Task("pair", desktop) EXCEPT
                                        !.entry = Entry({url}, url), !.step = "pair"])
    /\ UNCHANGED <<answers, saved, activeId, Fields, posted, loading, token, moves, met>>

\* "Manage connections", or a notification when there are several: the home screen,
\* which looks at every connection.
Home ==
    /\ screen \in {"console", "offline"} \/ Cardinality(List) > 1
    /\ taps < MaxTaps /\ taps' = taps + 1
    /\ chosen' = None
    /\ Render("home")
    /\ executor' = Append(executor, [Task("refresh", CHOOSE d \in Desktops : TRUE)
                                        EXCEPT !.entry = Absent])
    /\ UNCHANGED <<answers, saved, activeId, Fields, posted, loading, token, moves, met>>

\* "Delete" of a row.
Delete(desktop) ==
    /\ screen = "home" /\ desktop \in List /\ taps < MaxTaps
    /\ taps' = taps + 1
    /\ saved' = [saved EXCEPT ![desktop] = Absent]
    /\ activeId' \in IF activeId # desktop THEN {activeId}
                     ELSE IF List = {desktop} THEN {None} ELSE List \ {desktop}
    /\ IF activeConnection = desktop
       THEN activeConnection' = None /\ resolvedBaseUrl' = None
       ELSE UNCHANGED <<activeConnection, resolvedBaseUrl>>
    /\ Render("home")
    /\ UNCHANGED <<answers, tokenInjected, executor, posted, loading, token, chosen, moves, met>>

\* renderWebConsole() and loadConsole().
RenderWebConsole ==
    IF activeConnection = None \/ resolvedBaseUrl = None
    THEN Render("home") /\ UNCHANGED <<tokenInjected, loading>>
    ELSE /\ screen' = "console" /\ view' = resolvedBaseUrl
         /\ tokenInjected' = FALSE
         /\ loading' = Append(loading, resolvedBaseUrl)

\* What the background thread posted.
RunPosted ==
    /\ posted # <<>> /\ posted' = Tail(posted)
    /\ IF Head(posted) = "console" THEN RenderWebConsole
       ELSE Render(Head(posted)) /\ UNCHANGED <<tokenInjected, loading>>
    /\ UNCHANGED <<answers, saved, activeId, activeConnection, resolvedBaseUrl, executor,
                   token, chosen, taps, moves, met>>

\* onPageFinished() of any web view: the first one at the resolved address is given the
\* token of the active connection, and loads once more.
PageFinished(i) ==
    /\ i \in DOMAIN loading
    /\ IF ~tokenInjected /\ loading[i] = resolvedBaseUrl /\ activeConnection # None
       THEN /\ tokenInjected' = TRUE
            /\ token' = [token EXCEPT ![loading[i]] = activeConnection]
            /\ UNCHANGED loading
       ELSE loading' = RemoveAt(loading, i) /\ UNCHANGED <<tokenInjected, token>>
    /\ UNCHANGED <<answers, saved, activeId, activeConnection, resolvedBaseUrl, executor,
                   posted, screen, view, chosen, taps, moves, met>>

\* onReceivedError() of any web view: the console that is shown is destroyed.
PageFails(i) ==
    /\ i \in DOMAIN loading /\ answers[loading[i]] = None
    /\ loading' = RemoveAt(loading, i)
    /\ Render("offline")
    /\ UNCHANGED <<answers, saved, activeId, Fields, executor, posted, token, chosen, taps,
                   moves, met>>

----------------------------------------------------------------------------
(* The background thread.                                                  *)

Current == executor[1]
Going(kinds, step) ==
    /\ executor # <<>> /\ Current.kind \in kinds /\ Current.step = step
Ends(runnable) == executor' = Tail(executor) /\ posted' = Append(posted, runnable)
Goes(task) == executor' = <<task>> \o Tail(executor) /\ UNCHANGED posted

\* pairWithCode(): the desktop takes the code, or the app shows its setup again.
PairWithCode ==
    /\ Going({"pair"}, "pair")
    /\ LET url == Current.entry.last IN
       \/ /\ answers[url] = Current.desktop
          /\ saved' = [saved EXCEPT ![Current.desktop] = Current.entry]
          /\ activeId' = Current.desktop /\ activeConnection' = Current.desktop
          /\ Goes([Current EXCEPT !.step = "resolve"])
       \/ Ends("setup") /\ UNCHANGED <<saved, activeId, activeConnection>>
    /\ UNCHANGED <<answers, resolvedBaseUrl, tokenInjected, screen, Web, chosen, taps, moves, met>>

\* candidates(): the address that worked last is tried first.
Better(entry, url) ==
    {other \in entry.urls \cap {entry.last} : other # url /\ answers[other] # None}

\* Mutant: whatever answers will do.
ResolvesAny(desktop, entry) ==
    {url \in entry.urls : answers[url] # None /\ Better(entry, url) = {}}

\* resolve(): an address of the connection where its own desktop answers.
Resolves(desktop, entry) ==
    {url \in entry.urls : /\ answers[url] = desktop
                          /\ \A other \in Better(entry, url) : answers[other] # desktop}

\* The copy that was tried is saved with what was found, deleted meanwhile or not.
Resolve ==
    /\ Going({"open", "pair"}, "resolve")
    /\ LET desktop == Current.desktop  entry == Current.entry IN
       \/ \E url \in Resolves(desktop, entry) :
             /\ Upsert(desktop, Entry(entry.urls, url))
             /\ Goes([Current EXCEPT !.step = "active", !.base = url,
                                           !.met = answers[url]])
       \/ Upsert(desktop, entry) /\ Ends("offline")
    /\ UNCHANGED <<answers, Fields, screen, Web, chosen, taps, moves, met>>

\* The two fields are set one after the other.
SetActiveConnection ==
    /\ Going({"open", "pair"}, "active")
    /\ activeConnection' = Current.desktop
    /\ Goes([Current EXCEPT !.step = "base"])
    /\ UNCHANGED <<answers, saved, activeId, resolvedBaseUrl, tokenInjected, screen, Web,
                   chosen, taps, moves, met>>
SetResolvedBaseUrl ==
    /\ Going({"open", "pair"}, "base")
    /\ resolvedBaseUrl' = Current.base /\ met' = Current.met
    /\ Ends("console")
    /\ UNCHANGED <<answers, saved, activeId, activeConnection, tokenInjected, screen, Web,
                   chosen, taps, moves>>

\* refreshConnectionStatuses(): every connection is resolved, then home again.
Refresh ==
    /\ Going({"refresh"}, "resolve")
    /\ \E found \in [List -> Urls \cup {None}] :
          /\ \A desktop \in List : found[desktop] = None
                                   \/ found[desktop] \in Resolves(desktop, saved[desktop])
          /\ saved' = [desktop \in Desktops |->
                 IF desktop \in List /\ found[desktop] # None
                 THEN Entry(saved[desktop].urls, found[desktop]) ELSE saved[desktop]]
    /\ Ends("home")
    /\ UNCHANGED <<answers, activeId, Fields, screen, Web, chosen, taps, moves, met>>

\* An address goes dead, comes back, or is another desktop's now.
Moves(url) ==
    /\ moves < MaxMoves /\ moves' = moves + 1
    /\ answers' \in [Urls -> Desktops \cup {None}]
    /\ answers'[url] # answers[url]
    /\ \A other \in Urls \ {url} : answers'[other] = answers[other]
    /\ UNCHANGED <<saved, activeId, Fields, executor, posted, screen, Web, chosen, taps, met>>

Next ==
    \/ \E desktop \in Desktops :
          \/ Open(desktop) \/ Delete(desktop)
          \/ \E url \in Urls : AddEndpoint(desktop, url) \/ Pair(desktop, url)
    \/ Home \/ RunPosted
    \/ \E i \in DOMAIN loading : PageFinished(i) \/ PageFails(i)
    \/ PairWithCode \/ Resolve \/ SetActiveConnection \/ SetResolvedBaseUrl \/ Refresh
    \/ \E url \in Urls : Moves(url)

AppSpec == Init /\ [][Next]_appVars

----------------------------------------------------------------------------

TypeOK ==
    /\ activeId \in Desktops \cup {None} /\ activeConnection \in Desktops \cup {None}
    /\ resolvedBaseUrl \in Urls \cup {None} /\ view \in Urls \cup {None}
    /\ screen \in {"home", "setup", "pairing", "offline", "console"}
    /\ \A desktop \in Desktops : saved[desktop].urls \subseteq Urls
    /\ token \in [Urls -> Desktops \cup {None}]
    /\ (screen = "console") = (view # None)

AtRest == executor = <<>> /\ posted = <<>>

\* Once the app has come to rest, the console it shows is at an address of the desktop
\* the user asked for last, however many were opened, paired or deleted on the way; and
\* when its pages are loaded, the token at that address is that desktop's.
ConsoleIsTheChosen ==
    AtRest /\ screen = "console" =>
        /\ activeConnection = chosen /\ view = resolvedBaseUrl /\ met = chosen
        /\ saved[chosen].is = "saved" => view \in saved[chosen].urls
        /\ loading = <<>> => token[view] = chosen

\* "Connecting ..." is not shown for ever: at rest there is an outcome.
NotLeftConnecting == AtRest => screen # "pairing"
=============================================================================
