------------------------------ MODULE Terminals ------------------------------
(***************************************************************************)
(* The terminals: shells that the server runs and numbers the output of    *)
(* (TerminalManager), the event stream of one of them, and the tabs of the *)
(* console, which put together what snapshots and streams bring.           *)
(***************************************************************************)
EXTENDS Naturals, SequencesExt

CONSTANTS
    Terms,      \* terminals
    TermOps,    \* operations of the console that may be under way at a time
    MaxOutput,  \* bound on the events of a terminal
    MaxKept,    \* MAX_EVENTS and TERMINAL_EVENT_LIMIT
    MaxOps, MaxStreams

None == "none"

VARIABLES
    terminal, \* per terminal: its process, is it still known, the next number
    feeds,    \* the EventSources ever made: terminal, position asked for, wire, state
    source,   \* terminalSourceRef: the last one the console has stored, 0 if none
    tabStrip, \* the terminals with a tab, in order; a restart can give one two tabs
    output,   \* the events each tab shows
    front,    \* the active tab
    termOp,   \* per operation under way: what it does, to which terminal, how far it is
    opsMade,
    replaced  \* a list that came late took the place of tabs that were there

terminalVars == <<terminal, feeds, source, tabStrip, output, front, termOp,
    opsMade, replaced>>

Free == [does |-> None, on |-> None, at |-> None, after |-> 0, old |-> None, slot |-> 1,
         events |-> [t \in Terms |-> {}]]

Init ==
    /\ terminal = [t \in Terms |-> [process |-> None, known |-> FALSE, next |-> 1]]
    /\ feeds = <<>>
    /\ source = 0
    /\ tabStrip = <<>>
    /\ output = [t \in Terms |-> {}]
    /\ front = None
    /\ termOp = [o \in TermOps |-> Free]
    /\ opsMade = 0
    /\ replaced = FALSE

-----------------------------------------------------------------------------
\* The last MaxKept of a set of event numbers.
Newest(events) == {s \in events : Cardinality({r \in events : r > s}) < MaxKept}
Kept(t) == Newest(1 .. terminal[t].next - 1)
Latest(events) == IF events = {} THEN 0 ELSE Max(events)
HasTab(t) == \E i \in DOMAIN tabStrip : tabStrip[i] = t
Position(t) == CHOOSE i \in DOMAIN tabStrip : tabStrip[i] = t
Without(t) ==
    LET rest[n \in 0 .. Len(tabStrip)] ==
            IF n = 0 THEN <<>>
            ELSE IF tabStrip[n] = t THEN rest[n - 1] ELSE Append(rest[n - 1], tabStrip[n])
    IN  rest[Len(tabStrip)]
Adding(t) == IF HasTab(t) THEN tabStrip ELSE Append(tabStrip, t)

\* #append: the event is numbered, kept and pushed to the subscribers.
Push(t) ==
    feeds' = [n \in DOMAIN feeds |->
        IF feeds[n].of = t /\ feeds[n].state = "open"
        THEN [feeds[n] EXCEPT !.wire = Append(@, terminal[t].next)] ELSE feeds[n]]
AppendEvent(t) == Push(t) /\ terminal' = [terminal EXCEPT ![t].next = @ + 1]

Hang(n) == [i \in DOMAIN feeds |-> IF i = n THEN [feeds[i] EXCEPT !.state = "gone"]
                                  ELSE feeds[i]]

Console == <<source, tabStrip, output, front, termOp, opsMade, replaced>>

Output(t) ==
    /\ terminal[t].process = "running" /\ terminal[t].next <= MaxOutput
    /\ AppendEvent(t)
    /\ UNCHANGED Console
\* By itself, by the user's exit, by the signals of stop() or because it was removed.
Exit(t) ==
    /\ terminal[t].process = "running"
    /\ terminal' = [terminal EXCEPT ![t].process = "exited", ![t].next = @ + 1]
    /\ Push(t)
    /\ UNCHANGED Console

-----------------------------------------------------------------------------
\* What the server answers to the requests of the operations.
Answer(o, at, events) ==
    termOp' = [termOp EXCEPT ![o] = [@ EXCEPT !.at = at, !.events = events]]
Fail(o) == termOp' = [termOp EXCEPT ![o] = Free]
Only(t, events) == [u \in Terms |-> IF u = t THEN events ELSE {}]

ServeSnapshot(o) ==
    LET t == termOp[o].on
    IN  /\ termOp[o].at = "snapshot"
        /\ \/ terminal[t].known
              /\ Answer(o, "merge", Only(t, {s \in Kept(t) : s > termOp[o].after}))
           \/ ~terminal[t].known /\ Fail(o)
        /\ UNCHANGED <<terminal, feeds, source, tabStrip, output, front, opsMade, replaced>>

ServeCreate(o) ==
    /\ termOp[o].at = "create"
    /\ \E t \in Terms :
           /\ terminal[t].process = None
           /\ terminal' = [terminal EXCEPT ![t] =
                  [process |-> "running", known |-> TRUE, next |-> 2]]
           /\ termOp' = [termOp EXCEPT ![o] =
                  [@ EXCEPT !.at = "created", !.on = t, !.after = 0, !.events = Only(t, {1})]]
    /\ UNCHANGED <<feeds, source, tabStrip, output, front, opsMade, replaced>>

ServeList(o) ==
    LET known == {t \in Terms : terminal[t].known}
    IN  /\ termOp[o].at = "list"
        /\ IF known = {} THEN Answer(o, "create", termOp[o].events)
           ELSE Answer(o, "listed", [t \in Terms |-> IF t \in known THEN Kept(t) ELSE {}])
        /\ UNCHANGED <<terminal, feeds, source, tabStrip, output, front, opsMade, replaced>>

\* remove(): the process is told to stop, the subscribers and the record are gone.
ServeDelete(o) ==
    LET t == termOp[o].on
    IN  /\ termOp[o].at = "delete"
        /\ terminal' = [terminal EXCEPT ![t].known = FALSE]
        /\ feeds' = [n \in DOMAIN feeds |->
               IF feeds[n].of = t /\ feeds[n].state = "open"
               THEN [feeds[n] EXCEPT !.state = "silent"] ELSE feeds[n]]
        /\ Answer(o, "deleted", termOp[o].events)
        /\ UNCHANGED <<source, tabStrip, output, front, opsMade, replaced>>

\* Input for a shell that has exited is answered by an event of its own.
ServeWrite(o) ==
    LET t == termOp[o].on
    IN  /\ termOp[o].at = "write"
        /\ \/ /\ terminal[t].known /\ terminal[t].process = "running"
              /\ Answer(o, "merge", Only(t, Kept(t)))
              /\ UNCHANGED <<terminal, feeds>>
           \/ /\ terminal[t].known /\ terminal[t].process = "exited"
              /\ AppendEvent(t)
              /\ Answer(o, "merge", Only(t, Newest(1 .. terminal[t].next)))
           \/ ~terminal[t].known /\ Fail(o) /\ UNCHANGED <<terminal, feeds>>
        /\ UNCHANGED <<source, tabStrip, output, front, opsMade, replaced>>

\* stop(): SIGTERM, and SIGKILL after two seconds; the console then asks for a
\* snapshot of everything.
ServeStop(o) ==
    /\ termOp[o].at = "stop"
    /\ termOp' = IF terminal[termOp[o].on].known
                 THEN [termOp EXCEPT ![o].at = "snapshot"] ELSE [termOp EXCEPT ![o] = Free]
    /\ UNCHANGED <<terminal, feeds, source, tabStrip, output, front, opsMade, replaced>>

\* Mutant: only the live events.
SubscribeLive(n) ==
    /\ feeds[n].state = "connecting"
    /\ feeds' = [feeds EXCEPT ![n].state = IF terminal[feeds[n].of].known THEN "open" ELSE "gone"]
    /\ UNCHANGED <<terminal, source, tabStrip, output, front, termOp, opsMade, replaced>>

\* subscribe(): what is kept after the position is replayed, in order, then the live
\* events follow.
Replayed(t, after) ==
    LET skipped == IF after + MaxKept < terminal[t].next THEN terminal[t].next - MaxKept - 1
                   ELSE after
    IN  [i \in 1 .. terminal[t].next - 1 - skipped |-> skipped + i]
Subscribe(n) ==
    /\ feeds[n].state = "connecting"
    /\ feeds' = IF terminal[feeds[n].of].known
                THEN [feeds EXCEPT ![n].state = "open",
                                   ![n].wire = Replayed(feeds[n].of, feeds[n].after)]
                ELSE Hang(n)
    /\ UNCHANGED <<terminal, source, tabStrip, output, front, termOp, opsMade, replaced>>

-----------------------------------------------------------------------------
\* The console.  attachTerminalStream closes the stream it knows of and asks for a
\* token; the position is that of the tab then.
Begin(o, does, on, at, after) ==
    termOp' = [termOp EXCEPT ![o] =
        [@ EXCEPT !.does = does, !.on = on, !.at = at, !.after = after]]
CloseSource == feeds' = Hang(source) /\ source' = 0
Attach(o, t, shown) ==
    /\ CloseSource
    /\ Begin(o, termOp[o].does, t, "token", Latest(shown))

\* The user's commands; where the tab is then, is remembered.
Ask(o, does, on, at, after) ==
    /\ termOp[o].at = None /\ opsMade < MaxOps
    /\ opsMade' = opsMade + 1
    /\ termOp' = [termOp EXCEPT ![o] =
           [@ EXCEPT !.does = does, !.on = on, !.at = at, !.after = after,
                     !.slot = IF HasTab(on) THEN Position(on) ELSE 1]]
    /\ UNCHANGED <<terminal, replaced>>
ActivateTerminalTab(o, t) ==
    /\ HasTab(t)
    /\ Ask(o, "activate", t, "snapshot", Latest(output[t]))
    /\ front' = t
    /\ UNCHANGED <<feeds, source, tabStrip, output>>
\* Not while another creation is under way.
CreateTerminalTab(o) ==
    /\ \A p \in TermOps : termOp[p].at \notin {"create", "list"}
    /\ Ask(o, "create", None, "create", 0)
    /\ UNCHANGED <<feeds, source, tabStrip, output, front>>
OpenTerminal(o) ==
    LET t == IF front # None /\ HasTab(front) THEN front ELSE tabStrip[1]
    IN  \/ tabStrip # <<>> /\ ActivateTerminalTab(o, t)
        \/ /\ tabStrip = <<>>
           /\ Ask(o, "create", None, "list", 0)
           /\ UNCHANGED <<feeds, source, tabStrip, output, front>>
CloseTerminalTab(o, t) ==
    /\ HasTab(t)
    /\ Ask(o, "close", t, "delete", 0)
    /\ UNCHANGED <<feeds, source, tabStrip, output, front>>
SendTerminalData(o) ==
    /\ front # None
    /\ Ask(o, "send", front, "write", 0)
    /\ UNCHANGED <<feeds, source, tabStrip, output, front>>
StopTerminal(o) ==
    /\ front # None
    /\ Ask(o, "send", front, "stop", 0)
    /\ UNCHANGED <<feeds, source, tabStrip, output, front>>
RestartTerminal(o) ==
    /\ front # None /\ HasTab(front)
    /\ Ask(o, "restart", front, "delete", 0)
    /\ UNCHANGED <<feeds, source, tabStrip, output, front>>
CloseTerminal ==
    /\ source # 0
    /\ CloseSource
    /\ UNCHANGED <<terminal, tabStrip, output, front, termOp, opsMade, replaced>>

\* upsertTerminalSnapshot: what the tab shows then.
Merged(o) ==
    LET t == termOp[o].on
    IN  Newest((IF HasTab(t) THEN output[t] ELSE {}) \cup termOp[o].events[t])
\* An activation goes on with the stream.
Merge(o) ==
    LET t == termOp[o].on
    IN  /\ termOp[o].at = "merge"
        /\ tabStrip' = Adding(t)
        /\ output' = [output EXCEPT ![t] = Merged(o)]
        /\ IF termOp[o].does = "activate" THEN Attach(o, t, Merged(o))
           ELSE Fail(o) /\ UNCHANGED <<feeds, source>>
        /\ UNCHANGED <<terminal, front, opsMade, replaced>>
\* A new tab, or one in the place of the old terminal.
Created(o) ==
    LET t == termOp[o].on
        rest == Without(termOp[o].old)
    IN  /\ termOp[o].at = "created"
        /\ tabStrip' = IF termOp[o].does = "create" THEN Adding(t)
                       ELSE InsertAt(rest, Min({termOp[o].slot, Len(rest) + 1}), t)
        /\ output' = [output EXCEPT ![t] = Merged(o)]
        /\ front' = t
        /\ Attach(o, t, Merged(o))
        /\ UNCHANGED <<terminal, opsMade, replaced>>
\* The terminals that were there when the console was opened take the place of the
\* tabs.
Listed(o) ==
    LET known == {t \in Terms : termOp[o].events[t] # {}}
        t == CHOOSE x \in known : TRUE
    IN  /\ termOp[o].at = "listed"
        /\ tabStrip' = SetToSeq(known)
        /\ output' = [u \in Terms |-> termOp[o].events[u]]
        /\ front' = t
        /\ Attach(o, t, termOp[o].events[t])
        /\ replaced' = (replaced \/ tabStrip # <<>>)
        /\ UNCHANGED <<terminal, opsMade>>
\* closeTerminalTab goes on with the tab that takes its place, restartTerminal with a
\* new terminal.
Deleted(o) ==
    LET t == termOp[o].on
        rest == Without(t)
        next == IF rest = <<>> THEN None ELSE rest[Min({termOp[o].slot, Len(rest)})]
    IN  /\ termOp[o].at = "deleted"
        /\ \/ /\ termOp[o].does = "restart"
              /\ CloseSource
              /\ termOp' = [termOp EXCEPT ![o] = [@ EXCEPT !.at = "create", !.old = t]]
              /\ UNCHANGED <<tabStrip, front>>
           \/ /\ termOp[o].does = "close" /\ front # t
              /\ tabStrip' = rest
              /\ Fail(o)
              /\ UNCHANGED <<feeds, source, front>>
           \/ /\ termOp[o].does = "close" /\ front = t
              /\ tabStrip' = rest
              /\ CloseSource
              /\ front' = next
              /\ IF next = None THEN Fail(o)
                 ELSE Begin(o, "activate", next, "snapshot", Latest(output[next]))
        /\ UNCHANGED <<terminal, output, opsMade, replaced>>
\* The new stream is stored over the one that is stored now, which is not closed.
TokenArrives(o) ==
    /\ termOp[o].at = "token" /\ Len(feeds) < MaxStreams
    /\ feeds' = Append(feeds, [of |-> termOp[o].on, after |-> termOp[o].after,
                              state |-> "connecting", wire |-> <<>>])
    /\ source' = Len(feeds) + 1
    /\ Fail(o)
    /\ UNCHANGED <<terminal, tabStrip, output, front, opsMade, replaced>>
\* appendTerminalEvents.
Deliver(n) ==
    LET t == feeds[n].of
    IN  /\ feeds[n].state \in {"open", "silent"} /\ feeds[n].wire # <<>>
        /\ feeds' = [feeds EXCEPT ![n].wire = Tail(@)]
        /\ output' = IF HasTab(t)
                     THEN [output EXCEPT ![t] = Newest(@ \cup {Head(feeds[n].wire)})]
                     ELSE output
        /\ UNCHANGED <<terminal, source, tabStrip, front, termOp, opsMade, replaced>>
\* The connection breaks; its token is used up, so it stays broken until the tab is
\* activated again.
Disconnect(n) ==
    /\ feeds[n].state \in {"connecting", "open", "silent"}
    /\ feeds' = Hang(n)
    /\ UNCHANGED <<terminal, Console>>

Next ==
    \/ \E t \in Terms : Output(t) \/ Exit(t)
    \/ \E o \in TermOps :
           \/ ServeSnapshot(o) \/ ServeCreate(o) \/ ServeList(o) \/ ServeDelete(o)
           \/ ServeWrite(o) \/ ServeStop(o)
           \/ \E t \in Terms : ActivateTerminalTab(o, t) \/ CloseTerminalTab(o, t)
           \/ CreateTerminalTab(o) \/ OpenTerminal(o) \/ SendTerminalData(o)
           \/ StopTerminal(o) \/ RestartTerminal(o)
           \/ Merge(o) \/ Created(o) \/ Listed(o) \/ Deleted(o) \/ TokenArrives(o)
    \/ CloseTerminal
    \/ \E n \in DOMAIN feeds : Subscribe(n) \/ Deliver(n) \/ Disconnect(n)

-----------------------------------------------------------------------------
TypeOK ==
    /\ \A t \in Terms : /\ terminal[t].process \in {None, "running", "exited"}
                        /\ terminal[t].next \in 1 .. MaxOutput + MaxOps + 2
    /\ source \in 0 .. Len(feeds)
    /\ Range(tabStrip) \subseteq Terms
    /\ output \in [Terms -> SUBSET (1 .. MaxOutput + MaxOps + 2)]
    /\ front \in Terms \cup {None}

\* What a tab shows of its terminal has no hole, except for what the server did not
\* keep: whatever snapshots and streams overlap, break or come late
\* (attachTerminalStream, upsertTerminalSnapshot, TerminalManager.subscribe).
ShownWithoutHoles ==
    \A t \in {x \in Terms : HasTab(x) /\ terminal[x].known} :
        \A s \in 1 .. Latest(output[t]) :
            s \in output[t] \/ s + MaxKept < terminal[t].next \/ replaced
=============================================================================
