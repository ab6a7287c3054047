------------------------------- MODULE WebConsole -------------------------------
(***************************************************************************)
(* The web console and the event stream it lives on: HttpGateway           *)
(* broadcasts every event, a new stream first replays what came after the  *)
(* client's cursor, and the console (App.tsx) merges streamed events with  *)
(* the threads it fetches when a session is selected or is running.        *)
(***************************************************************************)
EXTENDS Naturals, Sequences, SequencesExt, FiniteSets, FiniteSetsExt

CONSTANTS Sessions,  \* sessions
          MaxEvents, \* bound on events
          MaxFetches,\* bound on fetches under way at once
          MaxBreaks  \* bound on broken streams

VARIABLES
    elog,     \* the session of each event; an event is its seq, a position here
    stream,   \* the EventSource: "closed", "opening" or "open", and its cursor parameter
    wire,     \* events written to the stream and not received
    seen,     \* events the open stream delivered, in order
    cursor,   \* cursorRef
    selected, \* selectedIdRef
    thread,   \* the events shown
    got,      \* the events any stream or fetch brought so far
    fetches,  \* fetches under way, oldest first
    readSeq,  \* readSeqRef, the read marks
    breaks

consoleVars == <<elog, stream, wire, seen, cursor, selected, thread, got, fetches, readSeq, breaks>>

Closed == [at |-> "closed", from |-> 0]

EventsOf(s) == {i \in DOMAIN elog : elog[i] = s}
Top(S) == IF S = {} THEN 0 ELSE Max(S)
Larger(a, b) == IF a > b THEN a ELSE b

Init ==
    /\ elog = <<>> /\ stream = Closed /\ wire = <<>> /\ seen = <<>> /\ cursor = 0
    /\ selected \in Sessions /\ thread = {}
    /\ got = {} /\ fetches = <<>>
    /\ readSeq = [s \in Sessions |-> 0]
    /\ breaks = 0

-----------------------------------------------------------------------------
(* The gateway.                                                            *)

\* HttpGateway#broadcast: an event reaches the clients registered then.
Publish(s) ==
    /\ Len(elog) < MaxEvents
    /\ elog' = Append(elog, s)
    /\ wire' = IF stream.at = "open" THEN Append(wire, Len(elog) + 1) ELSE wire
    /\ UNCHANGED <<stream, seen, cursor, selected, thread, got, fetches, readSeq, breaks>>

\* replayEvents(): everything after the cursor, in the order of seq.
Replay(from) == [i \in 1..(Len(elog) - from) |-> from + i]

\* Mutant: the client is registered and gets the future only.
HandleSseLive ==
    /\ stream.at = "opening"
    /\ wire' = <<>>
    /\ stream' = [stream EXCEPT !.at = "open"]
    /\ UNCHANGED <<elog, seen, cursor, selected, thread, got, fetches, readSeq, breaks>>

\* handleSse: the replay and the registration are one step of the server.
HandleSse ==
    /\ stream.at = "opening"
    /\ wire' = Replay(stream.from)
    /\ stream' = [stream EXCEPT !.at = "open"]
    /\ UNCHANGED <<elog, seen, cursor, selected, thread, got, fetches, readSeq, breaks>>

-----------------------------------------------------------------------------
(* The console.                                                            *)

\* markSessionRead()
MarkRead(s, seq) == readSeq' = [readSeq EXCEPT ![s] = Larger(@, seq)]

\* connect(), with the cursor of that moment.
Connect ==
    /\ stream.at = "closed"
    /\ stream' = [at |-> "opening", from |-> cursor] /\ seen' = <<>>
    /\ UNCHANGED <<elog, wire, cursor, selected, thread, got, fetches, readSeq, breaks>>

\* onerror: what is on the wire is lost, a reconnect follows.
Break ==
    /\ stream.at # "closed" /\ breaks < MaxBreaks
    /\ breaks' = breaks + 1
    /\ stream' = Closed /\ wire' = <<>> /\ seen' = <<>>
    /\ UNCHANGED <<elog, cursor, selected, thread, got, fetches, readSeq>>

\* The session_event listener.
Receive ==
    /\ wire # <<>>
    /\ LET e == Head(wire) IN
       /\ wire' = Tail(wire) /\ seen' = Append(seen, e)
       /\ cursor' = Larger(cursor, e) /\ got' = got \cup {e}
       /\ IF elog[e] = selected
          THEN thread' = thread \cup {e} /\ MarkRead(selected, e)
          ELSE UNCHANGED <<thread, readSeq>>
    /\ UNCHANGED <<elog, stream, selected, fetches, breaks>>

Fetch(kind, s, from) ==
    fetches' = Append(fetches, [kind |-> kind, session |-> s, from |-> from,
                                events |-> {}, done |-> FALSE])

\* The user opens a session: loadThread() asks for its events.
Select(s) ==
    /\ s # selected /\ Len(fetches) < MaxFetches
    /\ selected' = s /\ Fetch("load", s, 0)
    /\ UNCHANGED <<elog, stream, wire, seen, cursor, thread, got, readSeq, breaks>>

\* reconcileRunningSessions(): every 2.5 s while a session runs, it asks for
\* what comes after the last event shown.
Reconcile ==
    /\ Len(fetches) < MaxFetches
    /\ Fetch("reconcile", selected, Top(thread))
    /\ UNCHANGED <<elog, stream, wire, seen, cursor, selected, thread, got, readSeq, breaks>>

\* The server answers a fetch, with what the thread has then.
Answer(i) ==
    /\ i \in DOMAIN fetches /\ ~fetches[i].done
    /\ fetches' = [fetches EXCEPT ![i].done = TRUE,
                      ![i].events = {e \in EventsOf(fetches[i].session) : e > fetches[i].from}]
    /\ UNCHANGED <<elog, stream, wire, seen, cursor, selected, thread, got, readSeq, breaks>>

\* The console applies an answer, in whatever order the answers come in: a load
\* replaces the events shown, a reconcile merges into them.
Apply(i) ==
    /\ i \in DOMAIN fetches /\ fetches[i].done
    /\ fetches' = RemoveAt(fetches, i)
    /\ got' = got \cup fetches[i].events
    /\ LET f == fetches[i]
           new == IF f.kind = "load" THEN f.events ELSE thread \cup f.events
       IN  IF f.kind = "reconcile" /\ f.events = {}
           THEN UNCHANGED <<thread, cursor, readSeq>>
           ELSE /\ thread' = new
                /\ cursor' = Larger(cursor, Top(f.events))
                /\ MarkRead(f.session, Top(f.events))
    /\ UNCHANGED <<elog, stream, wire, seen, selected, breaks>>

Next ==
    \/ \E s \in Sessions : Publish(s)
    \/ HandleSse
    \/ Connect
    \/ Break
    \/ Receive
    \/ \E s \in Sessions : Select(s)
    \/ Reconcile
    \/ \E i \in 1..MaxFetches : Answer(i)
    \/ \E i \in 1..MaxFetches : Apply(i)

Spec == Init /\ [][Next]_consoleVars

-----------------------------------------------------------------------------
(* Properties.                                                             *)

\* "/events": while a stream is open, what it delivered and what is under way
\* are all the events after its cursor, in order, once each: none falls between
\* the replay and the live events, whenever the client connected.
StreamHasNoGap ==
    stream.at = "open" =>
        seen \o wire = [i \in 1..(Len(elog) - stream.from) |-> stream.from + i]

\* docs: the cursor replay fills the gap of a lost connection.  Once the replay
\* has been delivered and nothing is being fetched, every event has reached the
\* console, by a stream or with the thread of its session.
\* The code does not satisfy it, and no run checks it: README, Deviations.
ReplayFillsTheGap ==
    stream.at = "open" /\ wire = <<>> /\ fetches = <<>> => got = DOMAIN elog
=============================================================================
