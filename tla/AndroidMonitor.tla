----------------------------- MODULE AndroidMonitor -----------------------------
(***************************************************************************)
(* The connection monitor of the Android app (ConnectionMonitorService):   *)
(* a thread follows the event stream and shows notifications, another      *)
(* probes the gateway every 20 s; both, and the user, write the whole       *)
(* connection record of ConnectionStore, which keeps the two positions.    *)
(***************************************************************************)
EXTENDS Naturals, Sequences, FiniteSets

CONSTANTS MaxLog,   \* bound on events
          MaxKills  \* bound on kills of the app's process

VARIABLES
    log,      \* the kind of each event of the gateway: "reply", "muted" or "other"
    store,    \* the connection record: [event, notified], or Deleted
    disk,     \* what of it has reached the disk: apply() writes later
    health,   \* the copy that the health thread resolves, or Nothing
    loop,     \* the event thread: its place and its copy
    feed,     \* events written to its stream and not read
    handling, \* the event being handled, after its position was saved; 0 for none
    shown,    \* the events that were notified
    cutOff,   \* events being handled when the process was killed
    kills

monitorVars == <<log, store, disk, health, loop, feed, handling, shown, cutOff, kills>>

Nothing == [event |-> 0, notified |-> 0, is |-> "nothing"]
Deleted == [event |-> 0, notified |-> 0, is |-> "deleted"]
Fresh == [event |-> 0, notified |-> 0, is |-> "saved"]
AtStart == [at |-> "start", copy |-> Nothing]

Larger(a, b) == IF a > b THEN a ELSE b
Cursor(c) == Larger(c.event, c.notified)

Init ==
    /\ log = <<>> /\ store = Fresh /\ disk = Fresh
    /\ health = Nothing /\ loop = AtStart /\ feed = <<>> /\ handling = 0
    /\ shown = {} /\ cutOff = {} /\ kills = 0

\* The gateway publishes an event.
Emit(kind) ==
    /\ Len(log) < MaxLog
    /\ log' = Append(log, kind)
    /\ feed' = IF loop.at = "open" THEN Append(feed, Len(log) + 1) ELSE feed
    /\ UNCHANGED <<store, disk, health, loop, handling, shown, cutOff, kills>>

\* pollHealth(): the record is read ...
HealthReads ==
    /\ health = Nothing /\ store # Deleted
    /\ health' = store
    /\ UNCHANGED <<log, store, disk, loop, feed, handling, shown, cutOff, kills>>

\* ... and written after the probes, with its status, whatever was saved
\* meanwhile: upsert() adds a record that is gone.
HealthWrites ==
    /\ health # Nothing
    /\ store' = health /\ health' = Nothing
    /\ UNCHANGED <<log, disk, loop, feed, handling, shown, cutOff, kills>>

\* runEventLoop(): the same resolve() ...
LoopReads ==
    /\ loop.at = "start" /\ store # Deleted
    /\ loop' = [at |-> "resolve", copy |-> store]
    /\ UNCHANGED <<log, store, disk, health, feed, handling, shown, cutOff, kills>>

\* ... which may find no gateway.
LoopResolves ==
    /\ loop.at = "resolve"
    /\ store' = loop.copy
    /\ loop' \in {AtStart, [at |-> "listen", copy |-> loop.copy]}
    /\ UNCHANGED <<log, disk, health, feed, handling, shown, cutOff, kills>>

ReplayFrom(c) == [i \in 1..(Len(log) - c) |-> c + i]

\* Mutant: the stream is opened for the future only.
ListenLive ==
    /\ loop.at = "listen"
    /\ feed' = <<>>
    /\ loop' = [at |-> "open", copy |-> Nothing]
    /\ UNCHANGED <<log, store, disk, health, handling, shown, cutOff, kills>>

\* listenForEvents(): the stream is opened at the record saved now, or at the
\* one resolved when the user has deleted it.
Listen ==
    /\ loop.at = "listen"
    /\ feed' = ReplayFrom(Cursor(IF store = Deleted THEN loop.copy ELSE store))
    /\ loop' = [at |-> "open", copy |-> Nothing]
    /\ UNCHANGED <<log, store, disk, health, handling, shown, cutOff, kills>>

\* The stream ends, or fails, or could not be opened.
StreamEnds ==
    /\ loop.at \in {"listen", "open"} /\ handling = 0
    /\ loop' = AtStart /\ feed' = <<>>
    /\ UNCHANGED <<log, store, disk, health, handling, shown, cutOff, kills>>

\* handleSseEvent() saves the position of the event; a stream whose connection
\* is no longer the active one ends instead (listenForEvents() looks before each
\* line).
SavePosition ==
    /\ feed # <<>> /\ handling = 0 /\ store # Deleted
    /\ LET c == [store EXCEPT !.event = Larger(@, Head(feed))]
       IN  /\ store' = c /\ loop' = [loop EXCEPT !.copy = c]
           /\ handling' = Head(feed) /\ feed' = Tail(feed)
    /\ UNCHANGED <<log, disk, health, shown, cutOff, kills>>

\* shouldNotify() and the notification, with the copy just saved.
Notify ==
    /\ handling # 0
    /\ LET c == loop.copy
           new == log[handling] # "other" /\ handling > c.notified
       IN  /\ store' = IF new THEN [c EXCEPT !.notified = handling] ELSE store
           /\ shown' = IF new /\ log[handling] = "reply"
                       THEN shown \cup {handling} ELSE shown
    /\ handling' = 0 /\ loop' = [loop EXCEPT !.copy = Nothing]
    /\ UNCHANGED <<log, disk, health, feed, cutOff, kills>>

\* The user deletes the connection.
Delete ==
    /\ store # Deleted
    /\ store' = Deleted
    /\ UNCHANGED <<log, disk, health, loop, feed, handling, shown, cutOff, kills>>

\* SharedPreferences.apply() reaches the disk.
Flush ==
    /\ disk # store
    /\ disk' = store
    /\ UNCHANGED <<log, store, health, loop, feed, handling, shown, cutOff, kills>>

\* The process is killed and the sticky service starts again.
Kill ==
    /\ kills < MaxKills /\ kills' = kills + 1
    /\ store' = disk
    /\ cutOff' = cutOff \cup ({handling} \ {0})
    /\ health' = Nothing /\ loop' = AtStart /\ feed' = <<>> /\ handling' = 0
    /\ UNCHANGED <<log, disk, shown>>

Next ==
    \/ \E kind \in {"reply", "muted", "other"} : Emit(kind)
    \/ HealthReads \/ HealthWrites
    \/ LoopReads \/ LoopResolves \/ Listen \/ StreamEnds
    \/ SavePosition \/ Notify
    \/ Delete \/ Flush \/ Kill

Spec == Init /\ [][Next]_monitorVars

-----------------------------------------------------------------------------
(* Properties.                                                             *)

\* ConnectionStore is written whole by both threads, and comes back from the
\* disk as it was some time ago: the position of the monitor may go back, so
\* that a reply is notified again, but it never passes a reply that was not
\* notified, except the one at work when the process was killed.
NoReplyIsPassed ==
    \A e \in 1..Len(log) :
        log[e] = "reply" /\ e \notin shown /\ e \notin cutOff /\ e # handling
            => Cursor(store) < e
=============================================================================
