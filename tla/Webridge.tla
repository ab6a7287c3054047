------------------------------- MODULE Webridge -------------------------------
(***************************************************************************)
(* The browser bridge: WebridgeRuntime in the gateway queues commands for  *)
(* Chrome extensions, each of which polls for one, executes it and submits *)
(* the result.  Commands time out, connections break, Chrome suspends and  *)
(* revives the extension, and the gateway restarts.                        *)
(***************************************************************************)
EXTENDS Naturals, Sequences, SequencesExt, FiniteSets

CONSTANTS Clients,   \* extensions
          Commands   \* commands, 1..n, sent in this order

VARIABLES
    known,    \* registered clients, most recently seen first
    age,      \* how long ago a client was seen
    queue,    \* #queues, commands of a client not handed out
    waiters,  \* #waiters, long polls: the client and the poll's number
    waiting,  \* #pending, commands whose sender waits
    outcome,  \* what the sender of a command got
    ext,      \* each extension
    done,     \* what the extensions executed, in order
    closed,   \* #closed
    polls     \* number of polls so far

vars == <<known, age, queue, waiters, waiting, outcome, ext, done, closed, polls>>

CONSTANT MaxPolls \* bound on polls

Idle == [at |-> "idle", poll |-> 0, cmd |-> 0]

Init ==
    /\ known = <<>> /\ age = [e \in Clients |-> "fresh"]
    /\ queue = [e \in Clients |-> <<>>] /\ waiters = <<>>
    /\ waiting = {} /\ outcome = [c \in Commands |-> "none"]
    /\ ext = [e \in Clients |-> Idle] /\ done = <<>>
    /\ closed = FALSE /\ polls = 0

-----------------------------------------------------------------------------
(* The runtime.                                                            *)

HasLongPoll(e) == \E i \in DOMAIN waiters : waiters[i].client = e

\* #clientHealth()
Health(e) == IF HasLongPoll(e) \/ age[e] = "fresh" THEN "online"
             ELSE IF age[e] = "stale" THEN "stale" ELSE "offline"

\* registerClient() and #touch()
Touch(e) ==
    /\ known' = <<e>> \o SelectSeq(known, LAMBDA x : x # e)
    /\ age' = [age EXCEPT ![e] = "fresh"]

\* #selectClient(): the most recently seen client that is not offline.
SelectClient == SelectSeq(known, LAMBDA e : Health(e) # "offline")

\* What an extension does with the answer to poll p; a poll it no longer waits
\* for is answered into nothing.
Hand(e, p, c) ==
    IF ext[e].at = "poll" /\ ext[e].poll = p
    THEN [ext EXCEPT ![e] = IF c = 0 THEN Idle ELSE [at |-> "run", poll |-> 0, cmd |-> c]]
    ELSE ext

\* Mutant: a command is queued and the poll is left to its timeout.
NotifyNobody(e, q) ==
    /\ queue' = [queue EXCEPT ![e] = q]
    /\ UNCHANGED <<waiters, ext>>

\* #notifyWaiter(): the oldest poll of the client takes the head of its queue.
NotifyWaiter(e, q) ==
    LET mine == {i \in DOMAIN waiters : waiters[i].client = e}
        i == CHOOSE k \in mine : \A m \in mine : k <= m
    IN  IF mine = {}
        THEN queue' = [queue EXCEPT ![e] = q] /\ UNCHANGED <<waiters, ext>>
        ELSE /\ queue' = [queue EXCEPT ![e] = Tail(q)]
             /\ waiters' = RemoveAt(waiters, i)
             /\ ext' = Hand(e, waiters[i].poll, Head(q))

\* #send(): a browser tool sends its command and waits; with no client that is
\* not offline it fails at once.
Send(c) ==
    /\ outcome[c] = "none" /\ c \notin waiting
    /\ \A k \in Commands : k < c => k \in waiting \/ outcome[k] # "none"
    /\ IF closed \/ SelectClient = <<>>
       THEN /\ outcome' = [outcome EXCEPT ![c] = "failed"]
            /\ UNCHANGED <<queue, waiters, ext, waiting>>
       ELSE LET e == Head(SelectClient)
            IN  /\ waiting' = waiting \cup {c}
                /\ NotifyWaiter(e, Append(queue[e], c))
                /\ UNCHANGED outcome
    /\ UNCHANGED <<known, age, done, closed, polls>>

\* Mutant: a late result overwrites what the sender was told.
SettleLate(c, result) ==
    /\ waiting' = waiting \ {c}
    /\ outcome' = [outcome EXCEPT ![c] = result]

\* Settling a command: only one that is waited for.
Settle(c, result) ==
    /\ waiting' = waiting \ {c}
    /\ outcome' = IF c \in waiting THEN [outcome EXCEPT ![c] = result] ELSE outcome

\* The timer of a command; the command stays in its queue.
CommandTimesOut(c) ==
    /\ c \in waiting
    /\ Settle(c, "timeout")
    /\ UNCHANGED <<known, age, queue, waiters, ext, done, closed, polls>>

\* The timer of a long poll answers it with nothing.
PollTimesOut(i) ==
    /\ i \in DOMAIN waiters
    /\ waiters' = RemoveAt(waiters, i)
    /\ ext' = Hand(waiters[i].client, waiters[i].poll, 0)
    /\ UNCHANGED <<known, age, queue, waiting, outcome, done, closed, polls>>

\* shutdown()
Shutdown ==
    /\ ~closed /\ closed' = TRUE
    /\ waiters' = <<>> /\ waiting' = {}
    /\ queue' = [e \in Clients |-> <<>>]
    /\ outcome' = [c \in Commands |-> IF c \in waiting THEN "failed" ELSE outcome[c]]
    /\ ext' = [e \in Clients |-> IF ext[e].at = "poll" THEN Idle ELSE ext[e]]
    /\ UNCHANGED <<known, age, done, polls>>

\* A new gateway process knows no client; what the old one's senders waited
\* for was rejected at its shutdown.
GatewayRestarts ==
    /\ closed /\ closed' = FALSE
    /\ known' = <<>>
    /\ UNCHANGED <<age, queue, waiters, waiting, outcome, ext, done, polls>>

\* Time passes for a client that is not heard of.
ClientAges(e) ==
    /\ age[e] # "old"
    /\ age' = [age EXCEPT ![e] = IF @ = "fresh" THEN "stale" ELSE "old"]
    /\ UNCHANGED <<known, queue, waiters, waiting, outcome, ext, done, closed, polls>>

-----------------------------------------------------------------------------
(* The extension: startPolling() repeats register, heartbeat, poll, execute, *)
(* submit.  Registration and heartbeat only touch, as the poll does.        *)

Poll(e) ==
    /\ ext[e].at = "idle" /\ ~closed /\ polls < MaxPolls
    /\ polls' = polls + 1
    /\ Touch(e)
    /\ IF queue[e] # <<>>
       THEN /\ queue' = [queue EXCEPT ![e] = Tail(@)]
            /\ ext' = [ext EXCEPT ![e] = [at |-> "run", poll |-> 0, cmd |-> Head(queue[e])]]
            /\ UNCHANGED waiters
       ELSE /\ waiters' = Append(waiters, [client |-> e, poll |-> polls + 1])
            /\ ext' = [ext EXCEPT ![e] = [at |-> "poll", poll |-> polls + 1, cmd |-> 0]]
            /\ UNCHANGED queue
    /\ UNCHANGED <<waiting, outcome, done, closed>>

\* executeCommand()
Execute(e) ==
    /\ ext[e].at = "run"
    /\ done' = Append(done, ext[e].cmd)
    /\ ext' = [ext EXCEPT ![e].at = "report"]
    /\ UNCHANGED <<known, age, queue, waiters, waiting, outcome, closed, polls>>

\* executeAndSubmit(): the result reaches submitResult(), which a gateway that
\* does not know the client refuses.  If the answer to a success is lost, the
\* same command is submitted once more, as a failure.
Submit(e) ==
    /\ ext[e].at \in {"report", "again"} /\ ~closed
    /\ \/ /\ e \in Range(known)
          /\ Touch(e)
          /\ Settle(ext[e].cmd, IF ext[e].at = "report" THEN "ok" ELSE "failed")
          /\ \/ ext' = [ext EXCEPT ![e] = Idle]
             \/ ext[e].at = "report" /\ ext' = [ext EXCEPT ![e].at = "again"]
       \/ /\ e \notin Range(known)
          /\ ext' = [ext EXCEPT ![e] = IF ext[e].at = "report" THEN [@ EXCEPT !.at = "again"] ELSE Idle]
          /\ UNCHANGED <<known, age, waiting, outcome>>
    /\ UNCHANGED <<queue, waiters, done, closed, polls>>

\* The connection breaks or Chrome suspends the extension: its poll, or the
\* result it has, is lost; the gateway is not told.
Drop(e) ==
    /\ ext[e].at # "idle"
    /\ ext' = [ext EXCEPT ![e] = Idle]
    /\ UNCHANGED <<known, age, queue, waiters, waiting, outcome, done, closed, polls>>

Next ==
    \/ \E c \in Commands : Send(c)
    \/ \E c \in Commands : CommandTimesOut(c)
    \/ \E i \in 1..MaxPolls : PollTimesOut(i)
    \/ Shutdown
    \/ GatewayRestarts
    \/ \E e \in Clients : ClientAges(e)
    \/ \E e \in Clients : Poll(e)
    \/ \E e \in Clients : Execute(e)
    \/ \E e \in Clients : Submit(e)
    \/ \E e \in Clients : Drop(e)

Spec == Init /\ [][Next]_vars

-----------------------------------------------------------------------------
(* Properties.                                                             *)

\* WebridgeRuntime: no command waits in the queue of a client that waits for
\* a command, whatever polls were broken and answered late.
NobodyWaitsInVain ==
    \A e \in Clients : HasLongPoll(e) => queue[e] = <<>>

\* Commands race with their timeouts, lost polls, resubmitted results and
\* restarts: a command is executed at most once; its sender is told one
\* outcome, and told "ok" only of a command that was executed.
CommandsSettleOnce ==
    [][/\ \A c \in Commands : outcome[c] # "none" => outcome'[c] = outcome[c]
       /\ \A c \in Commands : outcome'[c] = "ok" => c \in Range(done)
       /\ IsInjective(done')]_vars
=============================================================================
