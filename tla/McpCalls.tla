------------------------------- MODULE McpCalls -------------------------------
(***************************************************************************)
(* Tool calls on one MCP server (McpRuntimeManager): they queue up unless  *)
(* the server takes parallel calls, connect on demand, and the server may  *)
(* ask the user (elicitation) or the model (sampling) while it works.      *)
(***************************************************************************)
EXTENDS Sequences

CONSTANTS CallIds,     \* tool calls
          Interactive, \* those whose turn a user watches
          Parallel     \* supportsParallelToolCalls

VARIABLES
    connected, \* entry.state = "connected"
    callAt,    \* each call: "new", "queued", "connect", "running", "ok" or "error"
    callQueue, \* calls chained in entry.callQueue and not ended
    active,    \* entry.activeCall
    working,   \* the calls that the server works on, those the client gave up on included
    elicited,  \* the elicitation in the session of each call: "none", "pending" or "settled"
    asker      \* the call that it was asked for, or Itself

callVars == <<connected, callAt, callQueue, active, working, elicited, asker>>

NoCall == "none"
\* A question the server asks on its own account, or while it reads a resource.
Itself == "server"

Init ==
    /\ connected \in BOOLEAN
    /\ callAt = [k \in CallIds |-> "new"] /\ callQueue = <<>>
    /\ active = NoCall
    /\ working = {}
    /\ elicited = [k \in CallIds |-> "none"]
    /\ asker = [k \in CallIds |-> Itself]

\* callTool() and #enqueueServerCall(): previous.then(fn, fn), or fn() at once.
CallTool(k) ==
    /\ callAt[k] = "new"
    /\ callAt' = [callAt EXCEPT ![k] = "queued"]
    /\ callQueue' = IF Parallel THEN callQueue ELSE Append(callQueue, k)
    /\ UNCHANGED <<connected, active, working, elicited, asker>>

\* Mutant: calls do not wait for each other.
TurnAlways(k) == TRUE

Turn(k) == Parallel \/ Head(callQueue) = k

\* The request goes to the server.
Send(k) ==
    /\ callAt' = [callAt EXCEPT ![k] = "running"]
    /\ active' = k
    /\ working' = working \cup {k}

\* #ensureConnected() finds the server connected, and the call is sent.
Run(k) ==
    /\ callAt[k] = "queued" /\ Turn(k) /\ connected
    /\ Send(k)
    /\ UNCHANGED <<connected, callQueue, elicited, asker>>

\* It connects first.
EnsureConnected(k) ==
    /\ callAt[k] = "queued" /\ Turn(k) /\ ~connected
    /\ callAt' = [callAt EXCEPT ![k] = "connect"]
    /\ UNCHANGED <<connected, callQueue, active, working, elicited, asker>>

\* The end of a call, with a result or an error: the finally block clears
\* activeCall, and the next call of the chain goes on in either case.
End(k, how) ==
    /\ callAt' = [callAt EXCEPT ![k] = how]
    /\ callQueue' = IF Parallel THEN callQueue ELSE Tail(callQueue)
    /\ active' = NoCall

ConnectEnds(k) ==
    /\ callAt[k] = "connect"
    /\ \/ connected' = TRUE /\ Send(k) /\ UNCHANGED callQueue
       \/ End(k, "error") /\ UNCHANGED <<connected, working>>
    /\ UNCHANGED <<elicited, asker>>

\* The server answers, with a result or an error; or the client gives up, at the
\* timeout or an abort or without the connection, and the server may go on.
CallEnds(k) ==
    /\ callAt[k] = "running"
    /\ \/ /\ k \in working /\ working' = working \ {k}
          /\ \/ End(k, "ok")
             \/ End(k, "error")
       \/ End(k, "error") /\ UNCHANGED working
    /\ UNCHANGED <<connected, elicited, asker>>

\* The server has done what nobody waits for any more.
ServerEnds(k) ==
    /\ k \in working /\ callAt[k] # "running"
    /\ working' = working \ {k}
    /\ UNCHANGED <<connected, callAt, callQueue, active, elicited, asker>>

\* #handleElicitation(): the question goes to the session of the active call, one at most
\* here, whatever call it is asked for; it is declined when nobody watches that session.
Elicit ==
    /\ connected /\ active \in Interactive \ {NoCall} /\ elicited[active] = "none"
    /\ elicited' = [elicited EXCEPT ![active] = "pending"]
    /\ \E k \in working \cup {Itself} : asker' = [asker EXCEPT ![active] = k]
    /\ UNCHANGED <<connected, callAt, callQueue, active, working>>

\* #resolveElicitation(): the user's answer, the server's completion or the
\* timer, which outlives the call.
ResolveElicitation(k) ==
    /\ elicited[k] = "pending"
    /\ elicited' = [elicited EXCEPT ![k] = "settled"]
    /\ UNCHANGED <<connected, callAt, callQueue, active, working, asker>>

\* The connection comes and goes for other reasons (McpConnection).  What the server
\* did for one that is gone cannot ask over the next.
ConnectionChanges ==
    /\ connected' = ~connected /\ working' = {}
    /\ UNCHANGED <<callAt, callQueue, active, elicited, asker>>

Next ==
    \/ \E k \in CallIds : CallTool(k)
    \/ \E k \in CallIds : Run(k)
    \/ \E k \in CallIds : EnsureConnected(k)
    \/ \E k \in CallIds : ConnectEnds(k)
    \/ \E k \in CallIds : CallEnds(k)
    \/ \E k \in CallIds : ServerEnds(k)
    \/ Elicit
    \/ \E k \in CallIds : ResolveElicitation(k)
    \/ ConnectionChanges

Spec == Init /\ [][Next]_callVars

\* Promises go on, connects and calls time out; the chain lets one call move.
Progress ==
    \E k \in CallIds : Run(k) \/ EnsureConnected(k) \/ ConnectEnds(k) \/ CallEnds(k)

CallFairness == WF_callVars(Progress)

-----------------------------------------------------------------------------
(* Properties.                                                             *)

\* #handleElicitation() finds the session by entry.activeCall: what a server without
\* parallel calls asks for a call reaches the user of that call, at no time the user of a
\* call before or after it; except for a call that failed to the client, which it gave
\* up on while the server went on.
AsksItsCaller ==
    \A x \in CallIds : elicited[x] # "none" =>
        asker[x] \in {x, Itself} \/ callAt[asker[x]] = "error"

\* What is asked for a call never reaches another session.  The code does not satisfy it,
\* and no run checks it: README, Deviations.
AsksNobodyElse == \A x \in CallIds : elicited[x] # "none" => asker[x] \in {x, Itself}

\* #enqueueServerCall(): no call is queued or under way.  With []<>: a call that
\* fails to connect, or ends with an error, does not hold up the calls chained
\* behind it.  Each is made once.
NoCallWaits == \A k \in CallIds : callAt[k] \in {"new", "ok", "error"}
=============================================================================
