------------------------------ MODULE ModelCalls ------------------------------
(***************************************************************************)
(* One call of a model provider by the agent loop: the request with its    *)
(* retries and back-offs (fetchWithRetry), the body that arrives piece by  *)
(* piece while its text is published, the second loop of retries that only *)
(* DeepSeek has, and an abort at any moment.                               *)
(*                                                                         *)
(* raceAbort lets the agent loop go on at once, but generate() may be      *)
(* reading a body then, and notices with the next piece.  Notices of what  *)
(* the provider is doing, and usage figures, are left out.                 *)
(***************************************************************************)
EXTENDS Naturals, Sequences

CONSTANTS Providers,  \* some of "deepseek", "openai" and "anthropic"
          MaxRetries, \* retries of fetchWithRetry, and of DeepSeek's own loop
          MaxPieces   \* bound on the pieces of a body

VARIABLES
    provider,  \* the provider that is configured
    streams,   \* whether the caller wants tokens; a background subagent does not
    gen,       \* generate(): where it is, the retries of the request and of DeepSeek's loop
    requests,  \* the requests that were sent
    aborted,   \* whether the signal is aborted
    body,      \* the current response so far: its text, each piece by the number of its
               \* request, what else there was, and how many pieces
    published, \* the assistant_delta events
    reply      \* what the agent loop has: nothing yet, a response, an error or its abort

callVars == <<provider, streams, gen, requests, aborted, body, published, reply>>

\* "text" and "call" are pieces of a reply; "error" is an error event in the stream.
Kinds == {"text", "call", "error"}
At(at) == [gen EXCEPT !.at = at]

Without(state) == [state |-> state, text |-> <<>>, calls |-> FALSE]

Empty == [text |-> <<>>, other |-> {}, pieces |-> 0]

Init ==
    /\ provider \in Providers /\ streams \in BOOLEAN
    /\ gen = [at |-> "request", tries |-> 0, round |-> 0]
    /\ requests = 0 /\ aborted = FALSE
    /\ body = Empty /\ published = <<>> /\ reply = Without("none")

\* What onToken was called with; the loop's callback publishes it.
Tokens(response) == IF streams THEN response.text ELSE <<>>
Publish(kind) ==
    published' = IF kind = "text" /\ streams THEN Append(published, requests) ELSE published

-----------------------------------------------------------------------------
(* How generate() ends.                                                    *)

\* A promise that is settled after the abort has nobody who waits for it.
Settle(r) ==
    /\ gen' = At("over")
    /\ reply' = IF reply.state = "none" THEN r ELSE reply

\* OpenAI's and Anthropic's errors go to the caller.
ThrowOn == Settle(Without("failed")) /\ UNCHANGED body

\* Mutant: a stream that breaks off is always asked for again.
RetryAnyway(why) ==
    IF gen.round < MaxRetries /\ why = "network"
    THEN gen' = [at |-> "pause", tries |-> 0, round |-> gen.round + 1] /\ UNCHANGED <<reply, body>>
    ELSE ThrowOn

\* The catch of DeepSeek's generate(): another round if nothing was published in
\* this one.  It covers the request as well, whose own retries start anew.
DeepSeekCatches(why) ==
    IF why = "network" /\ Tokens(body) = <<>> /\ gen.round < MaxRetries
    THEN gen' = [at |-> "pause", tries |-> 0, round |-> gen.round + 1] /\ UNCHANGED <<reply, body>>
    ELSE ThrowOn

\* why is "network" if the message is one of a broken connection.
Fails(why) == IF provider = "deepseek" THEN DeepSeekCatches(why) ELSE ThrowOn

-----------------------------------------------------------------------------
(* fetchWithRetry()                                                        *)

SendRequest ==
    /\ gen.at = "request"
    /\ gen' = At("waiting") /\ requests' = requests + 1 /\ body' = Empty
    /\ UNCHANGED <<provider, streams, aborted, published, reply>>

\* One more try after the back-off, or the failure for good.
RetryOr(why) ==
    IF gen.tries < MaxRetries
    THEN gen' = [gen EXCEPT !.at = "backoff", !.tries = @ + 1] /\ UNCHANGED <<reply, body>>
    ELSE Fails(why)

\* The connection fails, no headers come in time, or the status is 429 or 5xx.
RequestFails ==
    /\ gen.at = "waiting"
    /\ \E why \in {"network", "timeout", "busy"} : RetryOr(why)
    /\ UNCHANGED <<provider, streams, requests, aborted, published>>

\* Any other error status.
RequestRefused ==
    /\ gen.at = "waiting" /\ Fails("refused")
    /\ UNCHANGED <<provider, streams, requests, aborted, published>>

HeadersArrive ==
    /\ gen.at = "waiting" /\ gen' = At("reading")
    /\ UNCHANGED <<provider, streams, requests, aborted, body, published, reply>>

\* The end of sleep() in either loop.
DelayIsOver ==
    /\ gen.at \in {"backoff", "pause"} /\ gen' = At("request")
    /\ UNCHANGED <<provider, streams, requests, aborted, body, published, reply>>

-----------------------------------------------------------------------------
(* Reading the body.                                                       *)

Add(kind) ==
    [text |-> IF kind = "text" THEN Append(body.text, requests) ELSE body.text,
     other |-> IF kind = "text" THEN body.other ELSE body.other \cup {kind},
     pieces |-> body.pieces + 1]

\* The next lines of the body.  After an abort generate() throws.
PieceArrives ==
    /\ gen.at = "reading" /\ body.pieces < MaxPieces
    /\ IF aborted /\ streams
       THEN gen' = At("over") /\ UNCHANGED <<body, published>>
       ELSE \E kind \in Kinds :
                /\ body' = Add(kind) /\ Publish(kind) /\ UNCHANGED gen
    /\ UNCHANGED <<provider, streams, requests, aborted, reply>>

Reply(response) ==
    [state |-> "response", text |-> response.text, calls |-> "call" \in response.other]

\* An unfinished last line is dropped, an error event is skipped.
DeepSeekEnds(tail) == Settle(Reply(body)) /\ UNCHANGED <<body, published>>

\* An unfinished last line counts, an error event is skipped.
OpenAIEnds(tail) ==
    LET all == IF tail = "none" THEN body ELSE Add(tail)
    IN  Settle(Reply(all)) /\ body' = all /\ Publish(tail)

\* Likewise, but an error event fails the call after all of the body was read.
AnthropicEnds(tail) ==
    LET all == IF tail = "none" THEN body ELSE Add(tail)
    IN  /\ IF "error" \in all.other THEN Settle(Without("failed")) ELSE Settle(Reply(all))
        /\ body' = all /\ Publish(tail)

\* A whole JSON document that was not streamed; the three parsers differ in
\* their fields only.
DocumentEnds == Settle(Reply(body)) /\ UNCHANGED <<body, published>>

\* The body ends, whether the model had finished or not.
BodyEnds ==
    /\ gen.at = "reading"
    /\ IF ~streams THEN DocumentEnds
       ELSE IF aborted THEN gen' = At("over") /\ UNCHANGED <<reply, body, published>>
       ELSE \E tail \in {"none"} \cup (IF body.pieces < MaxPieces THEN Kinds ELSE {}) :
                CASE provider = "deepseek" -> DeepSeekEnds(tail)
                  [] provider = "openai" -> OpenAIEnds(tail)
                  [] provider = "anthropic" -> AnthropicEnds(tail)
    /\ UNCHANGED <<provider, streams, requests, aborted>>

\* The connection breaks while the body is read; no limit of time ends the wait.
BodyBreaks ==
    /\ gen.at = "reading"
    /\ IF aborted THEN gen' = At("over") /\ UNCHANGED <<reply, body>> ELSE Fails("network")
    /\ UNCHANGED <<provider, streams, requests, aborted, published>>

-----------------------------------------------------------------------------
\* raceAbort rejects.  fetch and both sleeps end at once as well; a body is read on.
Abort ==
    /\ ~aborted /\ reply.state = "none" /\ aborted' = TRUE
    /\ reply' = Without("aborted")
    /\ gen' = IF gen.at = "reading" THEN gen ELSE At("over")
    /\ UNCHANGED <<provider, streams, requests, body, published>>

Next ==
    \/ SendRequest \/ RequestFails \/ RequestRefused \/ HeadersArrive \/ DelayIsOver
    \/ PieceArrives \/ BodyEnds \/ BodyBreaks
    \/ Abort

CallSpec == Init /\ [][Next]_callVars

-----------------------------------------------------------------------------
\* What the user was shown while the model answered is what the answer says,
\* whichever requests failed, broke off or were repeated before (DeepSeek's
\* emittedVisibleToken, and the handling of the last line in all three).
ReplyIsShownOnce ==
    reply.state = "response" /\ streams => published = reply.text

\* http-client.ts:8: "Total attempts = maxRetries + 1".
\* The code does not satisfy it, and no run checks it: README, Deviations.
AttemptsAreBounded == requests <= MaxRetries + 1
=============================================================================
