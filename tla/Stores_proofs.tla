----------------------------- MODULE Stores_proofs -----------------------------
(***************************************************************************)
(* Theorems about further components of MCServices, laid out as in         *)
(* Services_proofs, for every value of the constants of MCServices.        *)
(***************************************************************************)
EXTENDS Services_proofs

\* A step of the composition is a step of a component, or leaves its variables alone.
LEMMA StoreSteps ==
    ASSUME [ServicesNext]_vars
    PROVE  /\ Console!Next \/ UNCHANGED ConsoleVars
           /\ Android!Next \/ UNCHANGED AndroidVars
           /\ Keeper!Next \/ UNCHANGED KeeperVars
           /\ Lsp!Next \/ UNCHANGED LspVars
           /\ Model!Next \/ UNCHANGED ModelVars
           /\ Surface!Next \/ UNCHANGED SurfaceVars
           /\ SourceLists!Next \/ Packages!Next \/ UNCHANGED SkillSourcesVars
<1>1. CASE focus = "console" /\ Console!Next /\ OthersRest("console")
  BY <1>1 DEF OthersRest
<1>2. CASE focus = "android" /\ Android!Next /\ OthersRest("android")
  BY <1>2 DEF OthersRest
<1>3. CASE focus = "maintenance" /\ Keeper!Next /\ OthersRest("maintenance")
  BY <1>3 DEF OthersRest
<1>4. CASE focus = "language servers" /\ Lsp!Next /\ OthersRest("language servers")
  BY <1>4 DEF OthersRest
<1>5. CASE focus = "model calls" /\ Model!Next /\ OthersRest("model calls")
  BY <1>5 DEF OthersRest
<1>6. CASE focus = "mcp surface" /\ Surface!Next /\ OthersRest("mcp surface")
  BY <1>6 DEF OthersRest
<1>7. CASE focus = "skill sources" /\ SourceLists!Next /\ OthersRest("skill sources")
  BY <1>7 DEF OthersRest
<1>8. CASE focus = "packages" /\ Packages!Next /\ OthersRest("packages")
  BY <1>8 DEF OthersRest
<1>9. CASE \E f \in {"permissions", "webridge", "mcp calls", "skills", "evidence", "files",
                     "subagents", "extensions", "browser", "worktrees", "trigger clock",
                     "memory store", "usage", "supervisor"} : OthersRest(f)
  BY <1>9 DEF OthersRest
<1>10. CASE UNCHANGED vars
  BY <1>10 DEF vars, services
<1> QED
  BY <1>1, <1>2, <1>3, <1>4, <1>5, <1>6, <1>7, <1>8, <1>9, <1>10 DEF ServicesNext

-----------------------------------------------------------------------------
(* ModelCalls.                                                             *)

ModelTyped ==
    /\ provider \in Providers /\ streams \in BOOLEAN /\ requests \in Nat
    /\ gen \in [at : {"request", "waiting", "reading", "backoff", "pause", "over"},
                tries : Nat, round : Nat]
    /\ body \in [text : Seq(Nat), other : SUBSET Model!Kinds, pieces : Nat]
    /\ published \in Seq(Nat)
    /\ reply \in [state : {"none", "response", "failed", "aborted"}, text : Seq(Nat),
                  calls : BOOLEAN]

\* Nothing is published before a body is read, and of that body what was read; an answer
\* ends the call.
PublishedIsRead ==
    streams =>
        /\ reply.state = "none" /\ gen.at \in {"request", "waiting", "backoff", "pause"}
             => published = <<>>
        /\ reply.state = "none" /\ gen.at = "waiting" => body.text = <<>>
        /\ reply.state = "none" /\ gen.at = "reading" => published = body.text
        /\ reply.state = "response" => gen.at = "over" /\ published = reply.text

ModelInv == ModelTyped /\ PublishedIsRead

LEMMA ModelInit == Model!Init => ModelInv
BY DEF Model!Init, ModelInv, ModelTyped, PublishedIsRead, Model!Empty, Model!Without

\* The call ends without a response.
LEMMA ModelFails ==
    ASSUME ModelInv, Model!ThrowOn, UNCHANGED <<provider, streams, requests, published>>
    PROVE  ModelInv'
<1>1. gen' = [gen EXCEPT !.at = "over"] /\ UNCHANGED body
      /\ reply' = IF reply.state = "none" THEN Model!Without("failed") ELSE reply
  BY DEF Model!ThrowOn, Model!Settle, Model!At
<1>2. reply' \in {reply, [state |-> "failed", text |-> <<>>, calls |-> FALSE]}
      /\ reply'.state # "none"
  BY <1>1 DEF Model!Without
<1>3. gen'.at = "over"
  BY <1>1 DEF ModelInv, ModelTyped
<1>4. ModelTyped'
  <2>1. reply' \in [state : {"none", "response", "failed", "aborted"}, text : Seq(Nat),
                    calls : BOOLEAN]
    <3>1. [state |-> "failed", text |-> <<>>, calls |-> FALSE]
            \in [state : {"none", "response", "failed", "aborted"}, text : Seq(Nat),
                 calls : BOOLEAN]
      OBVIOUS
    <3>2. reply \in [state : {"none", "response", "failed", "aborted"}, text : Seq(Nat),
                     calls : BOOLEAN]
      BY DEF ModelInv, ModelTyped
    <3> QED
      BY <1>2, <3>1, <3>2
  <2>2. gen' \in [at : {"request", "waiting", "reading", "backoff", "pause", "over"},
                  tries : Nat, round : Nat]
    BY <1>1 DEF ModelInv, ModelTyped
  <2> QED
    BY <1>1, <2>1, <2>2 DEF ModelInv, ModelTyped
<1>5. PublishedIsRead'
  BY <1>2, <1>3 DEF ModelInv, PublishedIsRead
<1> QED
  BY <1>4, <1>5 DEF ModelInv

\* A failed request or body is asked for again only if nothing of it was published.
LEMMA FailsKeeps ==
    ASSUME ModelInv, NEW why, Model!Fails(why), gen.at \in {"waiting", "reading"},
           UNCHANGED <<provider, streams, requests, published>>
    PROVE  ModelInv'
<1>1. CASE Model!ThrowOn
  BY <1>1, ModelFails
<1>2. CASE /\ Model!Tokens(body) = <<>>
           /\ gen' = [at |-> "pause", tries |-> 0, round |-> gen.round + 1]
           /\ UNCHANGED <<reply, body>>
  <2>1. streams => body.text = <<>>
    BY <1>2 DEF Model!Tokens
  <2>2. streams /\ reply.state = "none" => published = <<>>
    BY <2>1 DEF ModelInv, ModelTyped, PublishedIsRead
  <2>3. gen.round + 1 \in Nat
    BY DEF ModelInv, ModelTyped
  <2>4. reply.state = "response" => ~streams
    BY DEF ModelInv, PublishedIsRead
  <2> QED
    BY <1>2, <2>2, <2>3, <2>4 DEF ModelInv, ModelTyped, PublishedIsRead
<1> QED
  BY <1>1, <1>2 DEF Model!Fails, Model!DeepSeekCatches

\* The call ends with the response that was read, the last line included.
LEMMA ReplyKeeps ==
    ASSUME ModelInv, gen.at = "reading", UNCHANGED <<provider, streams, requests>>,
           NEW all \in [text : Seq(Nat), other : SUBSET Model!Kinds, pieces : Nat],
           Model!Settle(Model!Reply(all)) \/ Model!Settle(Model!Without("failed")),
           body' = all, published' \in Seq(Nat),
           streams /\ reply.state = "none" => published' = all.text
    PROVE  ModelInv'
<1> DEFINE r == Model!Reply(all)
           f == Model!Without("failed")
<1>1. /\ r \in [state : {"response"}, text : Seq(Nat), calls : BOOLEAN]
      /\ r.text = all.text
  BY DEF Model!Reply
<1>2. /\ f \in [state : {"failed"}, text : Seq(Nat), calls : BOOLEAN]
  BY DEF Model!Without
<1>3. gen' = [gen EXCEPT !.at = "over"] /\ reply' \in {r, f, reply}
      /\ (reply.state # "none" => reply' = reply)
      /\ (reply.state = "none" => reply' # reply)
  BY <1>1, <1>2 DEF Model!Settle, Model!At
<1> HIDE DEF r, f
<1>4. gen'.at = "over"
      /\ gen' \in [at : {"request", "waiting", "reading", "backoff", "pause", "over"},
                   tries : Nat, round : Nat]
  BY <1>3 DEF ModelInv, ModelTyped
<1>5. ModelTyped'
  BY <1>1, <1>2, <1>3, <1>4 DEF ModelInv, ModelTyped
<1>6. reply.state = "response" => ~streams
  BY DEF ModelInv, PublishedIsRead
<1>7. PublishedIsRead'
  BY <1>1, <1>2, <1>3, <1>4, <1>6 DEF PublishedIsRead
<1> QED
  BY <1>5, <1>7 DEF ModelInv

\* A piece goes to the body, and its text to the user.
LEMMA PieceAdded ==
    ASSUME ModelInv, gen.at = "reading", NEW kind \in Model!Kinds, Model!Publish(kind)
    PROVE  /\ Model!Add(kind) \in [text : Seq(Nat), other : SUBSET Model!Kinds, pieces : Nat]
           /\ published' \in Seq(Nat)
           /\ streams /\ reply.state = "none" => published' = Model!Add(kind).text
<1>1. streams /\ reply.state = "none" => published = body.text
  BY DEF ModelInv, PublishedIsRead
<1>2. /\ body.text \in Seq(Nat) /\ body.other \in SUBSET Model!Kinds /\ body.pieces \in Nat
      /\ requests \in Nat /\ published \in Seq(Nat)
  BY DEF ModelInv, ModelTyped
<1> QED
  BY <1>1, <1>2 DEF Model!Add, Model!Publish

LEMMA BodyEndsKeeps == ModelInv /\ Model!BodyEnds => ModelInv'
<1> SUFFICES ASSUME ModelInv, Model!BodyEnds PROVE ModelInv'
  OBVIOUS
<1> DEFINE B == [text : Seq(Nat), other : SUBSET Model!Kinds, pieces : Nat]
<1>1. gen.at = "reading" /\ UNCHANGED <<provider, streams, requests>>
  BY DEF Model!BodyEnds
<1>2. /\ body \in B /\ published \in Seq(Nat)
      /\ streams /\ reply.state = "none" => published = body.text
  BY <1>1 DEF ModelInv, ModelTyped, PublishedIsRead
<1>3. CASE Model!Settle(Model!Reply(body)) /\ UNCHANGED <<body, published>>
  BY <1>1, <1>2, <1>3, ReplyKeeps
<1>4. CASE gen' = [gen EXCEPT !.at = "over"] /\ UNCHANGED <<reply, body, published>>
  BY <1>1, <1>4 DEF ModelInv, ModelTyped, PublishedIsRead
<1>5. ASSUME NEW tail \in {"none"} \cup Model!Kinds,
             Model!OpenAIEnds(tail) \/ Model!AnthropicEnds(tail)
      PROVE  ModelInv'
  <2> DEFINE all == IF tail = "none" THEN body ELSE Model!Add(tail)
  <2>1. /\ Model!Settle(Model!Reply(all)) \/ Model!Settle(Model!Without("failed"))
        /\ body' = all /\ Model!Publish(tail)
    BY <1>5 DEF Model!OpenAIEnds, Model!AnthropicEnds
  <2>2. all \in B /\ published' \in Seq(Nat)
        /\ (streams /\ reply.state = "none" => published' = all.text)
    <3>1. CASE tail = "none"
      BY <1>2, <2>1, <3>1 DEF Model!Publish
    <3>2. CASE tail \in Model!Kinds
      BY <1>1, <2>1, <3>2, PieceAdded DEF Model!Kinds
    <3> QED
      BY <3>1, <3>2
  <2> HIDE DEF all
  <2> QED
    BY <1>1, <2>1, <2>2, ReplyKeeps
<1>6. provider \in {"deepseek", "openai", "anthropic"}
  BY ServicesAssumptions DEF ModelInv, ModelTyped, ServicesAssumptions
<1> QED
  BY <1>3, <1>4, <1>5, <1>6 DEF Model!BodyEnds, Model!DocumentEnds, Model!DeepSeekEnds,
                                Model!At

LEMMA ModelNext == ModelInv /\ (Model!Next \/ UNCHANGED ModelVars) => ModelInv'
<1> SUFFICES ASSUME ModelInv, Model!Next \/ UNCHANGED ModelVars PROVE ModelInv'
  OBVIOUS
<1>1. CASE Model!SendRequest
  BY <1>1 DEF Model!SendRequest, Model!At, Model!Empty, ModelInv, ModelTyped, PublishedIsRead
<1>2. CASE Model!RequestFails
  <2>1. PICK why \in {"network", "timeout", "busy"} : Model!RetryOr(why)
    BY <1>2 DEF Model!RequestFails
  <2>2. gen.at = "waiting" /\ UNCHANGED <<provider, streams, requests, published>>
    BY <1>2 DEF Model!RequestFails
  <2>3. CASE gen' = [gen EXCEPT !.at = "backoff", !.tries = gen.tries + 1]
             /\ UNCHANGED <<reply, body>>
    <3>1. gen' = [at |-> "backoff", tries |-> gen.tries + 1, round |-> gen.round]
      BY <2>3 DEF ModelInv, ModelTyped
    <3> QED
      BY <2>2, <2>3, <3>1 DEF ModelInv, ModelTyped, PublishedIsRead
  <2>4. CASE Model!Fails(why)
    BY <2>2, <2>4, FailsKeeps
  <2> QED
    BY <2>1, <2>3, <2>4 DEF Model!RetryOr
<1>3. CASE Model!RequestRefused
  BY <1>3, FailsKeeps DEF Model!RequestRefused
<1>4. CASE Model!HeadersArrive
  BY <1>4 DEF Model!HeadersArrive, Model!At, ModelInv, ModelTyped, PublishedIsRead
<1>5. CASE Model!DelayIsOver
  BY <1>5 DEF Model!DelayIsOver, Model!At, ModelInv, ModelTyped, PublishedIsRead
<1>6. CASE Model!PieceArrives
  <2>1. CASE gen' = [gen EXCEPT !.at = "over"] /\ UNCHANGED <<reply, body, published>>
             /\ reply.state # "response"
    BY <1>6, <2>1 DEF Model!PieceArrives, ModelInv, ModelTyped, PublishedIsRead
  <2>2. ASSUME NEW kind \in Model!Kinds, body' = Model!Add(kind), Model!Publish(kind),
               UNCHANGED gen
        PROVE  ModelInv'
    <3>1. gen.at = "reading" /\ UNCHANGED <<provider, streams, requests, reply>>
      BY <1>6 DEF Model!PieceArrives
    <3> QED
      BY <2>2, <3>1, PieceAdded DEF ModelInv, ModelTyped, PublishedIsRead
  <2>3. reply.state = "response" => ~streams
    BY <1>6 DEF Model!PieceArrives, ModelInv, PublishedIsRead
  <2> QED
    BY <1>6, <2>1, <2>2, <2>3 DEF Model!PieceArrives, Model!At
<1>7. CASE Model!BodyEnds
  BY <1>7, BodyEndsKeeps
<1>8. CASE Model!BodyBreaks
  <2>1. gen.at = "reading" /\ UNCHANGED <<provider, streams, requests, published>>
    BY <1>8 DEF Model!BodyBreaks
  <2>2. CASE gen' = [gen EXCEPT !.at = "over"] /\ UNCHANGED <<reply, body>>
    BY <2>1, <2>2 DEF ModelInv, ModelTyped, PublishedIsRead
  <2>3. CASE Model!Fails("network")
    BY <2>1, <2>3, FailsKeeps
  <2> QED
    BY <1>8, <2>2, <2>3 DEF Model!BodyBreaks, Model!At
<1>9. CASE Model!Abort
  <2>1. /\ UNCHANGED <<provider, streams, requests, body, published>>
        /\ reply' = [state |-> "aborted", text |-> <<>>, calls |-> FALSE]
        /\ gen' \in {gen, [gen EXCEPT !.at = "over"]}
    BY <1>9 DEF Model!Abort, Model!At, Model!Without
  <2> QED
    BY <2>1 DEF ModelInv, ModelTyped, PublishedIsRead
<1>10. CASE UNCHANGED ModelVars
  BY <1>10 DEF ModelVars, ModelInv, ModelTyped, PublishedIsRead
<1> QED
  BY <1>1, <1>2, <1>3, <1>4, <1>5, <1>6, <1>7, <1>8, <1>9, <1>10 DEF Model!Next

\* For any provider, number of retries and length of the reply: whichever requests fail,
\* break off or are repeated, what was published while the model answered is the answer
\* (fetchWithRetry, DeepSeek's emittedVisibleToken).
THEOREM AnswerIsShownOnce == ServicesSpec => []ReplyIsShownOnce
<1>1. ServicesInit => ModelInv
  BY ModelInit DEF ServicesInit
<1>2. ModelInv /\ [ServicesNext]_vars => ModelInv'
  BY ModelNext, StoreSteps
<1>3. ModelInv => ReplyIsShownOnce
  BY DEF ModelInv, PublishedIsRead, ReplyIsShownOnce, Model!ReplyIsShownOnce
<1> QED
  BY <1>1, <1>2, <1>3, PTL DEF ServicesSpec

-----------------------------------------------------------------------------
(* LanguageServers.                                                        *)

\* What openOrChange() may be asked for; the second is File() of no file.
Docs == SourceFiles \cup {CHOOSE f \in {} : TRUE}

Clients == [child : 0..MaxServers, init : {"none", "waiting", "done", "failed"},
            opened : SUBSET Docs]
Processes == [of : 0..MaxClients, is : {"none", "up", "killed"}, opened : SUBSET Docs]
Operations == [kind : {"none", "query", "symbols", "diagnose"},
               at : {"idle", "init", "go", "fail", "err", "next", "asked", "wait"},
               client : 0..MaxClients, todo : SUBSET SourceFiles]

LspTyped ==
    /\ current \in 0..MaxClients
    /\ rpc \in [Lsp!ClientIds -> Clients]
    /\ server \in [Lsp!ServerIds -> Processes]
    /\ lsp \in [LspOps -> Operations]

\* A client and its server know each other, and the client is the language's; what a
\* client that was given up has spawned is killed.
Owned ==
    /\ \A p \in Lsp!ServerIds : server[p].is = "up" =>
          current # 0 /\ server[p].of = current /\ rpc[current].child = p
    /\ \A p \in Lsp!ServerIds : server[p].is = "killed" => server[p].of \notin {0, current}
    /\ \A c \in Lsp!ClientIds : rpc[c].child # 0 => c = current /\ server[rpc[c].child].is = "up"

\* Operations that have a client use the language's, or have yet to hear that it failed;
\* the two do not occur together.
Attached ==
    /\ \A q \in LspOps : lsp[q].at \in {"asked", "init", "go"} =>
          lsp[q].client = current /\ current # 0
    /\ \A q \in LspOps : lsp[q].at \in {"fail", "err"} =>
          lsp[q].client \in Lsp!ClientIds /\ current \in {0, lsp[q].client}
    /\ \A q, x \in LspOps : lsp[q].at = "go" => lsp[x].at \notin {"fail", "err"}

LspInv == LspTyped /\ Owned /\ Attached

LEMMA LspInit == Lsp!Init => LspInv
BY ServicesAssumptions DEF Lsp!Init, LspInv, LspTyped, Owned, Attached, Lsp!NewClient,
    Lsp!NoServer, Lsp!NoOp, Clients, Processes, Operations, ServicesAssumptions,
    Lsp!ClientIds, Lsp!ServerIds

LEMMA NoOpTyped ==
    /\ Lsp!NoOp = [kind |-> "none", at |-> "idle", client |-> 0, todo |-> {}]
    /\ 0 \in 0..MaxClients /\ Lsp!NoOp \in Operations /\ Lsp!NoOp.at = "idle"
BY ServicesAssumptions DEF Lsp!NoOp, Operations, ServicesAssumptions

LEMMA LeastIsIn ==
    ASSUME NEW S \in SUBSET Nat, S # {}
    PROVE  Lsp!Min(S) \in S
<1>1. \E m \in S : \A k \in S : m <= k
  BY Smallest
<1> QED
  BY <1>1 DEF Lsp!Min

\* #start() spawns at most one server, for the language's client.
LEMMA Starts ==
    ASSUME LspInv, NEW c \in Lsp!ClientIds, c = current \/ (current = 0 /\ c \notin Lsp!Used),
           Lsp!CanStart(c)
    PROVE  /\ Lsp!Child(c) \in Lsp!ServerIds
           /\ Lsp!Started(c) \in [Lsp!ServerIds -> Processes]
           /\ \A p \in Lsp!ServerIds : Lsp!Started(c)[p].is = "up" <=> p = Lsp!Child(c)
           /\ \A p \in Lsp!ServerIds : Lsp!Started(c)[p].is = "killed" =>
                Lsp!Started(c)[p].of \notin {0, c}
           /\ Lsp!Started(c)[Lsp!Child(c)].of = c
<1> DEFINE d == Lsp!Child(c)
<1>0. Lsp!ServerIds \in SUBSET Nat /\ c # 0
  BY ServicesAssumptions DEF Lsp!ServerIds, Lsp!ClientIds, ServicesAssumptions
<1>1. \A p \in Lsp!ServerIds : server[p].is = "killed" => server[p].of \notin {0, c}
  <2>1. c \notin Lsp!Used => \A p \in Lsp!ServerIds : server[p].of # c
    BY DEF Lsp!Used
  <2> QED
    BY <2>1 DEF LspInv, Owned
<1>2. CASE rpc[c].child # 0
  <2>1. d = rpc[c].child /\ Lsp!Started(c) = server
    BY <1>2 DEF Lsp!Child, Lsp!Started
  <2>2. d \in Lsp!ServerIds /\ c = current /\ server[d].is = "up"
    <3>1. rpc[c].child \in 0..MaxServers
      BY DEF LspInv, LspTyped, Clients
    <3> QED
      BY <1>2, <2>1, <3>1, ServicesAssumptions
         DEF LspInv, Owned, Lsp!ServerIds, ServicesAssumptions
  <2> QED
    BY <1>1, <2>1, <2>2 DEF LspInv, LspTyped, Owned
<1>3. CASE rpc[c].child = 0
  <2>1. d \in Lsp!ServerIds /\ server[d].is = "none"
    <3>1. Lsp!FreeServers \in SUBSET Nat /\ Lsp!FreeServers # {} /\ d = Lsp!Min(Lsp!FreeServers)
      BY <1>0, <1>3 DEF Lsp!FreeServers, Lsp!Child, Lsp!CanStart
    <3>2. d \in Lsp!FreeServers
      BY <3>1, LeastIsIn
    <3> QED
      BY <3>2 DEF Lsp!FreeServers
  <2>2. Lsp!Started(c) = [server EXCEPT ![d] = [of |-> c, is |-> "up", opened |-> {}]]
    BY <1>3 DEF Lsp!Started
  <2>3. \A p \in Lsp!ServerIds : server[p].is # "up"
    BY <1>0, <1>3, 0 \notin Lsp!ServerIds DEF LspInv, Owned, Lsp!ServerIds
  <2>4. c \in 0..MaxClients
    BY ServicesAssumptions DEF Lsp!ClientIds, ServicesAssumptions
  <2> HIDE DEF d
  <2>5. Lsp!Started(c) \in [Lsp!ServerIds -> Processes]
    BY <2>1, <2>2, <2>4 DEF LspInv, LspTyped, Processes
  <2>6. /\ Lsp!Started(c)[d] = [of |-> c, is |-> "up", opened |-> {}]
        /\ \A p \in Lsp!ServerIds \ {d} : Lsp!Started(c)[p] = server[p]
    BY <2>1, <2>2 DEF LspInv, LspTyped
  <2> QED
    BY <1>1, <2>1, <2>3, <2>5, <2>6 DEF d
<1>4. rpc[c].child # 0 \/ rpc[c].child = 0
  OBVIOUS
<1> QED
  BY <1>2, <1>3, <1>4

\* A client that starts its server, or has it, is the language's client.
LEMMA StartOwns ==
    ASSUME LspInv, NEW c \in Lsp!ClientIds, c = current \/ (current = 0 /\ c \notin Lsp!Used),
           Lsp!CanStart(c), current' = c,
           rpc' \in [Lsp!ClientIds -> Clients], server' \in [Lsp!ServerIds -> Processes],
           rpc'[c].child = Lsp!Child(c),
           \A b \in Lsp!ClientIds \ {c} : rpc'[b] = rpc[b],
           \A p \in Lsp!ServerIds : /\ server'[p].is = Lsp!Started(c)[p].is
                                    /\ server'[p].of = Lsp!Started(c)[p].of
    PROVE  Owned'
<1>1. /\ Lsp!Child(c) \in Lsp!ServerIds
      /\ \A p \in Lsp!ServerIds : server'[p].is = "up" <=> p = Lsp!Child(c)
      /\ \A p \in Lsp!ServerIds : server'[p].is = "killed" => server'[p].of \notin {0, c}
      /\ server'[Lsp!Child(c)].of = c
  BY Starts
<1>2. \A b \in Lsp!ClientIds \ {c} : rpc'[b].child = 0
  <2>1. c # 0
    BY ServicesAssumptions DEF Lsp!ClientIds, ServicesAssumptions
  <2> QED
    BY <2>1 DEF LspInv, Owned, Lsp!ClientIds
<1>3. c # 0
  BY ServicesAssumptions DEF Lsp!ClientIds, ServicesAssumptions
<1> QED
  BY <1>1, <1>2, <1>3 DEF Owned

\* An operation gets the language's client, whose server is up then.
LEMMA LspEnterKeeps ==
    ASSUME LspInv, NEW q \in LspOps, NEW op \in Operations, Lsp!Enter(q, op),
           \A x \in LspOps : lsp[x].at \notin {"go", "fail", "err"}
    PROVE  LspInv'
<1> DEFINE c == Lsp!ClientFor
           init == IF c = current THEN rpc[c].init ELSE "none"
           at == CASE init \in {"none", "waiting"} -> "init"
                   [] init = "done" -> "go" [] init = "failed" -> "fail"
<1>1. c \in Lsp!ClientIds /\ (c = current \/ (current = 0 /\ c \notin Lsp!Used))
  <2>1. CASE current # 0
    BY <2>1 DEF Lsp!ClientFor, LspInv, LspTyped, Lsp!ClientIds
  <2>2. CASE current = 0
    <3>1. Lsp!FreeClients \in SUBSET Nat /\ Lsp!FreeClients # {}
      BY <2>2, ServicesAssumptions
         DEF Lsp!FreeClients, Lsp!ClientIds, Lsp!Enter, ServicesAssumptions
    <3>2. c \in Lsp!FreeClients
      BY <2>2, <3>1, LeastIsIn DEF Lsp!ClientFor
    <3> QED
      BY <2>2, <3>2 DEF Lsp!FreeClients
  <2> QED
    BY <2>1, <2>2
<1>2. init \in {"none", "waiting", "done", "failed"}
  BY <1>1 DEF LspInv, LspTyped, Clients
<1>3. /\ current' = c /\ Lsp!CanStart(c)
      /\ lsp' = [lsp EXCEPT ![q] = [op EXCEPT !.client = c, !.at = at]]
      /\ \/ /\ init = "none" /\ server' = Lsp!Started(c)
            /\ rpc' = [rpc EXCEPT ![c] = [child |-> Lsp!Child(c), init |-> "waiting",
                          opened |-> IF c = current THEN rpc[c].opened ELSE {}]]
         \/ c = current /\ UNCHANGED <<rpc, server>>
  <2>1. Lsp!Initialize(q, c, op) /\ current' = c
    BY DEF Lsp!Enter
  <2>2. init # "none" => c = current
    OBVIOUS
  <2> QED
    BY <2>1, <2>2 DEF Lsp!Initialize
<1>4. at \in {"init", "go", "fail"}
  BY <1>2
<1>5. c \in 0..MaxClients /\ c # 0
  BY <1>1, ServicesAssumptions DEF Lsp!ClientIds, ServicesAssumptions
<1> HIDE DEF c, init, at
<1>6. lsp' \in [LspOps -> Operations]
      /\ lsp'[q].client = c /\ lsp'[q].at = at
      /\ \A x \in LspOps \ {q} : lsp'[x] = lsp[x]
  <2>1. [op EXCEPT !.client = c, !.at = at] \in Operations
    BY <1>4, <1>5 DEF Operations
  <2>2. [op EXCEPT !.client = c, !.at = at].client = c /\ [op EXCEPT !.client = c, !.at = at].at = at
    BY DEF Operations
  <2> QED
    BY <1>3, <2>1, <2>2 DEF LspInv, LspTyped
<1>7. Attached'
  <2>1. \A x \in LspOps : lsp[x].at \in {"asked", "init"} => lsp[x].client = c
    BY <1>1 DEF LspInv, Attached
  <2>2. \A x \in LspOps \ {q} : lsp'[x].at \notin {"go", "fail", "err"}
    BY <1>6
  <2>3. \A x \in LspOps \ {q} : lsp'[x].at \in {"asked", "init"} => lsp'[x].client = c
    BY <1>6, <2>1
  <2> QED
    BY <1>1, <1>3, <1>4, <1>5, <1>6, <2>2, <2>3 DEF Attached
<1>8. CASE c = current /\ UNCHANGED <<rpc, server>>
  <2>1. LspTyped'
    BY <1>3, <1>6, <1>8 DEF LspInv, LspTyped
  <2>2. Owned'
    BY <1>3, <1>8 DEF LspInv, Owned
  <2> QED
    BY <1>7, <2>1, <2>2 DEF LspInv
<1>9. CASE /\ init = "none" /\ server' = Lsp!Started(c)
           /\ rpc' = [rpc EXCEPT ![c] = [child |-> Lsp!Child(c), init |-> "waiting",
                          opened |-> IF c = current THEN rpc[c].opened ELSE {}]]
  <2>1. Lsp!Child(c) \in Lsp!ServerIds /\ server' \in [Lsp!ServerIds -> Processes]
    BY <1>1, <1>3, <1>9, Starts
  <2>2. [child |-> Lsp!Child(c), init |-> "waiting",
         opened |-> IF c = current THEN rpc[c].opened ELSE {}] \in Clients
    BY <1>1, <2>1 DEF LspInv, LspTyped, Clients, Lsp!ServerIds
  <2>3. rpc' \in [Lsp!ClientIds -> Clients] /\ rpc'[c].child = Lsp!Child(c)
        /\ \A b \in Lsp!ClientIds \ {c} : rpc'[b] = rpc[b]
    BY <1>1, <1>9, <2>2 DEF LspInv, LspTyped
  <2>4. Owned'
    BY <1>1, <1>3, <1>9, <2>1, <2>3, StartOwns
  <2>5. LspTyped'
    BY <1>3, <1>5, <1>6, <2>1, <2>3 DEF LspTyped
  <2> QED
    BY <1>7, <2>4, <2>5 DEF LspInv
<1> QED
  BY <1>3, <1>8, <1>9

LEMMA LspGoKeeps ==
    ASSUME LspInv, NEW q \in LspOps, Lsp!Go(q)
    PROVE  LspInv'
<1> DEFINE c == lsp[q].client
           d == Lsp!Child(c)
<1>1. c \in Lsp!ClientIds /\ c = current /\ Lsp!CanStart(c) /\ current' = c
      /\ lsp[q].at = "go"
  BY DEF Lsp!Go, LspInv, LspTyped, Attached, Lsp!ClientIds
<1>2. /\ d \in Lsp!ServerIds /\ Lsp!Started(c) \in [Lsp!ServerIds -> Processes]
  BY <1>1, Starts
<1>3. Lsp!File(q) \in Docs /\ lsp[q].todo \ {Lsp!File(q)} \in SUBSET SourceFiles
  <2>1. lsp[q].todo \in SUBSET SourceFiles
    BY DEF LspInv, LspTyped, Operations
  <2> QED
    BY <2>1 DEF Lsp!File, Docs
<1>4. /\ rpc' \in [Lsp!ClientIds -> Clients] /\ rpc'[c].child = d
      /\ \A b \in Lsp!ClientIds \ {c} : rpc'[b] = rpc[b]
  <2>1. d \in 0..MaxServers
    BY <1>2 DEF Lsp!ServerIds
  <2>2. rpc' = [rpc EXCEPT ![c].child = d]
        \/ rpc' = [rpc EXCEPT ![c].child = d, ![c].opened = rpc[c].opened \cup {Lsp!File(q)}]
    BY DEF Lsp!Go, Lsp!OpenOrChange
  <2> HIDE DEF d, c
  <2> QED
    BY <1>1, <1>3, <2>1, <2>2 DEF LspInv, LspTyped, Clients
<1>5. /\ server' \in [Lsp!ServerIds -> Processes]
      /\ \A p \in Lsp!ServerIds : /\ server'[p].is = Lsp!Started(c)[p].is
                                   /\ server'[p].of = Lsp!Started(c)[p].of
  <2> DEFINE S == Lsp!Started(c)
  <2>1. server' = S \/ server' = [S EXCEPT ![d].opened = S[d].opened \cup {Lsp!File(q)}]
    BY DEF Lsp!Go, Lsp!OpenOrChange
  <2> HIDE DEF S, c, d
  <2> QED
    BY <1>2, <1>3, <2>1 DEF S, Processes
<1>6. Owned'
  BY <1>1, <1>4, <1>5, StartOwns
<1>7. PICK to \in {"asked", "wait", "next"} :
         /\ lsp' \in [LspOps -> Operations]
         /\ lsp'[q].at = to /\ lsp'[q].client = c
         /\ \A x \in LspOps \ {q} : lsp'[x] = lsp[x]
  <2> DEFINE rest == lsp[q].todo \ {Lsp!File(q)}
  <2>1. \/ lsp' = [lsp EXCEPT ![q] = [lsp[q] EXCEPT !.at = "asked"]]
        \/ lsp' = [lsp EXCEPT ![q] = [lsp[q] EXCEPT !.at = "wait", !.todo = {}]]
        \/ lsp' = [lsp EXCEPT ![q] = [lsp[q] EXCEPT !.at = "next", !.todo = rest]]
    BY DEF Lsp!Go
  <2>2. lsp[q] \in Operations /\ rest \in SUBSET SourceFiles
    BY <1>3 DEF LspInv, LspTyped
  <2> HIDE DEF rest
  <2>3. CASE lsp' = [lsp EXCEPT ![q] = [lsp[q] EXCEPT !.at = "asked"]]
    BY <2>2, <2>3 DEF LspInv, LspTyped, Operations
  <2>4. CASE lsp' = [lsp EXCEPT ![q] = [lsp[q] EXCEPT !.at = "wait", !.todo = {}]]
    BY <2>2, <2>4 DEF LspInv, LspTyped, Operations
  <2>5. CASE lsp' = [lsp EXCEPT ![q] = [lsp[q] EXCEPT !.at = "next", !.todo = rest]]
    BY <2>2, <2>5 DEF LspInv, LspTyped, Operations
  <2> QED
    BY <2>1, <2>3, <2>4, <2>5
<1>8. Attached'
  BY <1>1, <1>7 DEF LspInv, Attached
<1>9. LspTyped'
  BY <1>1, <1>4, <1>5, <1>7 DEF LspInv, LspTyped
<1> QED
  BY <1>6, <1>8, <1>9 DEF LspInv

\* The pending operations of a client hear that it failed.
LEMMA RejectedTells ==
    ASSUME LspInv, NEW c
    PROVE  /\ Lsp!Rejected(c) \in [LspOps -> Operations]
           /\ \A x \in LspOps :
                /\ Lsp!Rejected(c)[x].client = lsp[x].client
                /\ \/ /\ lsp[x].client = c /\ lsp[x].at \in {"asked", "init"}
                      /\ Lsp!Rejected(c)[x].at \in {"err", "fail"}
                   \/ /\ lsp[x].client # c \/ lsp[x].at \notin {"asked", "init"}
                      /\ Lsp!Rejected(c)[x].at = lsp[x].at
<1>1. ASSUME NEW x \in LspOps
      PROVE  /\ [lsp[x] EXCEPT !.at = "err"] \in Operations
             /\ [lsp[x] EXCEPT !.at = "fail"] \in Operations
             /\ lsp[x] \in Operations
             /\ [lsp[x] EXCEPT !.at = "err"].client = lsp[x].client
             /\ [lsp[x] EXCEPT !.at = "fail"].client = lsp[x].client
             /\ [lsp[x] EXCEPT !.at = "err"].at = "err"
             /\ [lsp[x] EXCEPT !.at = "fail"].at = "fail"
  <2>1. lsp[x] \in Operations
    BY DEF LspInv, LspTyped
  <2> QED
    BY <2>1 DEF Operations
<1> QED
  BY <1>1 DEF Lsp!Rejected

\* The language forgets its client, whose server is killed.
LEMMA GiveUpKeeps ==
    ASSUME LspInv, NEW q \in LspOps, lsp[q].at \in {"fail", "err"}, current' = 0,
           Lsp!Dispose(lsp[q].client),
           lsp' = [Lsp!Rejected(lsp[q].client) EXCEPT ![q] = Lsp!NoOp]
    PROVE  LspInv'
<1> DEFINE c == lsp[q].client
<1>1. c \in Lsp!ClientIds /\ current \in {0, c} /\ c # 0
  BY DEF LspInv, Attached, Lsp!ClientIds
<1>2. \A x \in LspOps : lsp[x].at # "go"
  BY DEF LspInv, Attached
<1>3. Lsp!NoOp \in Operations /\ Lsp!NoOp.at = "idle"
  BY ServicesAssumptions DEF Lsp!NoOp, Operations, ServicesAssumptions
<1>4. /\ rpc' = [rpc EXCEPT ![c] = [rpc[c] EXCEPT !.child = 0,
                     !.init = IF rpc[c].init = "waiting" THEN "failed" ELSE rpc[c].init]]
      /\ server' = [p \in Lsp!ServerIds |-> IF p = rpc[c].child
                                           THEN [server[p] EXCEPT !.is = "killed"] ELSE server[p]]
  BY <1>1 DEF Lsp!Dispose, LspInv, LspTyped
<1> HIDE DEF c
<1>5. /\ rpc' \in [Lsp!ClientIds -> Clients] /\ rpc'[c].child = 0
      /\ \A b \in Lsp!ClientIds \ {c} : rpc'[b] = rpc[b]
  <2>1. rpc[c] \in Clients /\ 0 \in 0..MaxServers
    BY <1>1, ServicesAssumptions DEF LspInv, LspTyped, ServicesAssumptions
  <2>2. [rpc[c] EXCEPT !.child = 0,
              !.init = IF rpc[c].init = "waiting" THEN "failed" ELSE rpc[c].init] \in Clients
        /\ [rpc[c] EXCEPT !.child = 0,
              !.init = IF rpc[c].init = "waiting" THEN "failed" ELSE rpc[c].init].child = 0
    BY <2>1 DEF Clients
  <2> QED
    BY <1>1, <1>4, <2>2 DEF LspInv, LspTyped
<1>6. ASSUME NEW p \in Lsp!ServerIds
      PROVE  /\ server'[p] \in Processes
             /\ server'[p].is # "up"
             /\ server'[p].is = "killed" => server'[p].of # 0
  <2>1. server[p] \in Processes
    BY DEF LspInv, LspTyped
  <2>2. CASE p = rpc[c].child
    <3>1. server'[p] = [server[p] EXCEPT !.is = "killed"]
      BY <1>4, <2>2
    <3>2. c = current /\ server[p].is = "up"
      BY <1>1, <2>2, 0 \notin Lsp!ServerIds DEF LspInv, Owned, Lsp!ServerIds
    <3>3. server[p].of # 0
      BY <1>1, <3>2 DEF LspInv, Owned
    <3> QED
      BY <2>1, <3>1, <3>3 DEF Processes
  <2>3. CASE p # rpc[c].child
    <3>1. server'[p] = server[p]
      BY <1>4, <2>3
    <3>2. server[p].is # "up"
      BY <1>1, <2>3 DEF LspInv, Owned
    <3>3. server[p].is = "killed" => server[p].of # 0
      BY DEF LspInv, Owned
    <3> QED
      BY <2>1, <3>1, <3>2, <3>3
  <2> QED
    BY <2>2, <2>3
<1>7. /\ lsp' \in [LspOps -> Operations]
      /\ \A x \in LspOps : lsp'[x].at \notin {"asked", "init", "go"}
      /\ \A x \in LspOps : lsp'[x].at \in {"fail", "err"} => lsp'[x].client \in Lsp!ClientIds
  <2> DEFINE R == Lsp!Rejected(c)
  <2>1. /\ R \in [LspOps -> Operations]
        /\ \A x \in LspOps :
             /\ R[x].client = lsp[x].client
             /\ \/ lsp[x].client = c /\ R[x].at \in {"err", "fail"}
                \/ /\ lsp[x].client # c \/ lsp[x].at \notin {"asked", "init"}
                   /\ R[x].at = lsp[x].at
    BY RejectedTells
  <2>2. lsp' = [R EXCEPT ![q] = Lsp!NoOp]
    BY DEF c
  <2> HIDE DEF R
  <2>3. \A x \in LspOps : lsp[x].at \in {"asked", "init"} => lsp[x].client = c
    BY <1>1 DEF LspInv, Attached
  <2>4. \A x \in LspOps : lsp[x].at \in {"fail", "err"} => lsp[x].client \in Lsp!ClientIds
    BY DEF LspInv, Attached
  <2>5. \A x \in LspOps \ {q} : lsp'[x] = R[x]
    BY <2>1, <2>2
  <2>6. lsp' \in [LspOps -> Operations] /\ lsp'[q].at = "idle"
    BY <1>3, <2>1, <2>2
  <2> QED
    BY <1>1, <1>2, <2>1, <2>3, <2>4, <2>5, <2>6
<1>8. LspTyped'
  BY <1>5, <1>6, <1>7, <1>4, ServicesAssumptions DEF LspTyped, ServicesAssumptions
<1>9. Owned'
  <2>1. \A b \in Lsp!ClientIds : rpc'[b].child = 0
    BY <1>1, <1>5 DEF LspInv, Owned, Lsp!ClientIds
  <2> QED
    BY <1>6, <2>1 DEF Owned
<1>10. Attached'
  BY <1>7 DEF Attached
<1> QED
  BY <1>8, <1>9, <1>10 DEF LspInv

\* A failed initialization alone changes nothing but the operation.
LEMMA InitializeFailsKeeps ==
    ASSUME LspInv, NEW q \in LspOps, Lsp!InitializeFails(q)
    PROVE  LspInv'
<1>1. lsp[q].at = "fail"
  BY DEF Lsp!InitializeFails
<1>2. CASE lsp[q].kind = "symbols"
  BY <1>1, <1>2, GiveUpKeeps DEF Lsp!InitializeFails
<1>3. CASE lsp[q].kind # "symbols"
  <2> DEFINE on == [lsp[q] EXCEPT !.at = "next", !.todo = lsp[q].todo \ {Lsp!File(q)}]
  <2>1. /\ UNCHANGED <<current, rpc, server>>
        /\ lsp' = [lsp EXCEPT ![q] = on] \/ lsp' = [lsp EXCEPT ![q] = Lsp!NoOp]
    <3> DEFINE more == lsp[q].kind = "diagnose" /\ Lsp!Cardinality(lsp[q].todo) > 1
    <3>1. UNCHANGED <<current, rpc, server>>
          /\ lsp' = [lsp EXCEPT ![q] = IF more THEN on ELSE Lsp!NoOp]
      <4>1. lsp[q] \in Operations
        BY DEF LspInv, LspTyped
      <4>2. CASE more
        BY <1>3, <4>1, <4>2 DEF Lsp!InitializeFails, Operations
      <4>3. CASE ~more
        BY <1>3, <4>1, <4>3 DEF Lsp!InitializeFails, Operations
      <4> HIDE DEF more
      <4> QED
        BY <4>2, <4>3
    <3> HIDE DEF more, on
    <3> QED
      BY <3>1
  <2>2. on \in Operations /\ on.at = "next"
    <3>1. lsp[q] \in Operations
      BY DEF LspInv, LspTyped
    <3> QED
      BY <3>1 DEF Operations
  <2> HIDE DEF on
  <2>3. /\ lsp' \in [LspOps -> Operations] /\ lsp'[q].at \in {"next", "idle"}
        /\ \A x \in LspOps \ {q} : lsp'[x] = lsp[x]
    BY <2>1, <2>2, NoOpTyped DEF LspInv, LspTyped
  <2>4. Attached'
    BY <2>1, <2>3 DEF LspInv, Attached
  <2> QED
    BY <2>1, <2>3, <2>4 DEF LspInv, LspTyped, Owned
<1> QED
  BY <1>2, <1>3

LEMMA EndsKeep ==
    ASSUME LspInv, NEW q \in LspOps, Lsp!Ends(q) \/ Lsp!RequestTimesOut(q)
    PROVE  LspInv'
<1>1. \A x \in LspOps : lsp[x].at \notin {"go", "fail", "err"}
  BY DEF Lsp!Ends, Lsp!RequestTimesOut, Lsp!Quiet
<1>2. /\ UNCHANGED <<current, rpc, server>>
      /\ \/ lsp' = [lsp EXCEPT ![q] = Lsp!NoOp]
         \/ lsp[q].at = "asked" /\ lsp' = [lsp EXCEPT ![q] = [lsp[q] EXCEPT !.at = "err"]]
  BY DEF Lsp!Ends, Lsp!RequestTimesOut, LspInv, LspTyped
<1>3. /\ Lsp!NoOp \in Operations /\ Lsp!NoOp.at = "idle"
      /\ [lsp[q] EXCEPT !.at = "err"] \in Operations
      /\ [lsp[q] EXCEPT !.at = "err"].at = "err"
      /\ [lsp[q] EXCEPT !.at = "err"].client = lsp[q].client
  BY ServicesAssumptions DEF Lsp!NoOp, LspInv, LspTyped, Operations, ServicesAssumptions
<1>4. /\ lsp' \in [LspOps -> Operations]
      /\ lsp'[q].at = "idle" \/ (lsp[q].at = "asked" /\ lsp'[q].at = "err"
                                 /\ lsp'[q].client = lsp[q].client)
      /\ \A x \in LspOps \ {q} : lsp'[x] = lsp[x]
  BY <1>2, <1>3 DEF LspInv, LspTyped
<1>5. lsp[q].at = "asked" => lsp[q].client = current /\ current \in Lsp!ClientIds
  BY DEF LspInv, LspTyped, Attached, Lsp!ClientIds
<1>6. Attached'
  BY <1>1, <1>2, <1>4, <1>5 DEF LspInv, Attached
<1> QED
  BY <1>2, <1>4, <1>6 DEF LspInv, LspTyped, Owned

\* initialize() ends for all that share it.
LEMMA InitializeEndsKeeps ==
    ASSUME LspInv, NEW c \in Lsp!ClientIds, NEW ok \in BOOLEAN, Lsp!InitializeEnds(c, ok)
    PROVE  LspInv'
<1> DEFINE to == IF ok THEN "go" ELSE "fail"
<1>1. \A x \in LspOps : lsp[x].at \notin {"go", "fail", "err"}
  BY DEF Lsp!InitializeEnds, Lsp!Quiet
<1>2. /\ UNCHANGED <<current, server>>
      /\ rpc' = [rpc EXCEPT ![c].init = IF ok THEN "done" ELSE "failed"]
      /\ lsp' = [x \in LspOps |-> IF lsp[x].at = "init" /\ lsp[x].client = c
                                  THEN [lsp[x] EXCEPT !.at = to] ELSE lsp[x]]
  BY DEF Lsp!InitializeEnds
<1>3. to \in {"go", "fail"}
  OBVIOUS
<1> HIDE DEF to
<1>4. ASSUME NEW x \in LspOps
      PROVE  /\ lsp'[x] \in Operations /\ lsp'[x].client = lsp[x].client
             /\ \/ lsp[x].at = "init" /\ lsp[x].client = c /\ lsp'[x].at = to
                \/ lsp'[x].at = lsp[x].at
  <2>1. lsp[x] \in Operations
    BY DEF LspInv, LspTyped
  <2>2. [lsp[x] EXCEPT !.at = to] \in Operations
        /\ [lsp[x] EXCEPT !.at = to].at = to
        /\ [lsp[x] EXCEPT !.at = to].client = lsp[x].client
    BY <1>3, <2>1 DEF Operations
  <2> QED
    BY <1>2, <2>1, <2>2
<1>5. rpc' \in [Lsp!ClientIds -> Clients] /\ \A b \in Lsp!ClientIds : rpc'[b].child = rpc[b].child
  BY <1>2 DEF LspInv, LspTyped, Clients
<1>6. LspTyped'
  BY <1>2, <1>4, <1>5 DEF LspInv, LspTyped
<1>7. Owned'
  <2>1. current # 0 => current \in Lsp!ClientIds
    BY DEF LspInv, LspTyped, Lsp!ClientIds
  <2> QED
    BY <1>2, <1>5, <2>1 DEF LspInv, Owned
<1>8. Attached'
  <2>1. ASSUME NEW x \in LspOps
        PROVE  /\ lsp'[x].at \in {"asked", "init", "go"} => lsp'[x].client = current /\ current # 0
               /\ lsp'[x].at \in {"go", "fail", "err"} => lsp'[x].at = to /\ lsp[x].at = "init"
    BY <1>1, <1>3, <1>4 DEF LspInv, Attached
  <2>2. ASSUME NEW x \in LspOps, lsp[x].at = "init"
        PROVE  lsp[x].client \in Lsp!ClientIds /\ current = lsp[x].client
    BY <2>2 DEF LspInv, LspTyped, Attached, Lsp!ClientIds
  <2> QED
    BY <1>2, <1>3, <1>4, <2>1, <2>2 DEF Attached
<1> QED
  BY <1>6, <1>7, <1>8 DEF LspInv

\* An edit may start the server of the language's client.
LEMMA FileChangedKeeps ==
    ASSUME LspInv, NEW f \in SourceFiles, Lsp!FileChanged(f)
    PROVE  LspInv'
<1> DEFINE c == current
<1>1. c \in Lsp!ClientIds /\ Lsp!CanStart(c) /\ current' = c /\ UNCHANGED lsp
  BY DEF Lsp!FileChanged, LspInv, LspTyped, Lsp!ClientIds
<1>2. server' = Lsp!Started(c)
      /\ rpc' = [rpc EXCEPT ![c].child = Lsp!Child(c), ![c].opened = rpc[c].opened \cup {f}]
  BY DEF Lsp!FileChanged
<1>3. Lsp!Child(c) \in Lsp!ServerIds /\ server' \in [Lsp!ServerIds -> Processes]
  BY <1>1, <1>2, Starts
<1> HIDE DEF c
<1>4. /\ rpc' \in [Lsp!ClientIds -> Clients] /\ rpc'[c].child = Lsp!Child(c)
      /\ \A b \in Lsp!ClientIds \ {c} : rpc'[b] = rpc[b]
  <2>1. Lsp!Child(c) \in 0..MaxServers /\ f \in Docs
    BY <1>3 DEF Lsp!ServerIds, Docs
  <2> QED
    BY <1>1, <1>2, <2>1 DEF LspInv, LspTyped, Clients
<1>5. c = current
  BY DEF c
<1>6. Owned'
  BY <1>1, <1>2, <1>3, <1>4, <1>5, StartOwns
<1> QED
  BY <1>1, <1>3, <1>4, <1>5, <1>6 DEF LspInv, LspTyped, Attached

\* A server exits, of its own or after it was killed.
LEMMA ExitsKeeps ==
    ASSUME LspInv, NEW p \in Lsp!ServerIds, Lsp!Exits(p)
    PROVE  LspInv'
<1> DEFINE c == server[p].of
           R == Lsp!Rejected(c)
<1>1. \A x \in LspOps : lsp[x].at \notin {"go", "fail", "err"}
  BY DEF Lsp!Exits, Lsp!Quiet
<1>2. /\ UNCHANGED current /\ lsp' = R /\ server[p].is \in {"up", "killed"}
      /\ server' = [server EXCEPT ![p] = Lsp!NoServer]
      /\ rpc' = [rpc EXCEPT ![c].child = 0, ![c].init = "none"]
  BY DEF Lsp!Exits
<1>3. c \in Lsp!ClientIds
  <2>1. c \in 0..MaxClients
    BY DEF LspInv, LspTyped, Processes
  <2>2. c # 0
    BY <1>2 DEF LspInv, Owned
  <2> QED
    BY <2>1, <2>2 DEF Lsp!ClientIds
<1>4. /\ R \in [LspOps -> Operations]
      /\ \A x \in LspOps :
           /\ R[x].client = lsp[x].client
           /\ \/ /\ lsp[x].client = c /\ lsp[x].at \in {"asked", "init"}
                 /\ R[x].at \in {"err", "fail"}
              \/ R[x].at = lsp[x].at
  BY RejectedTells
<1> HIDE DEF c, R
<1>5. /\ Lsp!NoServer \in Processes /\ Lsp!NoServer.is = "none" /\ 0 \in 0..MaxServers
  BY ServicesAssumptions DEF Lsp!NoServer, Processes, ServicesAssumptions
<1>6. /\ rpc' \in [Lsp!ClientIds -> Clients] /\ rpc'[c].child = 0
      /\ \A b \in Lsp!ClientIds \ {c} : rpc'[b] = rpc[b]
  BY <1>2, <1>3, <1>5 DEF LspInv, LspTyped, Clients
<1>7. /\ server' \in [Lsp!ServerIds -> Processes] /\ server'[p].is = "none"
      /\ \A s \in Lsp!ServerIds \ {p} : server'[s] = server[s]
  BY <1>2, <1>5 DEF LspInv, LspTyped
<1>8. LspTyped'
  BY <1>2, <1>4, <1>6, <1>7 DEF LspInv, LspTyped
<1>9. Owned'
  <2>1. CASE server[p].is = "up"
    <3>1. c = current /\ rpc[c].child = p
      BY <2>1 DEF c, LspInv, Owned
    <3>2. \A s \in Lsp!ServerIds : server'[s].is # "up"
      BY <1>7, <3>1 DEF LspInv, Owned
    <3>3. \A b \in Lsp!ClientIds : rpc'[b].child = 0
      BY <1>6, <3>1 DEF LspInv, Owned
    <3> QED
      BY <1>2, <1>7, <3>2, <3>3 DEF LspInv, Owned
  <2>2. CASE server[p].is = "killed"
    <3>1. c # current
      BY <2>2 DEF c, LspInv, Owned
    <3>2. current # 0 => current \in Lsp!ClientIds \ {c}
      BY <3>1 DEF LspInv, LspTyped, Lsp!ClientIds
    <3>3. \A b \in Lsp!ClientIds : rpc'[b].child # 0 =>
              b # c /\ rpc'[b] = rpc[b] /\ b = current /\ rpc[b].child # p
      BY <1>6, <2>2 DEF LspInv, Owned
    <3>4. \A s \in Lsp!ServerIds : server'[s].is = "up" =>
              current # 0 /\ server'[s].of = current /\ rpc'[current].child = s
      BY <1>6, <1>7, <3>2 DEF LspInv, Owned
    <3>5. \A b \in Lsp!ClientIds : rpc'[b].child # 0 =>
              b = current /\ rpc'[b].child \in Lsp!ServerIds \ {p}
      <4>1. \A b \in Lsp!ClientIds : rpc[b].child # 0 => rpc[b].child \in Lsp!ServerIds
        BY ServicesAssumptions
           DEF LspInv, LspTyped, Clients, Lsp!ServerIds, ServicesAssumptions
      <4> QED
        BY <3>3, <4>1
    <3>6. \A s \in Lsp!ServerIds : server'[s].is = "killed" => server'[s].of \notin {0, current}
      BY <1>7 DEF LspInv, Owned
    <3>7. \A b \in Lsp!ClientIds : rpc'[b].child # 0 => server'[rpc'[b].child].is = "up"
      BY <1>7, <3>3, <3>5 DEF LspInv, Owned
    <3> QED
      BY <1>2, <3>4, <3>5, <3>6, <3>7 DEF Owned
  <2> QED
    BY <1>2, <2>1, <2>2
<1>10. Attached'
  BY <1>1, <1>2, <1>3, <1>4 DEF LspInv, Attached
<1> QED
  BY <1>8, <1>9, <1>10 DEF LspInv

LEMMA LspNext == LspInv /\ (Lsp!Next \/ UNCHANGED LspVars) => LspInv'
<1> SUFFICES ASSUME LspInv, Lsp!Next \/ UNCHANGED LspVars PROVE LspInv'
  OBVIOUS
<1>1. ASSUME NEW q \in LspOps, Lsp!Begin(q) PROVE LspInv'
  <2>1. \A x \in LspOps : lsp[x].at \notin {"go", "fail", "err"}
    BY <1>1 DEF Lsp!Begin, Lsp!Quiet
  <2>2. PICK op \in Operations : Lsp!Enter(q, op)
    <3>1. ASSUME NEW f \in SourceFiles
          PROVE  [Lsp!NoOp EXCEPT !.kind = "query", !.todo = {f}] \in Operations
      <4>1. {f} \in SUBSET SourceFiles
        OBVIOUS
      <4> QED
        BY <4>1, NoOpTyped DEF Operations
    <3>2. /\ [Lsp!NoOp EXCEPT !.kind = "symbols"] \in Operations
          /\ [Lsp!NoOp EXCEPT !.kind = "diagnose", !.todo = SourceFiles] \in Operations
      BY NoOpTyped DEF Operations
    <3> QED
      BY <1>1, <3>1, <3>2 DEF Lsp!Begin
  <2> QED
    BY <2>1, <2>2, LspEnterKeeps
<1>2. ASSUME NEW q \in LspOps, Lsp!NextFile(q) PROVE LspInv'
  <2>1. lsp[q] \in Operations
    BY DEF LspInv, LspTyped
  <2> QED
    BY <1>2, <2>1, LspEnterKeeps DEF Lsp!NextFile
<1>3. ASSUME NEW q \in LspOps, Lsp!RequestFails(q) PROVE LspInv'
  BY <1>3, GiveUpKeeps DEF Lsp!RequestFails
<1>4. CASE UNCHANGED LspVars
  BY <1>4 DEF LspVars, LspInv, LspTyped, Owned, Attached
<1> QED
  BY <1>1, <1>2, <1>3, <1>4, LspGoKeeps, InitializeFailsKeeps, EndsKeep, InitializeEndsKeeps,
     FileChangedKeeps, ExitsKeeps DEF Lsp!Next

\* For any operations, files, clients and processes: however queries, edits, timeouts,
\* failures and exits interleave, a language server that nobody has killed is the child of
\* the language's client (WorkspaceLanguageServerManager, #clientFor() and dispose()).
THEOREM ServersAreOwned == ServicesSpec => []NoServerIsLost
<1>1. ServicesInit => LspInv
  BY LspInit DEF ServicesInit
<1>2. LspInv /\ [ServicesNext]_vars => LspInv'
  BY LspNext, StoreSteps
<1>3. LspInv => NoServerIsLost
  BY DEF LspInv, Owned, NoServerIsLost, Lsp!NoServerIsLost
<1> QED
  BY <1>1, <1>2, <1>3, PTL DEF ServicesSpec

-----------------------------------------------------------------------------
(* Maintenance.                                                            *)

MaintenanceRuns == [at : {"none", "loop", "extract", "consolidate"}, all : BOOLEAN,
                    job : SUBSET KeptTurns, todo : SUBSET KeptTurns]

KeeperTyped ==
    /\ jobs \in Seq(KeptTurns) /\ queuedYet \in SUBSET KeptTurns
    /\ runs \in [Keeper!RunIds -> MaintenanceRuns]
    /\ proposals \in SUBSET KeptTurns /\ kept \in [KeptTurns -> Nat]

\* One run at a time, which decides on pending proposals.
OneRun ==
    /\ \A r, x \in Keeper!RunIds : runs[r].at # "none" /\ runs[x].at # "none" => r = x
    /\ \A r \in Keeper!RunIds : runs[r].at # "extract" => runs[r].job = {}
    /\ \A r \in Keeper!RunIds : runs[r].at = "consolidate" => runs[r].todo \subseteq proposals

\* A turn that was queued is a job, with a run, a pending proposal, promoted or gone.
InOnePlace ==
    /\ \A i, j \in 1..Len(jobs) : jobs[i] = jobs[j] => i = j
    /\ \A i \in 1..Len(jobs) :
          /\ jobs[i] \in queuedYet \ proposals /\ kept[jobs[i]] = 0
          /\ \A r \in Keeper!RunIds : jobs[i] \notin runs[r].job
    /\ \A r \in Keeper!RunIds : \A t \in runs[r].job : t \in queuedYet \ proposals /\ kept[t] = 0
    /\ \A t \in proposals : t \in queuedYet /\ kept[t] = 0
    /\ \A t \in KeptTurns : kept[t] <= 1 /\ (kept[t] # 0 => t \in queuedYet)

KeeperInv == KeeperTyped /\ OneRun /\ InOnePlace

LEMMA KeeperInit == Keeper!Init => KeeperInv
BY DEF Keeper!Init, KeeperInv, KeeperTyped, OneRun, InOnePlace, MaintenanceRuns,
    Keeper!NoRun, Keeper!RunIds

\* A run is replaced by one that has no job, or is over.
LEMMA RunsKeep ==
    ASSUME KeeperInv, UNCHANGED <<jobs, queuedYet, proposals, kept>>,
           NEW r \in Keeper!RunIds, NEW next \in MaintenanceRuns,
           runs' = [runs EXCEPT ![r] = next], next.job = {},
           next.at # "none" => \A x \in Keeper!RunIds : x # r => runs[x].at = "none",
           next.at = "consolidate" => next.todo = proposals
    PROVE  KeeperInv'
<1>1. /\ runs' \in [Keeper!RunIds -> MaintenanceRuns] /\ runs'[r] = next
      /\ \A x \in Keeper!RunIds \ {r} : runs'[x] = runs[x]
  BY DEF KeeperInv, KeeperTyped
<1>2. OneRun'
  BY <1>1 DEF KeeperInv, OneRun
<1>3. InOnePlace'
  BY <1>1 DEF KeeperInv, InOnePlace
<1> QED
  BY <1>1, <1>2, <1>3 DEF KeeperInv, KeeperTyped

\* A new run starts if there is none.
LEMMA MaintenanceStarts ==
    ASSUME KeeperInv, NEW all \in BOOLEAN, Keeper!NoneRuns, Keeper!Start(all),
           UNCHANGED <<jobs, queuedYet, proposals, kept>>
    PROVE  KeeperInv'
<1> DEFINE r == Keeper!FreeRun
           next == [Keeper!NoRun EXCEPT !.at = "loop", !.all = all]
<1>1. r \in Keeper!RunIds
  BY DEF Keeper!FreeRun, Keeper!NoneRuns, Keeper!RunIds
<1>2. next \in MaintenanceRuns /\ next.job = {} /\ next.at = "loop"
  BY DEF Keeper!NoRun, MaintenanceRuns
<1>3. runs' = [runs EXCEPT ![r] = next]
  BY DEF Keeper!Start
<1>4. \A x \in Keeper!RunIds : runs[x].at = "none"
  BY DEF Keeper!NoneRuns
<1> HIDE DEF r, next
<1> QED
  BY <1>1, <1>2, <1>3, <1>4, RunsKeep

\* A run ends, and some of its proposals are promoted or rejected.
LEMMA DecideKeeps ==
    ASSUME KeeperInv, NEW r \in Keeper!RunIds, runs[r].at = "consolidate", Keeper!Decide(r),
           runs' = [runs EXCEPT ![r] = Keeper!NoRun], UNCHANGED <<jobs, queuedYet>>
    PROVE  KeeperInv'
<1>1. PICK yes \in SUBSET runs[r].todo : \E no \in SUBSET runs[r].todo :
          /\ kept' = [t \in KeptTurns |-> IF t \in yes THEN kept[t] + 1 ELSE kept[t]]
          /\ proposals' = proposals \ (yes \cup no)
  BY DEF Keeper!Decide
<1>2. yes \in SUBSET proposals /\ yes \in SUBSET KeptTurns
  BY DEF KeeperInv, KeeperTyped, OneRun
<1>3. proposals' \in SUBSET (proposals \ yes) /\ proposals' \in SUBSET KeptTurns
  BY <1>1 DEF KeeperInv, KeeperTyped
<1>4. kept' \in [KeptTurns -> Nat]
      /\ \A t \in KeptTurns : kept'[t] = IF t \in yes THEN kept[t] + 1 ELSE kept[t]
  BY <1>1 DEF KeeperInv, KeeperTyped
<1>5. Keeper!NoRun \in MaintenanceRuns /\ Keeper!NoRun.job = {} /\ Keeper!NoRun.at = "none"
  BY DEF Keeper!NoRun, MaintenanceRuns
<1>6. /\ runs' \in [Keeper!RunIds -> MaintenanceRuns] /\ runs'[r] = Keeper!NoRun
      /\ \A x \in Keeper!RunIds \ {r} : runs'[x] = runs[x] /\ runs[x].at = "none"
  BY <1>5 DEF KeeperInv, KeeperTyped, OneRun
<1>7. OneRun'
  BY <1>5, <1>6 DEF KeeperInv, OneRun
<1>8. \A i \in 1..Len(jobs) : jobs[i] \in KeptTurns /\ jobs[i] \notin yes
  BY <1>2 DEF KeeperInv, KeeperTyped, InOnePlace
<1>9. \A t \in yes : kept[t] = 0 /\ t \in queuedYet
  BY <1>2 DEF KeeperInv, InOnePlace
<1>10. InOnePlace'
  <2>1. \A i \in 1..Len(jobs) :
          /\ jobs[i] \in queuedYet \ proposals' /\ kept'[jobs[i]] = 0
          /\ \A x \in Keeper!RunIds : jobs[i] \notin runs'[x].job
    BY <1>3, <1>4, <1>5, <1>6, <1>8 DEF KeeperInv, InOnePlace
  <2>2. \A x \in Keeper!RunIds : runs'[x].job = {}
    BY <1>5, <1>6 DEF KeeperInv, OneRun
  <2>3. \A t \in proposals' : t \in queuedYet /\ kept'[t] = 0
    BY <1>3, <1>4 DEF KeeperInv, InOnePlace
  <2>4. \A t \in KeptTurns : kept'[t] <= 1 /\ (kept'[t] # 0 => t \in queuedYet)
    BY <1>4, <1>9 DEF KeeperInv, InOnePlace
  <2> QED
    BY <2>1, <2>2, <2>3, <2>4 DEF KeeperInv, InOnePlace
<1> QED
  BY <1>3, <1>4, <1>6, <1>7, <1>10 DEF KeeperInv, KeeperTyped

\* A run ends or goes on with what was proposed from its job.
LEMMA ExtractKeeps ==
    ASSUME KeeperInv, NEW r \in Keeper!RunIds, runs[r].at = "extract",
           proposals' \in {proposals, proposals \cup runs[r].job},
           NEW next \in MaintenanceRuns, next.at \in {"none", "loop"}, next.job = {},
           runs' = [runs EXCEPT ![r] = next], UNCHANGED <<jobs, queuedYet, kept>>
    PROVE  KeeperInv'
<1>1. /\ runs' \in [Keeper!RunIds -> MaintenanceRuns] /\ runs'[r] = next
      /\ \A x \in Keeper!RunIds \ {r} : runs'[x] = runs[x] /\ runs[x].at = "none"
  BY DEF KeeperInv, KeeperTyped, OneRun
<1>2. runs[r].job \in SUBSET KeptTurns
  BY DEF KeeperInv, KeeperTyped, MaintenanceRuns
<1>3. KeeperTyped'
  BY <1>1, <1>2 DEF KeeperInv, KeeperTyped
<1>4. OneRun'
  BY <1>1 DEF KeeperInv, OneRun
<1>5. \A x \in Keeper!RunIds : runs'[x].job = {}
  BY <1>1 DEF KeeperInv, OneRun
<1>6. InOnePlace'
  BY <1>2, <1>5 DEF KeeperInv, InOnePlace
<1> QED
  BY <1>3, <1>4, <1>6 DEF KeeperInv

LEMMA KeeperNext == KeeperInv /\ (Keeper!Next \/ UNCHANGED KeeperVars) => KeeperInv'
<1> SUFFICES ASSUME KeeperInv, Keeper!Next \/ UNCHANGED KeeperVars PROVE KeeperInv'
  OBVIOUS
<1>0. /\ Keeper!NoRun \in MaintenanceRuns /\ Keeper!NoRun.job = {}
      /\ Keeper!NoRun.at = "none"
  BY DEF Keeper!NoRun, MaintenanceRuns
<1>1. ASSUME NEW t \in KeptTurns, Keeper!QueueTurn(t) PROVE KeeperInv'
  <2>1. /\ t \notin queuedYet /\ queuedYet' = queuedYet \cup {t} /\ jobs' = Append(jobs, t)
        /\ UNCHANGED <<runs, proposals, kept>>
    BY <1>1 DEF Keeper!QueueTurn
  <2>2. jobs' \in Seq(KeptTurns) /\ Len(jobs') = Len(jobs) + 1 /\ Len(jobs) \in Nat
        /\ jobs'[Len(jobs) + 1] = t /\ \A i \in 1..Len(jobs) : jobs'[i] = jobs[i]
    BY <2>1 DEF KeeperInv, KeeperTyped
  <2>3. kept[t] = 0 /\ t \notin proposals /\ \A r \in Keeper!RunIds : t \notin runs[r].job
    BY <2>1 DEF KeeperInv, KeeperTyped, InOnePlace
  <2>4. \A i \in 1..Len(jobs) : jobs[i] # t
    BY <2>1 DEF KeeperInv, InOnePlace
  <2>5. \A i \in 1..Len(jobs') : i \in 1..Len(jobs) \/ i = Len(jobs) + 1
    BY <2>2
  <2>6. InOnePlace'
    <3>1. \A i, j \in 1..Len(jobs') : jobs'[i] = jobs'[j] => i = j
      BY <2>2, <2>4, <2>5 DEF KeeperInv, InOnePlace
    <3>2. \A i \in 1..Len(jobs') :
             /\ jobs'[i] \in queuedYet' \ proposals' /\ kept'[jobs'[i]] = 0
             /\ \A r \in Keeper!RunIds : jobs'[i] \notin runs'[r].job
      BY <2>1, <2>2, <2>3, <2>5 DEF KeeperInv, InOnePlace
    <3> QED
      BY <2>1, <3>1, <3>2 DEF KeeperInv, InOnePlace
  <2> QED
    BY <2>1, <2>2, <2>6 DEF KeeperInv, KeeperTyped, OneRun
<1>2. CASE UNCHANGED <<jobs, queuedYet, runs, proposals, kept>>
  BY <1>2 DEF KeeperInv, KeeperTyped, OneRun, InOnePlace
<1>3. CASE Keeper!TimerFires \/ Keeper!Force
  <2>1. UNCHANGED <<jobs, queuedYet, proposals, kept>>
    BY <1>3 DEF Keeper!TimerFires, Keeper!Force
  <2>2. \/ \E all \in BOOLEAN : Keeper!NoneRuns /\ Keeper!Start(all)
        \/ UNCHANGED runs
    BY <1>3 DEF Keeper!TimerFires, Keeper!Force
  <2> QED
    BY <1>2, <2>1, <2>2, MaintenanceStarts
<1>4. CASE Keeper!BackoffEnds \/ UNCHANGED KeeperVars
  BY <1>2, <1>4 DEF Keeper!BackoffEnds, KeeperVars
<1>5. ASSUME NEW r \in Keeper!RunIds, Keeper!TakeJob(r) PROVE KeeperInv'
  <2> DEFINE t == jobs[1]
  <2>1. /\ runs[r].at = "loop" /\ jobs # <<>> /\ jobs' = Tail(jobs)
        /\ runs' = [runs EXCEPT ![r] = [runs[r] EXCEPT !.at = "extract", !.job = {t}]]
        /\ UNCHANGED <<queuedYet, proposals, kept>>
    <3>1. /\ runs[r].at = "loop" /\ jobs # <<>> /\ jobs' = Tail(jobs)
          /\ runs' = [runs EXCEPT ![r].at = "extract", ![r].job = {Head(jobs)}]
          /\ UNCHANGED <<queuedYet, proposals, kept>>
      BY <1>5 DEF Keeper!TakeJob
    <3>2. Head(jobs) = jobs[1]
      BY <3>1 DEF KeeperInv, KeeperTyped
    <3>3. runs' = [runs EXCEPT ![r].at = "extract", ![r].job = {t}]
      BY <3>1, <3>2
    <3> HIDE DEF t
    <3>4. runs' = [runs EXCEPT ![r] = [runs[r] EXCEPT !.at = "extract", !.job = {t}]]
      BY <3>3 DEF KeeperInv, KeeperTyped
    <3> QED
      BY <3>1, <3>4
  <2>2. /\ Len(jobs) \in Nat \ {0} /\ jobs' \in Seq(KeptTurns) /\ Len(jobs') = Len(jobs) - 1
        /\ \A i \in 1..Len(jobs') : i + 1 \in 1..Len(jobs) /\ jobs'[i] = jobs[i + 1]
        /\ t \in KeptTurns /\ 1 \in 1..Len(jobs)
    BY <2>1 DEF KeeperInv, KeeperTyped
  <2> HIDE DEF t
  <2>3. /\ runs' \in [Keeper!RunIds -> MaintenanceRuns]
        /\ runs'[r].at = "extract" /\ runs'[r].job = {t}
        /\ \A x \in Keeper!RunIds \ {r} : runs'[x] = runs[x]
             /\ runs[x].at = "none" /\ runs[x].job = {}
    BY <2>1, <2>2 DEF KeeperInv, KeeperTyped, OneRun, MaintenanceRuns
  <2>4. OneRun'
    BY <2>1, <2>3 DEF KeeperInv, OneRun
  <2>5. t \in queuedYet \ proposals /\ kept[t] = 0
    BY <2>2 DEF t, KeeperInv, InOnePlace
  <2>6. \A i \in 1..Len(jobs') : jobs'[i] # t
    <3>1. \A i \in 1..Len(jobs') : i \in Nat /\ i # 0
      BY <2>2
    <3> QED
      BY <2>2, <3>1 DEF t, KeeperInv, InOnePlace
  <2>7. \A i, j \in 1..Len(jobs') : jobs'[i] = jobs'[j] => i = j
    <3>1. ASSUME NEW i \in 1..Len(jobs'), NEW j \in 1..Len(jobs'), jobs'[i] = jobs'[j]
          PROVE  i = j
      <4>1. i + 1 = j + 1
        BY <2>2, <3>1 DEF KeeperInv, InOnePlace
      <4>2. i \in Nat /\ j \in Nat
        BY <2>2
      <4> QED
        BY <4>1, <4>2
    <3> QED
      BY <3>1
  <2>8. \A i \in 1..Len(jobs') : jobs'[i] \in queuedYet \ proposals /\ kept[jobs'[i]] = 0
    BY <2>2 DEF KeeperInv, InOnePlace
  <2>9. InOnePlace'
    BY <2>1, <2>3, <2>5, <2>6, <2>7, <2>8 DEF KeeperInv, InOnePlace
  <2> QED
    BY <2>1, <2>2, <2>3, <2>4, <2>9 DEF KeeperInv, KeeperTyped
<1>6. ASSUME NEW r \in Keeper!RunIds, Keeper!Extracted(r) PROVE KeeperInv'
  <2> DEFINE next == [runs[r] EXCEPT !.at = "loop", !.job = {}]
  <2>1. /\ runs[r].at = "extract" /\ runs' = [runs EXCEPT ![r] = next]
        /\ proposals' \in {proposals, proposals \cup runs[r].job}
        /\ UNCHANGED <<jobs, queuedYet, kept>>
    BY <1>6 DEF Keeper!Extracted, KeeperInv, KeeperTyped
  <2>2. next \in MaintenanceRuns /\ next.at = "loop" /\ next.job = {}
    BY DEF KeeperInv, KeeperTyped, MaintenanceRuns
  <2> HIDE DEF next
  <2> QED
    BY <2>1, <2>2, ExtractKeeps
<1>7. ASSUME NEW r \in Keeper!RunIds, Keeper!JobsDone(r) PROVE KeeperInv'
  <2> DEFINE next == [runs[r] EXCEPT !.at = "consolidate", !.todo = proposals]
  <2>1. /\ runs[r].at = "loop" /\ UNCHANGED <<jobs, queuedYet, proposals, kept>>
        /\ runs' = [runs EXCEPT ![r] = next] \/ runs' = [runs EXCEPT ![r] = Keeper!NoRun]
    BY <1>7 DEF Keeper!JobsDone, Keeper!Done, KeeperInv, KeeperTyped
  <2>2. next \in MaintenanceRuns /\ next.at = "consolidate" /\ next.job = {}
        /\ next.todo = proposals
    BY <2>1 DEF KeeperInv, KeeperTyped, OneRun, MaintenanceRuns
  <2>3. \A x \in Keeper!RunIds : x # r => runs[x].at = "none"
    BY <2>1 DEF KeeperInv, OneRun
  <2> HIDE DEF next
  <2> QED
    BY <1>0, <2>1, <2>2, <2>3, RunsKeep
<1>8. ASSUME NEW r \in Keeper!RunIds, Keeper!Consolidated(r) \/ Keeper!ConsolidateFails(r)
      PROVE  KeeperInv'
  BY <1>8, DecideKeeps DEF Keeper!Consolidated, Keeper!ConsolidateFails, Keeper!Done,
                           Keeper!MarkDegraded
<1>9. ASSUME NEW r \in Keeper!RunIds, Keeper!ExtractFails(r) PROVE KeeperInv'
  BY <1>0, <1>9, ExtractKeeps DEF Keeper!ExtractFails, Keeper!MarkDegraded
<1>10. CASE Keeper!Restart
  <2> DEFINE next == [Keeper!NoRun EXCEPT !.at = "loop", !.all = TRUE]
  <2>1. /\ jobs' = <<>> /\ UNCHANGED <<queuedYet, proposals, kept>>
        /\ runs' = [runs EXCEPT ![1] = next, ![2] = Keeper!NoRun]
    BY <1>10 DEF Keeper!Restart
  <2>2. next \in MaintenanceRuns /\ next.at = "loop" /\ next.job = {}
    BY DEF Keeper!NoRun, MaintenanceRuns
  <2> HIDE DEF next
  <2>3. /\ runs' \in [Keeper!RunIds -> MaintenanceRuns] /\ runs'[1] = next
        /\ runs'[2] = Keeper!NoRun
    BY <1>0, <2>1, <2>2 DEF KeeperInv, KeeperTyped, Keeper!RunIds
  <2>4. OneRun'
    BY <1>0, <2>2, <2>3 DEF OneRun, Keeper!RunIds
  <2>5. InOnePlace'
    BY <1>0, <2>1, <2>2, <2>3 DEF KeeperInv, InOnePlace, Keeper!RunIds
  <2> QED
    BY <2>1, <2>3, <2>4, <2>5 DEF KeeperInv, KeeperTyped
<1> QED
  BY <1>1, <1>3, <1>4, <1>5, <1>6, <1>7, <1>8, <1>9, <1>10 DEF Keeper!Next

-----------------------------------------------------------------------------
(* SkillSources: what the sessions are told.                               *)

SkillPlaces == SkillProjects \X {"root", "sub"}
Events == [s : SkillReaders, key : [is : {"sources", "skill"},
                                    of : SUBSET (SkillPlaces \cup {"root", "sub"})]]

EventsInv ==
    /\ projectRoot \in SkillProjects /\ skillTold \in Seq(Events)
    /\ \A i, j \in 1..Len(skillTold) : skillTold[i] = skillTold[j] => i = j

LEMMA EventsInit == Packages!Init => EventsInv
BY ServicesAssumptions DEF Packages!Init, EventsInv, ServicesAssumptions

\* An event that was not told before is added.
LEMMA TellsOne ==
    ASSUME NEW T \in Seq(Events), NEW e \in Events,
           \A i, j \in 1..Len(T) : T[i] = T[j] => i = j,
           \A i \in 1..Len(T) : T[i] # e
    PROVE  /\ Append(T, e) \in Seq(Events)
           /\ \A i, j \in 1..Len(Append(T, e)) : Append(T, e)[i] = Append(T, e)[j] => i = j
           /\ \A i \in 1..Len(Append(T, e)) : Append(T, e)[i] = e \/ i \in 1..Len(T)
           /\ \A i \in 1..Len(T) : Append(T, e)[i] = T[i]
<1> DEFINE U == Append(T, e)
<1>1. /\ U \in Seq(Events) /\ Len(U) = Len(T) + 1 /\ Len(T) \in Nat
      /\ U[Len(T) + 1] = e /\ \A i \in 1..Len(T) : U[i] = T[i]
  OBVIOUS
<1> HIDE DEF U
<1>2. \A i \in 1..Len(U) : i \in 1..Len(T) \/ i = Len(T) + 1
  BY <1>1
<1>3. \A i, j \in 1..Len(U) : U[i] = U[j] => i = j
  BY <1>1, <1>2
<1> QED
  BY <1>1, <1>2, <1>3 DEF U

\* activateForTouchedPaths() tells of sources and of a skill, which differ, if these were
\* not told before.
LEMMA TouchTells ==
    ASSUME EventsInv, NEW reader \in SkillReaders, NEW dir \in {"root", "sub"},
           SourceLists!Touch(reader, dir)
    PROVE  EventsInv'
<1> DEFINE roots == SourceLists!DynamicSkillRoots(projectRoot, dir)
           added == roots \ skillList.dynamic
           found == [is |-> "sources", of |-> added]
           match == [is |-> "skill", of |-> {dir}]
           news == IF added # {} /\ ~SourceLists!HasDynamicEvent(reader, found)
                   THEN <<found>> ELSE <<>>
           near == dir = "sub" /\ \E place \in index' : place[2] = "sub"
           matched == IF near /\ ~SourceLists!HasDynamicEvent(reader, match)
                      THEN <<match>> ELSE <<>>
           both == news \o matched
           tell == [n \in DOMAIN both |-> [s |-> reader, key |-> both[n]]]
           e1 == [s |-> reader, key |-> found]
           e2 == [s |-> reader, key |-> match]
<1>1. UNCHANGED projectRoot /\ skillTold' = skillTold \o tell
  BY DEF SourceLists!Touch
<1>2. e1 \in Events /\ e2 \in Events /\ e1 # e2
  <2>1. added \in SUBSET SkillPlaces
    BY DEF SourceLists!DynamicSkillRoots, EventsInv, SkillPlaces
  <2>2. {dir} \in SUBSET {"root", "sub"}
    OBVIOUS
  <2> HIDE DEF added
  <2>3. found \in [is : {"sources", "skill"}, of : SUBSET (SkillPlaces \cup {"root", "sub"})]
    BY <2>1
  <2>4. match \in [is : {"sources", "skill"}, of : SUBSET (SkillPlaces \cup {"root", "sub"})]
    BY <2>2
  <2>5. found # match
    <3>1. found.is # match.is
      OBVIOUS
    <3> QED
      BY <3>1
  <2> HIDE DEF found, match
  <2>6. e1.key # e2.key
    BY <2>5
  <2> QED
    BY <2>3, <2>4, <2>6 DEF Events
<1>10. DOMAIN skillTold = 1..Len(skillTold)
  BY DEF EventsInv
<1>11. ASSUME NEW key, ~SourceLists!HasDynamicEvent(reader, key)
       PROVE  \A i \in 1..Len(skillTold) : skillTold[i] # [s |-> reader, key |-> key]
  BY <1>10, <1>11 DEF SourceLists!HasDynamicEvent
<1>12. news = <<>> \/ (news = <<found>> /\ ~SourceLists!HasDynamicEvent(reader, found))
  OBVIOUS
<1>13. matched = <<>> \/ (matched = <<match>> /\ ~SourceLists!HasDynamicEvent(reader, match))
  OBVIOUS
<1> HIDE DEF news, matched, found, match
<1>3. news = <<>> \/ (news = <<found>> /\ \A i \in 1..Len(skillTold) : skillTold[i] # e1)
  BY <1>11, <1>12
<1>4. matched = <<>> \/ (matched = <<match>> /\ \A i \in 1..Len(skillTold) : skillTold[i] # e2)
  BY <1>11, <1>13
<1>5. \/ both = <<>> /\ tell = <<>>
      \/ tell = <<e1>> /\ \A i \in 1..Len(skillTold) : skillTold[i] # e1
      \/ tell = <<e2>> /\ \A i \in 1..Len(skillTold) : skillTold[i] # e2
      \/ /\ tell = <<e1, e2>> /\ \A i \in 1..Len(skillTold) : skillTold[i] \notin {e1, e2}
  <2>1. CASE news = <<>> /\ matched = <<>>
    BY <2>1
  <2>2. CASE news = <<found>> /\ matched = <<>>
    BY <1>3, <2>2
  <2>3. CASE news = <<>> /\ matched = <<match>>
    BY <1>4, <2>3
  <2>4. CASE news = <<found>> /\ matched = <<match>>
    BY <1>3, <1>4, <2>4
  <2> QED
    BY <1>3, <1>4, <2>1, <2>2, <2>3, <2>4
<1>6. /\ skillTold \in Seq(Events)
      /\ \A i, j \in 1..Len(skillTold) : skillTold[i] = skillTold[j] => i = j
  BY DEF EventsInv
<1> HIDE DEF both, tell, e1, e2
<1>7. CASE tell = <<>>
  BY <1>1, <1>6, <1>7 DEF EventsInv
<1>8. ASSUME NEW e \in Events, tell = <<e>>, \A i \in 1..Len(skillTold) : skillTold[i] # e
      PROVE  EventsInv'
  <2>1. skillTold' = Append(skillTold, e)
    BY <1>1, <1>6, <1>8
  <2> QED
    BY <1>1, <1>6, <1>8, <2>1, TellsOne DEF EventsInv
<1>9. CASE /\ tell = <<e1, e2>> /\ \A i \in 1..Len(skillTold) : skillTold[i] \notin {e1, e2}
  <2> DEFINE U == Append(skillTold, e1)
  <2>1. skillTold' = Append(U, e2)
    BY <1>1, <1>2, <1>6, <1>9
  <2>2. /\ U \in Seq(Events) /\ \A i, j \in 1..Len(U) : U[i] = U[j] => i = j
        /\ \A i \in 1..Len(U) : U[i] = e1 \/ i \in 1..Len(skillTold)
        /\ \A i \in 1..Len(skillTold) : U[i] = skillTold[i]
    BY <1>2, <1>6, <1>9, TellsOne
  <2> HIDE DEF U
  <2>3. \A i \in 1..Len(U) : U[i] # e2
    BY <1>2, <1>9, <2>2
  <2> QED
    BY <1>1, <1>2, <2>1, <2>2, <2>3, TellsOne DEF EventsInv
<1> QED
  BY <1>2, <1>5, <1>7, <1>8, <1>9

LEMMA EventsNext ==
    EventsInv /\ (SourceLists!Next \/ Packages!Next \/ UNCHANGED SkillSourcesVars) => EventsInv'
<1> SUFFICES ASSUME EventsInv, SourceLists!Next \/ Packages!Next \/ UNCHANGED SkillSourcesVars
             PROVE  EventsInv'
  OBVIOUS
<1>1. CASE UNCHANGED skillTold /\ projectRoot' \in SkillProjects
  BY <1>1 DEF EventsInv
<1>2. projectRoot \in SkillProjects /\ Home \in SkillProjects
  BY ServicesAssumptions DEF EventsInv, ServicesAssumptions
<1>3. CASE SourceLists!Next
  <2>1. CASE SourceLists!PackageNext
    <3>1. UNCHANGED <<skillTold, projectRoot>>
      BY <2>1 DEF SourceLists!PackageNext, SourceLists!InstallStarts, SourceLists!FetchRegistry,
        SourceLists!DownloadRegistryFile, SourceLists!Installed,
        SourceLists!GitHubInstallStarts, SourceLists!ViaTree, SourceLists!ViaTarball,
        SourceLists!GitHubInstalled, SourceLists!InstallFails, SourceLists!ListedChanges,
        SourceLists!ServedChanges, SourceLists!Commit, SourceLists!catalogVars
    <3> QED
      BY <1>1, <1>2, <3>1
  <2>2. CASE SourceLists!CatalogNext
    BY <1>1, <1>2, <2>2, TouchTells DEF SourceLists!CatalogNext, SourceLists!SetProjectRoot,
        SourceLists!AddSource, SourceLists!RemoveSource, SourceLists!Restart
  <2> QED
    BY <1>3, <2>1, <2>2 DEF SourceLists!Next
<1>4. CASE Packages!Next
  <2>1. CASE Packages!PackageNext
    <3>1. UNCHANGED <<skillTold, projectRoot>>
      BY <2>1 DEF Packages!PackageNext, Packages!InstallStarts, Packages!FetchRegistry,
        Packages!DownloadRegistryFile, Packages!Installed,
        Packages!GitHubInstallStarts, Packages!ViaTree, Packages!ViaTarball,
        Packages!GitHubInstalled, Packages!InstallFails, Packages!ListedChanges,
        Packages!ServedChanges, Packages!Commit, Packages!catalogVars
    <3> QED
      BY <1>1, <1>2, <3>1
  <2>2. CASE Packages!CatalogNext
    BY <1>1, <1>2, <2>2 DEF Packages!CatalogNext, Packages!SetProjectRoot,
        Packages!AddSource, Packages!RemoveSource, Packages!Restart
  <2> QED
    BY <1>4, <2>1, <2>2 DEF Packages!Next
<1>5. CASE UNCHANGED SkillSourcesVars
  BY <1>1, <1>2, <1>5 DEF SkillSourcesVars
<1> QED
  BY <1>3, <1>4, <1>5

\* For any turns, readers, projects and thresholds: with timers, forced runs, failures and
\* restarts no proposal enters the store twice (MemoryManager, SkillEvolutionManager), and
\* no session is told twice of the same skill or sources (#hasDynamicEvent).
THEOREM ProposalsArePromotedOnce == ServicesSpec => []PromotedOnce
<1>1. ServicesInit => KeeperInv /\ EventsInv
  BY KeeperInit, EventsInit DEF ServicesInit
<1>2. KeeperInv /\ [ServicesNext]_vars => KeeperInv'
  BY KeeperNext, StoreSteps
<1>3. EventsInv /\ [ServicesNext]_vars => EventsInv'
  BY EventsNext, StoreSteps
<1>4. KeeperInv => Keeper!PromotedOnce
  BY DEF KeeperInv, InOnePlace, Keeper!PromotedOnce
<1>5. EventsInv => SourceLists!ToldOnce
  BY DEF EventsInv, SourceLists!ToldOnce, SourceLists!IsInjective
<1> QED
  BY <1>1, <1>2, <1>3, <1>4, <1>5, PTL DEF ServicesSpec, PromotedOnce

-----------------------------------------------------------------------------
(* WebConsole: the event stream.                                           *)

LEMMA Greatest ==
    ASSUME NEW n \in Nat, NEW S \in SUBSET (1..n), S # {}
    PROVE  \E m \in S : \A k \in S : k <= m
<1> DEFINE T == {n - k : k \in S}
<1>1. T \in SUBSET Nat /\ T # {}
  <2>1. \A k \in S : k \in 1..n /\ n - k \in Nat /\ n - k \in T
    OBVIOUS
  <2> QED
    BY <2>1
<1>2. PICK d \in T : \A k \in T : d <= k
  <2> HIDE DEF T
  <2> QED
    BY <1>1, Smallest
<1>3. PICK m \in S : d = n - m
  BY <1>2
<1>4. ASSUME NEW k \in S PROVE k <= m
  <2>1. n - k \in T /\ k \in 1..n /\ m \in 1..n
    OBVIOUS
  <2>2. n - m <= n - k
    BY <1>2, <1>3, <2>1
  <2> HIDE DEF T
  <2> QED
    BY <2>1, <2>2
<1>5. \A k \in S : k <= m
  BY <1>4
<1> QED
  BY <1>5

LEMMA TopIsIn ==
    ASSUME NEW n \in Nat, NEW S \in SUBSET (1..n)
    PROVE  Console!Top(S) \in 0..n
<1>1. CASE S = {}
  BY <1>1 DEF Console!Top
<1>2. CASE S # {}
  <2>1. \E m \in S : \A k \in S : k <= m
    BY <1>2, Greatest
  <2>2. Console!Max(S) \in S
    BY <2>1 DEF Console!Max
  <2>3. Console!Top(S) = Console!Max(S)
    BY <1>2 DEF Console!Top
  <2>4. \A k \in S : k \in 0..n
    OBVIOUS
  <2> QED
    BY <2>2, <2>3, <2>4
<1> QED
  BY <1>1, <1>2

Fetches == [kind : {"load", "reconcile"}, session : ConsoleSessions, from : Nat,
            events : SUBSET Nat, done : BOOLEAN]

ConsoleTyped ==
    /\ elog \in Seq(ConsoleSessions) /\ selected \in ConsoleSessions
    /\ stream \in [at : {"closed", "opening", "open"}, from : Nat]
    /\ wire \in Seq(Nat) /\ seen \in Seq(Nat) /\ cursor \in Nat
    /\ thread \in SUBSET (1..Len(elog)) /\ fetches \in Seq(Fetches)

\* The cursor of the console and of its stream, and what was fetched, are events that
\* happened.
CursorsHappened ==
    /\ stream.from <= Len(elog) /\ cursor <= Len(elog)
    /\ \A i \in 1..Len(fetches) : fetches[i].events \in SUBSET (1..Len(elog))

\* What was delivered and what is under way follow the cursor, one after the other.
StreamIsWhole ==
    /\ stream.at # "open" => seen = <<>> /\ wire = <<>>
    /\ stream.at = "open" =>
         /\ Len(seen) + Len(wire) = Len(elog) - stream.from
         /\ \A i \in 1..Len(seen) : seen[i] = stream.from + i
         /\ \A i \in 1..Len(wire) : wire[i] = stream.from + Len(seen) + i

ConsoleInv == ConsoleTyped /\ CursorsHappened /\ StreamIsWhole

LEMMA ConsoleInit == Console!Init => ConsoleInv
BY DEF Console!Init, Console!Closed, ConsoleInv, ConsoleTyped, CursorsHappened, StreamIsWhole

LEMMA PublishKeeps ==
    ASSUME ConsoleInv, NEW author \in ConsoleSessions, Console!Publish(author)
    PROVE  ConsoleInv'
<1>1. /\ elog' = Append(elog, author)
      /\ wire' = IF stream.at = "open" THEN Append(wire, Len(elog) + 1) ELSE wire
      /\ UNCHANGED <<stream, seen, cursor, selected, thread, fetches>>
  BY DEF Console!Publish
<1>2. elog' \in Seq(ConsoleSessions) /\ Len(elog') = Len(elog) + 1 /\ Len(elog) \in Nat
  BY <1>1 DEF ConsoleInv, ConsoleTyped
<1>3. ConsoleTyped'
  BY <1>1, <1>2 DEF ConsoleInv, ConsoleTyped
<1>4. CursorsHappened'
  BY <1>1, <1>2 DEF ConsoleInv, ConsoleTyped, CursorsHappened
<1>5. CASE stream.at # "open"
  BY <1>1, <1>5, <1>3, <1>4 DEF ConsoleInv, StreamIsWhole
<1>6. CASE stream.at = "open"
  <2>1. /\ wire \in Seq(Nat) /\ Len(wire) \in Nat /\ Len(seen) \in Nat /\ stream.from \in Nat
    BY DEF ConsoleInv, ConsoleTyped
  <2>2. /\ Len(wire') = Len(wire) + 1 /\ wire'[Len(wire) + 1] = Len(elog) + 1
        /\ \A i \in 1..Len(wire) : wire'[i] = wire[i]
    BY <1>1, <1>2, <1>6, <2>1
  <2>3. \A i \in 1..Len(wire') : i \in 1..Len(wire) \/ i = Len(wire) + 1
    BY <2>1, <2>2
  <2>4. StreamIsWhole'
    BY <1>1, <1>2, <1>6, <2>1, <2>2, <2>3 DEF ConsoleInv, StreamIsWhole
  <2> QED
    BY <1>3, <1>4, <2>4 DEF ConsoleInv
<1> QED
  BY <1>5, <1>6

LEMMA HandleSseKeeps == ConsoleInv /\ Console!HandleSse => ConsoleInv'
<1> SUFFICES ASSUME ConsoleInv, Console!HandleSse PROVE ConsoleInv'
  OBVIOUS
<1>1. /\ stream.at = "opening" /\ wire' = [i \in 1..(Len(elog) - stream.from) |-> stream.from + i]
      /\ stream' = [stream EXCEPT !.at = "open"]
      /\ UNCHANGED <<elog, seen, cursor, selected, thread, fetches>>
  BY DEF Console!HandleSse, Console!Replay
<1>2. Len(elog) - stream.from \in Nat /\ stream.from \in Nat /\ Len(elog) \in Nat
  BY DEF ConsoleInv, ConsoleTyped, CursorsHappened
<1>3. wire' \in Seq(Nat) /\ Len(wire') = Len(elog) - stream.from
      /\ \A i \in 1..Len(wire') : wire'[i] = stream.from + i
  BY <1>1, <1>2
<1>4. /\ stream' \in [at : {"closed", "opening", "open"}, from : Nat]
      /\ stream'.at = "open" /\ stream'.from = stream.from
  BY <1>1 DEF ConsoleInv, ConsoleTyped
<1>5. seen' = <<>> /\ Len(seen') = 0
  BY <1>1 DEF ConsoleInv, StreamIsWhole
<1>6. ConsoleTyped'
  BY <1>1, <1>3, <1>4 DEF ConsoleInv, ConsoleTyped
<1>7. StreamIsWhole'
  BY <1>1, <1>2, <1>3, <1>4, <1>5 DEF StreamIsWhole
<1>8. CursorsHappened'
  BY <1>1, <1>4 DEF ConsoleInv, CursorsHappened
<1> QED
  BY <1>6, <1>7, <1>8 DEF ConsoleInv

LEMMA ReceiveKeeps == ConsoleInv /\ Console!Receive => ConsoleInv'
<1> SUFFICES ASSUME ConsoleInv, Console!Receive PROVE ConsoleInv'
  OBVIOUS
<1> DEFINE e == Head(wire)
<1>1. /\ wire # <<>> /\ wire' = Tail(wire) /\ seen' = Append(seen, e)
      /\ cursor' = Console!Larger(cursor, e) /\ thread' \in {thread, thread \cup {e}}
      /\ UNCHANGED <<elog, stream, selected, fetches>>
  BY DEF Console!Receive
<1>2. /\ stream.at = "open" /\ Len(wire) \in Nat \ {0} /\ Len(seen) \in Nat
      /\ e = wire[1] /\ 1 \in 1..Len(wire) /\ stream.from \in Nat /\ Len(elog) \in Nat
  BY <1>1 DEF ConsoleInv, ConsoleTyped, StreamIsWhole
<1>3. e = stream.from + Len(seen) + 1 /\ e \in 1..Len(elog)
  BY <1>2 DEF ConsoleInv, StreamIsWhole
<1>4. /\ wire' \in Seq(Nat) /\ Len(wire') = Len(wire) - 1
      /\ \A i \in 1..Len(wire') : wire'[i] = wire[i + 1] /\ i + 1 \in 1..Len(wire)
  BY <1>1, <1>2 DEF ConsoleInv, ConsoleTyped
<1> HIDE DEF e
<1>5. /\ seen' \in Seq(Nat) /\ Len(seen') = Len(seen) + 1 /\ seen'[Len(seen) + 1] = e
      /\ \A i \in 1..Len(seen) : seen'[i] = seen[i]
  BY <1>1, <1>3 DEF ConsoleInv, ConsoleTyped
<1>6. cursor' \in Nat /\ cursor' <= Len(elog)
  BY <1>1, <1>2, <1>3 DEF Console!Larger, ConsoleInv, ConsoleTyped, CursorsHappened
<1>7. ConsoleTyped'
  BY <1>1, <1>3, <1>4, <1>5, <1>6 DEF ConsoleInv, ConsoleTyped
<1>8. CursorsHappened'
  BY <1>1, <1>6 DEF ConsoleInv, CursorsHappened
<1>9. StreamIsWhole'
  <2>1. \A i \in 1..Len(seen') : i \in 1..Len(seen) \/ i = Len(seen) + 1
    BY <1>2, <1>5
  <2>2. \A i \in 1..Len(seen') : seen'[i] = stream.from + i
    <3>1. ASSUME NEW i \in 1..Len(seen) PROVE seen'[i] = stream.from + i
      BY <1>2, <1>5 DEF ConsoleInv, StreamIsWhole
    <3>2. seen'[Len(seen) + 1] = stream.from + (Len(seen) + 1)
      <4>1. seen'[Len(seen) + 1] = e
        BY <1>5
      <4> QED
        BY <1>2, <1>3, <4>1
    <3> QED
      BY <2>1, <3>1, <3>2
  <2>3. \A i \in 1..Len(wire') : wire'[i] = stream.from + Len(seen') + i
    <3>1. ASSUME NEW i \in 1..Len(wire') PROVE wire'[i] = stream.from + Len(seen') + i
      <4>1. wire[i + 1] = stream.from + Len(seen) + (i + 1)
        BY <1>2, <1>4 DEF ConsoleInv, StreamIsWhole
      <4>2. i \in Nat
        BY <1>2, <1>4
      <4>3. wire'[i] = wire[i + 1]
        BY <1>4
      <4>4. Len(seen') = Len(seen) + 1 /\ Len(seen) \in Nat /\ stream.from \in Nat
        BY <1>2, <1>5
      <4>5. stream.from + Len(seen) + (i + 1) = stream.from + Len(seen') + i
        BY <4>2, <4>4
      <4> QED
        BY <4>1, <4>3, <4>5
    <3> QED
      BY <3>1
  <2>4. Len(seen') + Len(wire') = Len(elog) - stream.from
    <3>1. Len(seen) + Len(wire) = Len(elog) - stream.from
      BY <1>2 DEF ConsoleInv, StreamIsWhole
    <3> QED
      BY <1>2, <1>4, <1>5, <3>1
  <2>5. UNCHANGED <<stream, elog>>
    BY <1>1
  <2> QED
    BY <1>2, <2>2, <2>3, <2>4, <2>5 DEF StreamIsWhole
<1> QED
  BY <1>7, <1>8, <1>9 DEF ConsoleInv

\* What a fetch brings does not touch the stream.
LEMMA FetchKeeps ==
    ASSUME ConsoleInv, UNCHANGED <<elog, stream, wire, seen>>, selected' \in ConsoleSessions,
           fetches' \in Seq(Fetches),
           \A i \in 1..Len(fetches') : fetches'[i].events \in SUBSET (1..Len(elog)),
           cursor' \in Nat, cursor' <= Len(elog), thread' \in SUBSET (1..Len(elog))
    PROVE  ConsoleInv'
BY DEF ConsoleInv, ConsoleTyped, CursorsHappened, StreamIsWhole

LEMMA FetchStarts ==
    ASSUME ConsoleInv, NEW kind \in {"load", "reconcile"}, NEW who \in ConsoleSessions,
           NEW after \in Nat, Console!Fetch(kind, who, after), selected' \in ConsoleSessions,
           UNCHANGED <<elog, stream, wire, seen, cursor, thread>>
    PROVE  ConsoleInv'
<1> DEFINE f == [kind |-> kind, session |-> who, from |-> after, events |-> {}, done |-> FALSE]
<1>1. fetches' = Append(fetches, f)
  BY DEF Console!Fetch
<1>2. f \in Fetches /\ f.events = {}
  BY DEF Fetches
<1> HIDE DEF f
<1>3. fetches \in Seq(Fetches)
  BY DEF ConsoleInv, ConsoleTyped
<1>4. /\ fetches' \in Seq(Fetches)
      /\ \A i \in 1..Len(fetches') : fetches'[i] = f \/ (i \in 1..Len(fetches) /\ fetches'[i] = fetches[i])
  BY <1>1, <1>2, <1>3
<1>5. \A i \in 1..Len(fetches') : fetches'[i].events \in SUBSET (1..Len(elog))
  BY <1>2, <1>4 DEF ConsoleInv, CursorsHappened
<1> QED
  BY <1>4, <1>5, FetchKeeps DEF ConsoleInv, ConsoleTyped, CursorsHappened

LEMMA ApplyKeeps ==
    ASSUME ConsoleInv, NEW i, Console!Apply(i)
    PROVE  ConsoleInv'
<1> DEFINE f == fetches[i]
<1>1. /\ i \in DOMAIN fetches /\ fetches' = Console!RemoveAt(fetches, i)
      /\ UNCHANGED <<elog, stream, wire, seen, selected>>
      /\ \/ UNCHANGED <<thread, cursor>>
         \/ /\ thread' \in {f.events, thread \cup f.events}
            /\ cursor' = Console!Larger(cursor, Console!Top(f.events))
  BY DEF Console!Apply
<1>2. fetches \in Seq(Fetches) /\ i \in 1..Len(fetches) /\ Len(fetches) \in Nat
  BY <1>1 DEF ConsoleInv, ConsoleTyped
<1>3. f.events \in SUBSET (1..Len(elog)) /\ Len(elog) \in Nat
  BY <1>2 DEF ConsoleInv, ConsoleTyped, CursorsHappened
<1>4. Console!Top(f.events) \in 0..Len(elog)
  BY <1>3, TopIsIn
<1> HIDE DEF f
<1>5. /\ fetches' \in Seq(Fetches)
      /\ \A k \in 1..Len(fetches') : \E m \in 1..Len(fetches) : fetches'[k] = fetches[m]
  <2> DEFINE A == SubSeq(fetches, 1, i - 1)
             B == SubSeq(fetches, i + 1, Len(fetches))
  <2>1. fetches' = A \o B
    BY <1>1 DEF Console!RemoveAt
  <2>2. A \in Seq(Fetches) /\ Len(A) = i - 1 /\ \A k \in 1..Len(A) : A[k] = fetches[k]
    BY <1>2
  <2>3. B \in Seq(Fetches) /\ Len(B) = Len(fetches) - i
        /\ \A k \in 1..Len(B) : B[k] = fetches[k + i]
    BY <1>2
  <2> HIDE DEF A, B
  <2>4. /\ fetches' \in Seq(Fetches) /\ Len(fetches') = Len(fetches) - 1
        /\ \A k \in 1..Len(fetches') :
             \/ k \in 1..Len(A) /\ fetches'[k] = A[k]
             \/ k - Len(A) \in 1..Len(B) /\ fetches'[k] = B[k - Len(A)]
    <3>1. A \o B \in Seq(Fetches) /\ Len(A \o B) = Len(A) + Len(B)
      BY <2>2, <2>3
    <3>2. \A k \in 1..(Len(A) + Len(B)) :
             (A \o B)[k] = IF k <= Len(A) THEN A[k] ELSE B[k - Len(A)]
      BY <2>2, <2>3
    <3>3. Len(A) \in Nat /\ Len(B) \in Nat /\ Len(A) + Len(B) = Len(fetches) - 1
      BY <1>2, <2>2, <2>3
    <3>4. \A k \in 1..(Len(A) + Len(B)) :
             (k <= Len(A) => k \in 1..Len(A)) /\ (~(k <= Len(A)) => k - Len(A) \in 1..Len(B))
      BY <3>3
    <3> QED
      BY <2>1, <3>1, <3>2, <3>3, <3>4
  <2>5. ASSUME NEW k \in 1..Len(fetches')
        PROVE  \E m \in 1..Len(fetches) : fetches'[k] = fetches[m]
    <3>1. CASE k \in 1..Len(A) /\ fetches'[k] = A[k]
      BY <1>2, <2>2, <3>1
    <3>2. CASE k - Len(A) \in 1..Len(B) /\ fetches'[k] = B[k - Len(A)]
      <4>1. k - Len(A) + i \in 1..Len(fetches) /\ fetches'[k] = fetches[k - Len(A) + i]
        BY <1>2, <2>2, <2>3, <3>2
      <4> QED
        BY <4>1
    <3> QED
      BY <2>4, <3>1, <3>2
  <2> QED
    BY <2>4, <2>5
<1>6. \A k \in 1..Len(fetches') : fetches'[k].events \in SUBSET (1..Len(elog))
  BY <1>5 DEF ConsoleInv, CursorsHappened
<1>7. /\ cursor' \in Nat /\ cursor' <= Len(elog) /\ thread' \in SUBSET (1..Len(elog))
      /\ selected' \in ConsoleSessions
  <2>1. /\ cursor \in Nat /\ cursor <= Len(elog) /\ thread \in SUBSET (1..Len(elog))
        /\ selected \in ConsoleSessions
    BY DEF ConsoleInv, ConsoleTyped, CursorsHappened
  <2>2. cursor' \in {cursor, Console!Top(f.events)}
    BY <1>1 DEF Console!Larger, f
  <2>3. thread' \in {thread, f.events, thread \cup f.events}
    BY <1>1 DEF f
  <2> QED
    BY <1>1, <1>3, <1>4, <2>1, <2>2, <2>3
<1> QED
  BY <1>1, <1>5, <1>6, <1>7, FetchKeeps

LEMMA ConsoleNext == ConsoleInv /\ (Console!Next \/ UNCHANGED ConsoleVars) => ConsoleInv'
<1> SUFFICES ASSUME ConsoleInv, Console!Next \/ UNCHANGED ConsoleVars PROVE ConsoleInv'
  OBVIOUS
<1>1. CASE Console!Connect
  BY <1>1 DEF Console!Connect, ConsoleInv, ConsoleTyped, CursorsHappened, StreamIsWhole
<1>2. CASE Console!Break
  BY <1>2 DEF Console!Break, Console!Closed, ConsoleInv, ConsoleTyped, CursorsHappened,
              StreamIsWhole
<1>3. ASSUME NEW who \in ConsoleSessions, Console!Select(who) PROVE ConsoleInv'
  BY <1>3, FetchStarts DEF Console!Select
<1>4. CASE Console!Reconcile
  <2>1. Console!Top(thread) \in Nat /\ selected \in ConsoleSessions
    <3>1. thread \in SUBSET (1..Len(elog)) /\ Len(elog) \in Nat
      BY DEF ConsoleInv, ConsoleTyped
    <3>2. Console!Top(thread) \in 0..Len(elog)
      BY <3>1, TopIsIn
    <3> QED
      BY <3>1, <3>2 DEF ConsoleInv, ConsoleTyped
  <2> QED
    BY <1>4, <2>1, FetchStarts DEF Console!Reconcile
<1>5. ASSUME NEW i, Console!Answer(i) PROVE ConsoleInv'
  <2> DEFINE E == {e \in Console!EventsOf(fetches[i].session) : e > fetches[i].from}
             f == [fetches[i] EXCEPT !.done = TRUE, !.events = E]
  <2>1. /\ i \in DOMAIN fetches
        /\ fetches' = [fetches EXCEPT ![i] = f]
        /\ UNCHANGED <<elog, stream, wire, seen, cursor, selected, thread>>
    <3>1. fetches' = [fetches EXCEPT ![i].done = TRUE, ![i].events = E]
      BY <1>5 DEF Console!Answer
    <3>2. i \in DOMAIN fetches /\ fetches \in Seq(Fetches)
      BY <1>5 DEF Console!Answer, ConsoleInv, ConsoleTyped
    <3> HIDE DEF E
    <3>3. fetches' = [fetches EXCEPT ![i] = f]
      BY <3>1, <3>2
    <3> QED
      BY <1>5, <3>2, <3>3 DEF Console!Answer
  <2>2. E \in SUBSET (1..Len(elog))
    BY DEF Console!EventsOf, ConsoleInv, ConsoleTyped
  <2> HIDE DEF E
  <2>3. fetches \in Seq(Fetches) /\ fetches[i] \in Fetches /\ Len(elog) \in Nat
    BY <2>1 DEF ConsoleInv, ConsoleTyped
  <2>4. f \in Fetches /\ f.events = E
    <3>1. E \in SUBSET Nat
      BY <2>2
    <3> QED
      BY <2>3, <3>1 DEF Fetches
  <2> HIDE DEF f
  <2>5. /\ fetches' \in Seq(Fetches) /\ Len(fetches') = Len(fetches)
        /\ \A k \in 1..Len(fetches) : fetches'[k] = IF k = i THEN f ELSE fetches[k]
    BY <2>1, <2>3, <2>4
  <2>6. \A k \in 1..Len(fetches') : fetches'[k].events \in SUBSET (1..Len(elog))
    BY <2>2, <2>4, <2>5 DEF ConsoleInv, CursorsHappened
  <2> QED
    BY <2>1, <2>5, <2>6, FetchKeeps DEF ConsoleInv, ConsoleTyped, CursorsHappened
<1>6. CASE UNCHANGED ConsoleVars
  BY <1>6 DEF ConsoleVars, ConsoleInv, ConsoleTyped, CursorsHappened, StreamIsWhole
<1> QED
  BY <1>1, <1>2, <1>3, <1>4, <1>5, <1>6, PublishKeeps, HandleSseKeeps, ReceiveKeeps,
     ApplyKeeps DEF Console!Next

LEMMA ConsoleHolds == ConsoleInv => Console!StreamHasNoGap
<1> SUFFICES ASSUME ConsoleInv, stream.at = "open"
             PROVE  seen \o wire = [i \in 1..(Len(elog) - stream.from) |-> stream.from + i]
  BY DEF Console!StreamHasNoGap
<1> DEFINE n == Len(elog) - stream.from
           s == seen \o wire
<1>1. /\ seen \in Seq(Nat) /\ wire \in Seq(Nat) /\ Len(seen) \in Nat /\ Len(wire) \in Nat
      /\ stream.from \in Nat /\ Len(elog) \in Nat
      /\ Len(seen) + Len(wire) = n
      /\ \A j \in 1..Len(seen) : seen[j] = stream.from + j
      /\ \A j \in 1..Len(wire) : wire[j] = stream.from + Len(seen) + j
  BY DEF ConsoleInv, ConsoleTyped, StreamIsWhole
<1>2. /\ s \in Seq(Nat) /\ Len(s) = n
      /\ \A j \in 1..Len(seen) : s[j] = seen[j]
      /\ \A j \in 1..n : j \notin 1..Len(seen) =>
            j - Len(seen) \in 1..Len(wire) /\ s[j] = wire[j - Len(seen)]
  BY <1>1
<1>3. ASSUME NEW i \in 1..n PROVE s[i] = stream.from + i
  <2>1. CASE i \in 1..Len(seen)
    BY <1>1, <1>2, <2>1
  <2>2. CASE i \notin 1..Len(seen)
    <3>1. i - Len(seen) \in 1..Len(wire) /\ s[i] = wire[i - Len(seen)]
      BY <1>2, <2>2
    <3>2. s[i] = stream.from + Len(seen) + (i - Len(seen))
      BY <1>1, <3>1
    <3>3. i \in Int
      BY <1>1
    <3> HIDE DEF s, n
    <3> QED
      BY <1>1, <3>2, <3>3
  <2> QED
    BY <2>1, <2>2
<1> HIDE DEF s
<1>4. s = [i \in 1..n |-> stream.from + i]
  BY <1>2, <1>3
<1> QED
  BY <1>4 DEF s

-----------------------------------------------------------------------------
(* AndroidMonitor: the saved position.                                     *)

Copies == [event : Nat, notified : Nat, is : {"nothing", "deleted", "saved"}]

\* The replies that were not notified, but for the one at work and those cut off.
Missed == {e \in 1..Len(log) : log[e] = "reply" /\ e \notin shown \cup cutOff /\ e # handling}

\* Of n events the copy c has passed none of M.
PassesNone(c, M, n) ==
    c \in Copies /\ Android!Cursor(c) <= n /\ \A e \in M : Android!Cursor(c) < e

MonitorTyped ==
    /\ log \in Seq({"reply", "muted", "other"}) /\ feed \in Seq(Nat) /\ handling \in Nat
    /\ loop \in [at : {"start", "resolve", "listen", "open"}, copy : Copies]

\* A stream that is open has what the log has after the event at work.
FeedIsRest ==
    /\ Len(feed) <= Len(log)
    /\ \A k \in 1..Len(feed) : feed[k] = Len(log) - Len(feed) + k
    /\ loop.at = "open" => \A e \in Missed : Len(log) - Len(feed) < e
    /\ loop.at # "open" => feed = <<>> /\ handling = 0
    /\ handling <= Len(log) - Len(feed)

\* The copy of the event at work lets a reply through that was not notified.
AtWorkIsNew ==
    handling # 0 /\ log[handling] = "reply" /\ handling \notin shown \cup cutOff
        => loop.copy.notified < handling

MonitorInv ==
    /\ MonitorTyped
    /\ \A c \in {store, disk, health, loop.copy} : PassesNone(c, Missed, Len(log))
    /\ FeedIsRest
    /\ AtWorkIsNew

\* Events are added, replies are notified: a copy does not come to pass one.
LEMMA StaysBehind ==
    ASSUME NEW c, NEW M, NEW N, NEW m \in Nat, NEW n \in Nat, PassesNone(c, M, m), m <= n,
           \A e \in N : e \in M \/ (e \in Nat /\ m < e)
    PROVE  PassesNone(c, N, n)
BY DEF PassesNone, Copies, Android!Cursor, Android!Larger

LEMMA NothingPasses ==
    ASSUME NEW n \in Nat, NEW M \in SUBSET (1..n)
    PROVE  /\ PassesNone(Android!Nothing, M, n) /\ PassesNone(Android!Deleted, M, n)
           /\ PassesNone(Android!Fresh, M, n)
BY DEF PassesNone, Copies, Android!Cursor, Android!Larger, Android!Nothing, Android!Deleted,
       Android!Fresh

LEMMA MonitorInit == Android!Init => MonitorInv
<1> SUFFICES ASSUME Android!Init PROVE MonitorInv
  OBVIOUS
<1>1. log = <<>> /\ Len(log) = 0 /\ feed = <<>> /\ Len(feed) = 0 /\ handling = 0
      /\ store = Android!Fresh /\ disk = Android!Fresh /\ health = Android!Nothing
      /\ loop = [at |-> "start", copy |-> Android!Nothing]
  BY DEF Android!Init, Android!AtStart
<1>2. Missed \in SUBSET (1..0)
  BY <1>1 DEF Missed
<1>3. /\ PassesNone(Android!Nothing, Missed, Len(log))
      /\ PassesNone(Android!Fresh, Missed, Len(log))
  BY <1>1, <1>2, NothingPasses
<1>4. Android!Nothing \in Copies
  BY DEF Copies, Android!Nothing
<1> QED
  BY <1>1, <1>2, <1>3, <1>4 DEF MonitorInv, MonitorTyped, FeedIsRest, AtWorkIsNew

\* A step that adds no event, notifies or cuts off what it leaves and opens no stream.
LEMMA CopiesKeep ==
    ASSUME MonitorInv, UNCHANGED log, Missed' \in SUBSET Missed,
           NEW c \in {store, disk, health, loop.copy, Android!Nothing, Android!Deleted}
    PROVE  PassesNone(c, Missed', Len(log'))
<1>1. Len(log) \in Nat /\ Missed \in SUBSET (1..Len(log))
  BY DEF MonitorInv, MonitorTyped, Missed
<1>2. PassesNone(c, Missed, Len(log))
  BY <1>1, NothingPasses DEF MonitorInv
<1>3. \A e \in Missed' : e \in Missed
  OBVIOUS
<1>4. Len(log) <= Len(log') /\ Len(log') \in Nat
  BY <1>1
<1> QED
  BY <1>1, <1>2, <1>3, <1>4, StaysBehind

LEMMA EmitKeeps ==
    ASSUME MonitorInv, NEW kind \in {"reply", "muted", "other"}, Android!Emit(kind)
    PROVE  MonitorInv'
<1> DEFINE n == Len(log)
<1>1. /\ log' = Append(log, kind)
      /\ feed' = IF loop.at = "open" THEN Append(feed, Len(log) + 1) ELSE feed
      /\ UNCHANGED <<store, disk, health, loop, handling, shown, cutOff>>
  BY DEF Android!Emit
<1>2. /\ n \in Nat /\ Len(log') = n + 1 /\ log' \in Seq({"reply", "muted", "other"})
      /\ \A e \in 1..n : log'[e] = log[e]
  BY <1>1 DEF MonitorInv, MonitorTyped
<1>3. ASSUME NEW e \in Missed' PROVE e \in Missed \/ (e \in Nat /\ n < e)
  <2>1. e \in 1..(n + 1) /\ log'[e] = "reply" /\ e \notin shown \cup cutOff /\ e # handling
    BY <1>1, <1>2 DEF Missed
  <2>2. CASE e \in 1..n
    BY <1>2, <2>1, <2>2 DEF Missed
  <2>3. CASE e = n + 1
    BY <1>2, <2>3
  <2> QED
    BY <1>2, <2>1, <2>2, <2>3
<1>4. \A c \in {store', disk', health', loop'.copy} : PassesNone(c, Missed', Len(log'))
  <2> HIDE DEF n
  <2> QED
    BY <1>1, <1>2, <1>3, StaysBehind DEF MonitorInv, n
<1>5. MonitorTyped'
  BY <1>1, <1>2 DEF MonitorInv, MonitorTyped
<1>6. /\ feed' \in Seq(Nat) /\ Len(feed) \in Nat /\ Len(feed') \in Nat
      /\ Len(feed) <= n /\ handling \in Nat /\ handling <= n - Len(feed)
  BY <1>5 DEF MonitorInv, MonitorTyped, FeedIsRest
<1>7. FeedIsRest'
  <2>1. CASE loop.at = "open"
    <3>1. /\ Len(feed') = Len(feed) + 1 /\ feed'[Len(feed) + 1] = n + 1
          /\ \A k \in 1..Len(feed) : feed'[k] = feed[k]
      BY <1>1, <2>1 DEF MonitorInv, MonitorTyped
    <3>2. \A k \in 1..Len(feed) : feed[k] = n - Len(feed) + k
      BY DEF MonitorInv, FeedIsRest
    <3>3. ASSUME NEW k \in 1..Len(feed')
          PROVE  feed'[k] = Len(log') - Len(feed') + k
      <4>1. Len(log') - Len(feed') = n - Len(feed)
        BY <1>2, <1>6, <3>1
      <4>2. k \in 1..Len(feed) \/ k = Len(feed) + 1
        BY <1>6, <3>1
      <4>3. n - Len(feed) + (Len(feed) + 1) = n + 1
        BY <1>2, <1>6
      <4> QED
        BY <3>1, <3>2, <4>1, <4>2, <4>3
    <3>4. \A e \in Missed : n - Len(feed) < e
      BY <2>1 DEF MonitorInv, FeedIsRest
    <3>5. \A e \in Missed' : Len(log') - Len(feed') < e
      BY <1>2, <1>3, <1>6, <3>1, <3>4
    <3>6. Len(feed') <= Len(log') /\ handling' <= Len(log') - Len(feed')
      BY <1>1, <1>2, <1>6, <3>1
    <3> QED
      BY <1>1, <2>1, <3>3, <3>5, <3>6 DEF FeedIsRest
  <2>2. CASE loop.at # "open"
    <3>1. feed' = <<>> /\ handling' = 0 /\ Len(feed') = 0
      BY <1>1, <2>2 DEF MonitorInv, FeedIsRest
    <3> QED
      BY <1>1, <1>2, <2>2, <3>1 DEF FeedIsRest
  <2> QED
    BY <2>1, <2>2
<1>8. AtWorkIsNew'
  <2>1. handling # 0 => handling \in 1..n
    BY <1>2, <1>6
  <2>2. handling # 0 => log'[handling] = log[handling]
    BY <1>2, <2>1
  <2> QED
    BY <1>1, <2>2 DEF MonitorInv, AtWorkIsNew
<1> QED
  BY <1>4, <1>5, <1>7, <1>8 DEF MonitorInv

\* A step that writes copies and leaves the event thread's stream alone.
LEMMA WritesKeep ==
    ASSUME MonitorInv, UNCHANGED <<log, feed, handling, shown, cutOff>>,
           \/ UNCHANGED loop
           \/ /\ loop.at # "open" /\ loop'.at \in {"start", "resolve", "listen"}
              /\ loop' \in [at : {"start", "resolve", "listen", "open"}, copy : Copies],
           {store', disk', health', loop'.copy}
             \in SUBSET {store, disk, health, loop.copy, Android!Nothing, Android!Deleted}
    PROVE  MonitorInv'
<1>1. Missed' = Missed
  BY DEF Missed
<1>2. \A c \in {store', disk', health', loop'.copy} : PassesNone(c, Missed', Len(log'))
  BY <1>1, CopiesKeep
<1>3. MonitorTyped'
  BY DEF MonitorInv, MonitorTyped
<1>4. FeedIsRest'
  BY <1>1 DEF MonitorInv, FeedIsRest
<1>5. AtWorkIsNew'
  BY DEF MonitorInv, FeedIsRest, AtWorkIsNew
<1> QED
  BY <1>2, <1>3, <1>4, <1>5 DEF MonitorInv

\* Both threads read a record and write it, whatever was saved meanwhile; the user
\* deletes it, and it reaches the disk later.
LEMMA RecordKeeps ==
    ASSUME MonitorInv,
           \/ Android!HealthReads \/ Android!HealthWrites \/ Android!LoopReads
           \/ Android!LoopResolves \/ Android!Delete \/ Android!Flush
    PROVE  MonitorInv'
<1>1. /\ loop \in [at : {"start", "resolve", "listen", "open"}, copy : Copies]
      /\ store \in Copies /\ Android!Nothing \in Copies
  BY DEF MonitorInv, MonitorTyped, PassesNone, Copies, Android!Nothing
<1>2. CASE Android!HealthReads \/ Android!HealthWrites \/ Android!Delete \/ Android!Flush
  BY <1>2, WritesKeep DEF Android!HealthReads, Android!HealthWrites, Android!Delete,
     Android!Flush
<1>3. CASE Android!LoopReads
  <2>1. loop' = [at |-> "resolve", copy |-> store]
    BY <1>3 DEF Android!LoopReads
  <2>2. loop' \in [at : {"start", "resolve", "listen", "open"}, copy : Copies]
        /\ loop'.at = "resolve" /\ loop'.copy = store
    BY <1>1, <2>1
  <2> QED
    BY <1>3, <2>2, WritesKeep DEF Android!LoopReads
<1>4. CASE Android!LoopResolves
  <2>1. loop' \in {[at |-> "start", copy |-> Android!Nothing],
                   [at |-> "listen", copy |-> loop.copy]}
    BY <1>4 DEF Android!LoopResolves, Android!AtStart
  <2>2. loop' \in [at : {"start", "resolve", "listen", "open"}, copy : Copies]
        /\ loop'.at \in {"start", "listen"} /\ loop'.copy \in {Android!Nothing, loop.copy}
    BY <1>1, <2>1
  <2> QED
    BY <1>4, <2>2, WritesKeep DEF Android!LoopResolves
<1> QED
  BY <1>2, <1>3, <1>4

\* The stream is opened after the position saved, of the record or of the copy.
LEMMA ListenKeeps == MonitorInv /\ Android!Listen => MonitorInv'
<1> SUFFICES ASSUME MonitorInv, Android!Listen PROVE MonitorInv'
  OBVIOUS
<1> DEFINE c == IF store = Android!Deleted THEN loop.copy ELSE store
           p == Android!Cursor(c)
<1>1. /\ loop.at = "listen" /\ loop' = [at |-> "open", copy |-> Android!Nothing]
      /\ feed' = [i \in 1..(Len(log) - p) |-> p + i]
      /\ UNCHANGED <<log, store, disk, health, handling, shown, cutOff>>
  BY DEF Android!Listen, Android!ReplayFrom
<1>2. PassesNone(c, Missed, Len(log)) /\ Len(log) \in Nat /\ handling = 0
  BY <1>1 DEF MonitorInv, MonitorTyped, FeedIsRest
<1>3. p \in Nat /\ p <= Len(log) /\ \A e \in Missed : p < e
  BY <1>2 DEF PassesNone, Copies, Android!Cursor, Android!Larger
<1> HIDE DEF p, c
<1>4. Missed' = Missed
  BY <1>1 DEF Missed
<1>5. /\ feed' \in Seq(Nat) /\ Len(feed') = Len(log) - p
      /\ \A k \in 1..Len(feed') : feed'[k] = p + k
  <2>1. Len(log) - p \in Nat
    BY <1>2, <1>3
  <2> DEFINE m == Len(log) - p
  <2>2. m \in Nat /\ feed' = [i \in 1..m |-> p + i]
    BY <1>1, <2>1
  <2>3. \A i \in 1..m : p + i \in Nat
    BY <1>3
  <2> HIDE DEF m
  <2>4. feed' \in Seq(Nat) /\ Len(feed') = m /\ \A k \in 1..m : feed'[k] = p + k
    BY <2>2, <2>3
  <2> QED
    BY <2>4 DEF m
<1>6. loop' \in [at : {"start", "resolve", "listen", "open"}, copy : Copies]
      /\ loop'.at = "open" /\ loop'.copy = Android!Nothing
  BY <1>1 DEF Copies, Android!Nothing
<1>7. FeedIsRest'
  <2>1. Len(log') - Len(feed') = p /\ Len(feed') <= Len(log')
    BY <1>1, <1>2, <1>3, <1>5
  <2> QED
    BY <1>1, <1>2, <1>3, <1>4, <1>5, <1>6, <2>1 DEF FeedIsRest
<1>8. \A d \in {store', disk', health', loop'.copy} : PassesNone(d, Missed', Len(log'))
  BY <1>1, <1>4, <1>6, CopiesKeep
<1> QED
  BY <1>1, <1>2, <1>5, <1>6, <1>7, <1>8 DEF MonitorInv, MonitorTyped, AtWorkIsNew

\* The stream is over, and the process may be: the event at work was cut off.
LEMMA StopsKeep == MonitorInv /\ (Android!StreamEnds \/ Android!Kill) => MonitorInv'
<1> SUFFICES ASSUME MonitorInv, Android!StreamEnds \/ Android!Kill PROVE MonitorInv'
  OBVIOUS
<1>1. /\ loop' = [at |-> "start", copy |-> Android!Nothing] /\ feed' = <<>> /\ handling' = 0
      /\ UNCHANGED <<log, disk, shown>> /\ store' \in {store, disk}
      /\ health' \in {health, Android!Nothing}
      /\ cutOff' = cutOff \cup ({handling} \ {0})
  BY DEF Android!StreamEnds, Android!Kill, Android!AtStart
<1>2. Missed' \in SUBSET Missed
  BY <1>1 DEF Missed
<1>3. loop' \in [at : {"start", "resolve", "listen", "open"}, copy : Copies]
      /\ loop'.at = "start" /\ loop'.copy = Android!Nothing
  BY <1>1 DEF Copies, Android!Nothing
<1>4. \A c \in {store', disk', health', loop'.copy} : PassesNone(c, Missed', Len(log'))
  BY <1>1, <1>2, <1>3, CopiesKeep
<1>5. Len(log') \in Nat /\ Len(feed') = 0 /\ feed' \in Seq(Nat)
  BY <1>1 DEF MonitorInv, MonitorTyped
<1>6. FeedIsRest'
  BY <1>1, <1>3, <1>5 DEF FeedIsRest
<1> QED
  BY <1>1, <1>3, <1>4, <1>5, <1>6 DEF MonitorInv, MonitorTyped, AtWorkIsNew

\* The position of the next event is saved: every reply before it was notified.
LEMMA SavePositionKeeps == MonitorInv /\ Android!SavePosition => MonitorInv'
<1> SUFFICES ASSUME MonitorInv, Android!SavePosition PROVE MonitorInv'
  OBVIOUS
<1> DEFINE h == Head(feed)
           c == [store EXCEPT !.event = Android!Larger(store.event, h)]
<1>1. /\ feed # <<>> /\ handling = 0 /\ feed' = Tail(feed) /\ handling' = h
      /\ store' = c /\ loop' = [loop EXCEPT !.copy = c]
      /\ UNCHANGED <<log, disk, health, shown, cutOff>>
  BY DEF Android!SavePosition
<1>2. /\ feed \in Seq(Nat) /\ Len(feed) \in Nat \ {0} /\ Len(log) \in Nat
      /\ Len(feed) <= Len(log) /\ loop.at = "open"
      /\ \A k \in 1..Len(feed) : feed[k] = Len(log) - Len(feed) + k
  BY <1>1 DEF MonitorInv, MonitorTyped, FeedIsRest
<1>3. h = Len(log) - Len(feed) + 1 /\ h \in 1..Len(log)
  BY <1>2
<1>4. /\ feed' \in Seq(Nat) /\ Len(feed') = Len(feed) - 1
      /\ \A k \in 1..Len(feed') : feed'[k] = feed[k + 1]
  BY <1>1, <1>2
<1> HIDE DEF h
<1>5. Missed' = Missed \ {h}
  BY <1>1, <1>3 DEF Missed
<1>6. \A e \in Missed : e \in Nat /\ Len(log) - Len(feed) < e
  BY <1>2 DEF MonitorInv, FeedIsRest, Missed
<1>7. \A e \in Missed' : e \in Nat /\ h < e
  BY <1>2, <1>3, <1>5, <1>6
<1>8. /\ store \in Copies /\ Android!Cursor(store) <= Len(log)
      /\ \A e \in Missed : Android!Cursor(store) < e
  BY DEF MonitorInv, PassesNone
<1>9. /\ c \in Copies /\ c.notified = store.notified
      /\ Android!Cursor(c) \in {Android!Cursor(store), h}
  BY <1>3, <1>8 DEF Copies, Android!Cursor, Android!Larger
<1> HIDE DEF c
<1>10. PassesNone(c, Missed', Len(log'))
  BY <1>1, <1>2, <1>3, <1>5, <1>7, <1>8, <1>9 DEF PassesNone
<1>11. loop' \in [at : {"start", "resolve", "listen", "open"}, copy : Copies]
       /\ loop'.at = "open" /\ loop'.copy = c
  BY <1>1, <1>2, <1>9 DEF MonitorInv, MonitorTyped
<1>12. \A d \in {store', disk', health', loop'.copy} : PassesNone(d, Missed', Len(log'))
  <2>1. Missed' \in SUBSET Missed
    BY <1>5
  <2> QED
    BY <1>1, <1>10, <1>11, <2>1, CopiesKeep
<1>13. FeedIsRest'
  <2>1. Len(log') - Len(feed') = h /\ Len(feed') <= Len(log')
    BY <1>1, <1>2, <1>3, <1>4
  <2>2. ASSUME NEW k \in 1..Len(feed') PROVE feed'[k] = Len(log') - Len(feed') + k
    <3>1. k + 1 \in 1..Len(feed) /\ k \in Nat
      BY <1>2, <1>4
    <3>2. feed'[k] = Len(log) - Len(feed) + (k + 1)
      BY <1>2, <1>4, <3>1
    <3>3. Len(log) - Len(feed) + (k + 1) = h + k
      BY <1>2, <1>3, <3>1
    <3> QED
      BY <2>1, <3>2, <3>3
  <2> QED
    BY <1>1, <1>3, <1>7, <1>11, <2>1, <2>2 DEF FeedIsRest
<1>14. AtWorkIsNew'
  <2>1. log[h] = "reply" /\ h \notin shown \cup cutOff => h \in Missed
    BY <1>1, <1>3 DEF Missed
  <2>2. h \in Missed => store.notified < h
    BY <1>3, <1>8 DEF Copies, Android!Cursor, Android!Larger
  <2> QED
    BY <1>1, <1>9, <1>11, <2>1, <2>2 DEF AtWorkIsNew
<1> QED
  BY <1>1, <1>3, <1>4, <1>11, <1>12, <1>13, <1>14 DEF MonitorInv, MonitorTyped

\* The event at work is notified, unless the copy says that it was.
LEMMA NotifyKeeps == MonitorInv /\ Android!Notify => MonitorInv'
<1> SUFFICES ASSUME MonitorInv, Android!Notify PROVE MonitorInv'
  OBVIOUS
<1> DEFINE h == handling
           new == log[h] # "other" /\ h > loop.copy.notified
           c == [loop.copy EXCEPT !.notified = h]
<1>1. /\ h # 0 /\ handling' = 0 /\ loop' = [loop EXCEPT !.copy = Android!Nothing]
      /\ store' = IF new THEN c ELSE store
      /\ shown' = IF new /\ log[h] = "reply" THEN shown \cup {h} ELSE shown
      /\ UNCHANGED <<log, disk, health, feed, cutOff>>
  BY DEF Android!Notify
<1>2. /\ feed \in Seq(Nat) /\ Len(feed) \in Nat /\ Len(log) \in Nat /\ h \in Nat
      /\ Len(feed) <= Len(log) /\ loop.at = "open" /\ h <= Len(log) - Len(feed)
      /\ \A e \in Missed : e \in Nat /\ Len(log) - Len(feed) < e
      /\ loop \in [at : {"start", "resolve", "listen", "open"}, copy : Copies]
  BY <1>1 DEF MonitorInv, MonitorTyped, FeedIsRest, Missed
<1>3. Missed' \in SUBSET Missed
  <2>1. log[h] = "reply" /\ h \notin shown \cup cutOff => h > loop.copy.notified
    BY <1>1, <1>2 DEF MonitorInv, AtWorkIsNew, Copies
  <2>2. log[h] = "reply" => h \in shown' \cup cutOff'
    BY <1>1, <2>1
  <2> QED
    BY <1>1, <2>2 DEF Missed
<1>4. /\ loop.copy \in Copies /\ Android!Cursor(loop.copy) <= Len(log)
      /\ \A e \in Missed : Android!Cursor(loop.copy) < e
  BY DEF MonitorInv, PassesNone
<1>5. c \in Copies /\ Android!Cursor(c) \in {Android!Cursor(loop.copy), h, loop.copy.event}
      /\ loop.copy.event <= Android!Cursor(loop.copy)
  BY <1>2, <1>4 DEF Copies, Android!Cursor, Android!Larger
<1> HIDE DEF c
<1>6. Android!Cursor(loop.copy) \in Nat /\ loop.copy.event \in Nat
  BY <1>4 DEF Copies, Android!Cursor, Android!Larger
<1>7. Android!Cursor(c) <= Len(log)
  BY <1>2, <1>4, <1>5, <1>6
<1>8. \A e \in Missed : Android!Cursor(c) < e
  BY <1>2, <1>4, <1>5, <1>6
<1>9. PassesNone(c, Missed', Len(log'))
  BY <1>1, <1>3, <1>5, <1>7, <1>8 DEF PassesNone
<1>10. loop' \in [at : {"start", "resolve", "listen", "open"}, copy : Copies]
       /\ loop'.at = "open" /\ loop'.copy = Android!Nothing
  BY <1>1, <1>2 DEF Copies, Android!Nothing
<1>11. \A d \in {store', disk', health', loop'.copy} : PassesNone(d, Missed', Len(log'))
  BY <1>1, <1>3, <1>9, <1>10, CopiesKeep
<1>12. FeedIsRest'
  BY <1>1, <1>2, <1>3, <1>10 DEF MonitorInv, FeedIsRest
<1> QED
  BY <1>1, <1>2, <1>10, <1>11, <1>12 DEF MonitorInv, MonitorTyped, AtWorkIsNew

LEMMA MonitorNext == MonitorInv /\ (Android!Next \/ UNCHANGED AndroidVars) => MonitorInv'
<1>1. MonitorInv /\ UNCHANGED AndroidVars => MonitorInv'
  BY DEF AndroidVars, MonitorInv, MonitorTyped, Missed, FeedIsRest, AtWorkIsNew
<1> QED
  BY <1>1, EmitKeeps, RecordKeeps, ListenKeeps, StopsKeep, SavePositionKeeps, NotifyKeeps
     DEF Android!Next

\* For any sessions, events, failures of the stream, deletions and kills: an event stream
\* delivers what it was asked for without a gap (streamEvents), and the position saved by
\* the monitor's threads passes no reply that was not notified (ConnectionMonitorService).
THEOREM StreamsPassNothing == ServicesSpec => []NothingIsPassed
<1>1. ServicesInit => ConsoleInv /\ MonitorInv
  <2>1. ServicesInit => ConsoleInv
    BY ConsoleInit DEF ServicesInit
  <2>2. ServicesInit => MonitorInv
    BY MonitorInit DEF ServicesInit
  <2> QED
    BY <2>1, <2>2
<1>2. ConsoleInv /\ [ServicesNext]_vars => ConsoleInv'
  BY ConsoleNext, StoreSteps
<1>3. MonitorInv /\ [ServicesNext]_vars => MonitorInv'
  BY MonitorNext, StoreSteps
<1>4. MonitorInv => Android!NoReplyIsPassed
  BY DEF MonitorInv, PassesNone, Missed, Android!NoReplyIsPassed
<1> QED
  BY <1>1, <1>2, <1>3, <1>4, ConsoleHolds, PTL DEF ServicesSpec, NothingIsPassed

-----------------------------------------------------------------------------
(* McpSurface: names, and what replaces a server's tools.                  *)

ToolNames == {"connect", "list"} \cup UNION ToolSets
BuiltNames == [of : ToolNames, n : Nat]
SurfaceTools == [name : BuiltNames, server : McpServers, original : ToolNames]

\* A registry: finite, and its tools are named after what they are.
RegistryOK(reg) ==
    reg \subseteq SurfaceTools /\ IsFiniteSet(reg) /\ \A t \in reg : t.name.of = t.original

\* Tools as a server offers them.
Offered(tools, s) ==
    /\ tools \subseteq SurfaceTools /\ IsFiniteSet(tools)
    /\ \A t \in tools : /\ t.server = s /\ t.name.of = t.original
                        /\ t.original \notin {"connect", "list"}

HasWay(reg, s) == \E t \in reg : t.server = s /\ t.original = "connect"
Bare(reg, s) == \A t \in reg : t.server = s => t.original = "connect"

\* For the other servers, what is left of reg.
Replaces(reg, new, s) ==
    /\ RegistryOK(new)
    /\ \A x \in McpServers \ {s} : /\ HasWay(reg, x) => HasWay(new, x)
                                   /\ Bare(reg, x) => Bare(new, x)

\* A name that is built is not among those taken, of which there are finitely many.
LEMMA BuiltIsFree ==
    ASSUME NEW x \in ToolNames, NEW reserved, IsFiniteSet(reserved)
    PROVE  /\ Surface!buildToolName(x, reserved) \in BuiltNames \ reserved
           /\ Surface!buildToolName(x, reserved).of = x
<1> DEFINE c == Surface!Cardinality(reserved)
           unused == {n \in 0..c : [of |-> x, n |-> n] \notin reserved}
<1>1. c = Cardinality(reserved)
  BY Zenon DEF Surface!Cardinality, Cardinality
<1>2. c \in Nat
  BY <1>1, FS_CardinalityType
<1>3. unused # {}
  <2> SUFFICES ASSUME unused = {} PROVE FALSE
    OBVIOUS
  <2> DEFINE f == [n \in 0..c |-> [of |-> x, n |-> n]]
  <2>1. f \in [0..c -> reserved]
    OBVIOUS
  <2>2. IsFiniteSet(0..c) /\ Cardinality(0..c) = c + 1
    <3> HIDE DEF c
    <3> QED
      BY <1>2, FS_Interval
  <2>3. Cardinality(reserved) < Cardinality(0..c)
    <3> HIDE DEF c
    <3> QED
      BY <1>1, <1>2, <2>2
  <2>4. PICK a, b \in 0..c : a # b /\ f[a] = f[b]
    <3> HIDE DEF c, f, unused
    <3> QED
      BY <2>1, <2>2, <2>3, FS_PigeonHole, Zenon
  <2>5. f[a].n = a /\ f[b].n = b
    BY <2>4
  <2> QED
    BY <2>4, <2>5
<1>4. unused \in SUBSET Nat
  BY <1>2
<1>5. \E m \in unused : \A k \in unused : m <= k
  <2> HIDE DEF unused
  <2> QED
    BY <1>3, <1>4, Smallest
<1> DEFINE least == CHOOSE n \in unused : \A m \in unused : n <= m
<1>6. least \in unused
  <2> HIDE DEF unused
  <2> QED
    BY <1>5
<1>7. Surface!buildToolName(x, reserved) = [of |-> x, n |-> least]
  BY DEF Surface!buildToolName
<1>8. least \in Nat /\ [of |-> x, n |-> least] \notin reserved
  BY <1>4, <1>6
<1> HIDE DEF least
<1> QED
  BY <1>7, <1>8 DEF BuiltNames

LEMMA NamesAreFinite ==
    ASSUME NEW tools, IsFiniteSet(tools) PROVE IsFiniteSet(Surface!Names(tools))
<1> DEFINE f == [t \in tools |-> t.name]
<1>1. f \in Surjection(tools, Surface!Names(tools))
  BY DEF Surjection, Surface!Names
<1> QED
  BY <1>1, FS_Surjection

LEMMA OthersRemain ==
    ASSUME NEW reg, RegistryOK(reg), NEW s
    PROVE  LET others == {t \in reg : t.server # s}
           IN  /\ RegistryOK(others) /\ Replaces(reg, others, s)
               /\ Bare(others, s) /\ IsFiniteSet(Surface!Names(others))
<1> DEFINE others == {t \in reg : t.server # s}
<1>1. IsFiniteSet(others)
  BY FS_Subset DEF RegistryOK
<1>2. RegistryOK(others)
  BY <1>1 DEF RegistryOK
<1> QED
  BY <1>1, <1>2, NamesAreFinite DEF Replaces, HasWay, Bare

\* Tools of a server, of which the connect tool's name is unused, are added to others.
LEMMA RegisterReplaces ==
    ASSUME NEW reg, RegistryOK(reg), NEW s \in McpServers, NEW tools, RegistryOK(tools),
           \A t \in tools : t.server = s,
           LET others == {t \in reg : t.server # s}
           IN  \A t \in tools :
                   t.original = "connect" => t.name \notin Surface!Names(others)
    PROVE  LET others == {t \in reg : t.server # s}
           IN  /\ Replaces(reg, Surface!Register(others, tools), s)
               /\ HasWay(tools, s) => HasWay(Surface!Register(others, tools), s)
               /\ Bare(tools, s) => Bare(Surface!Register(others, tools), s)
<1> DEFINE others == {t \in reg : t.server # s}
           stay == {t \in others : t.name \notin Surface!Names(tools)}
           new == stay \cup tools
<1>1. Surface!Register(others, tools) = new
  BY DEF Surface!Register
<1>2. RegistryOK(new)
  <2>1. IsFiniteSet(stay)
    <3>1. stay \in SUBSET reg
      OBVIOUS
    <3> HIDE DEF stay
    <3> QED
      BY <3>1, FS_Subset DEF RegistryOK
  <2>2. IsFiniteSet(new)
    <3> HIDE DEF stay
    <3> QED
      BY <2>1, FS_Union DEF RegistryOK
  <2> QED
    BY <2>2 DEF RegistryOK
<1>3. ASSUME NEW t \in others, t.original = "connect" PROVE t \in stay
  <2> SUFFICES ASSUME t.name \in Surface!Names(tools) PROVE FALSE
    OBVIOUS
  <2>1. PICK u \in tools : u.name = t.name
    BY DEF Surface!Names
  <2>2. u.original = "connect"
    BY <1>3, <2>1 DEF RegistryOK
  <2>3. t.name \in Surface!Names(others)
    BY DEF Surface!Names
  <2> QED
    BY <2>1, <2>2, <2>3
<1>4. ASSUME NEW x \in McpServers \ {s}
      PROVE  (HasWay(reg, x) => HasWay(new, x)) /\ (Bare(reg, x) => Bare(new, x))
  <2>1. ASSUME HasWay(reg, x) PROVE HasWay(new, x)
    <3>1. PICK t \in reg : t.server = x /\ t.original = "connect"
      BY <2>1 DEF HasWay
    <3>2. t \in others
      BY <3>1
    <3> QED
      BY <1>3, <3>1, <3>2 DEF HasWay
  <2>2. Bare(reg, x) => Bare(new, x)
    BY DEF Bare
  <2> QED
    BY <2>1, <2>2
<1>5. (HasWay(tools, s) => HasWay(new, s)) /\ (Bare(tools, s) => Bare(new, s))
  BY DEF HasWay, Bare
<1> HIDE DEF new
<1> QED
  BY <1>1, <1>2, <1>4, <1>5 DEF Replaces

\* A connect tool by itself.
LEMMA ConnectToolIs ==
    ASSUME NEW s \in McpServers, NEW nm \in BuiltNames, nm.of = "connect"
    PROVE  LET tools == {Surface!Tool(nm, s, "connect")}
           IN  /\ RegistryOK(tools) /\ HasWay(tools, s) /\ Bare(tools, s)
               /\ \A t \in tools : t.server = s /\ t.name = nm
<1> DEFINE ct == Surface!Tool(nm, s, "connect")
<1>1. /\ ct \in SurfaceTools /\ ct.server = s /\ ct.name = nm /\ ct.original = "connect"
  BY DEF Surface!Tool, SurfaceTools, ToolNames
<1>2. IsFiniteSet({ct})
  <2> HIDE DEF ct
  <2> QED
    BY FS_Singleton
<1> HIDE DEF ct
<1>3. RegistryOK({ct}) /\ HasWay({ct}, s) /\ Bare({ct}, s)
      /\ \A u \in {ct} : u.server = s /\ u.name = nm
  BY <1>1, <1>2 DEF RegistryOK, HasWay, Bare
<1> QED
  BY <1>3 DEF ct

LEMMA ConnectOnlyReplaces ==
    ASSUME RegistryOK(registry), NEW s \in McpServers
    PROVE  /\ Replaces(registry, Surface!ConnectOnly(s), s)
           /\ HasWay(Surface!ConnectOnly(s), s) /\ Bare(Surface!ConnectOnly(s), s)
<1> DEFINE others == {t \in registry : t.server # s}
           nm == Surface!buildToolName("connect", Surface!Names(others))
           tools == {Surface!Tool(nm, s, "connect")}
<1>1. IsFiniteSet(Surface!Names(others))
  BY OthersRemain
<1>2. nm \in BuiltNames \ Surface!Names(others) /\ nm.of = "connect"
  <2>1. "connect" \in ToolNames
    BY DEF ToolNames
  <2> HIDE DEF others
  <2> QED
    BY <1>1, <2>1, BuiltIsFree
<1>3. /\ RegistryOK(tools) /\ HasWay(tools, s) /\ Bare(tools, s)
      /\ \A t \in tools : t.server = s /\ t.name = nm
  <2> HIDE DEF nm
  <2> QED
    BY <1>2, ConnectToolIs
<1>4. Surface!ConnectOnly(s) = Surface!Register(others, tools)
  BY DEF Surface!ConnectOnly, Surface!OthersOf
<1>5. \A t \in tools : t.original = "connect" => t.name \notin Surface!Names(others)
  BY <1>2, <1>3
<1> HIDE DEF tools, nm
<1> QED
  BY <1>3, <1>4, <1>5, RegisterReplaces

\* #projectTools(): the server's tools, its connect tool and a utility.
LEMMA ProjectReplaces ==
    ASSUME NEW reg, RegistryOK(reg), NEW s \in McpServers, NEW tools, Offered(tools, s)
    PROVE  /\ Replaces(reg, Surface!Project(s, tools, reg), s)
           /\ HasWay(Surface!Project(s, tools, reg), s)
<1> DEFINE others == {t \in reg : t.server # s}
           first == Surface!Names(others \cup tools)
           cn == Surface!buildToolName("connect", first)
           un == Surface!buildToolName("list", first \cup {cn})
           ct == Surface!Tool(cn, s, "connect")
           ut == Surface!Tool(un, s, "list")
           all == tools \cup {ct, ut}
<1>1. IsFiniteSet(first)
  <2>1. IsFiniteSet(others) /\ IsFiniteSet(tools)
    BY OthersRemain DEF RegistryOK, Offered
  <2> HIDE DEF others
  <2> QED
    BY <2>1, FS_Union, NamesAreFinite
<1>2. "connect" \in ToolNames /\ "list" \in ToolNames
  BY DEF ToolNames
<1>3. cn \in BuiltNames \ first /\ cn.of = "connect"
  <2> HIDE DEF first
  <2> QED
    BY <1>1, <1>2, BuiltIsFree
<1>4. un \in BuiltNames /\ un.of = "list"
  <2>1. IsFiniteSet(first \cup {cn})
    <3> HIDE DEF first, cn
    <3> QED
      BY <1>1, FS_AddElement
  <2> HIDE DEF first, cn
  <2> QED
    BY <1>2, <2>1, BuiltIsFree
<1>5. cn \notin Surface!Names(others)
  <2>1. Surface!Names(others) \subseteq first
    BY DEF Surface!Names
  <2> HIDE DEF first, cn
  <2> QED
    BY <1>3, <2>1
<1> HIDE DEF cn, un
<1>6. /\ ct \in SurfaceTools /\ ct.server = s /\ ct.name = cn /\ ct.original = "connect"
      /\ ut \in SurfaceTools /\ ut.server = s /\ ut.name = un /\ ut.original = "list"
  BY <1>2, <1>3, <1>4 DEF Surface!Tool, SurfaceTools
<1> HIDE DEF ct, ut
<1>7. IsFiniteSet(all)
  <2>1. all = (tools \cup {ct}) \cup {ut}
    OBVIOUS
  <2> HIDE DEF all
  <2> QED
    BY <2>1, FS_AddElement DEF Offered
<1>8. RegistryOK(all)
  BY <1>3, <1>4, <1>6, <1>7 DEF RegistryOK, Offered
<1>9. HasWay(all, s)
  BY <1>6 DEF HasWay
<1>10. \A t \in all : t.server = s
  BY <1>6 DEF Offered
<1>11. \A t \in all : t.original = "connect" => t.name \notin Surface!Names(others)
  BY <1>5, <1>6 DEF Offered
<1>12. Surface!Project(s, tools, reg) = Surface!Register(others, all)
  BY DEF Surface!Project, cn, un, ct, ut
<1> HIDE DEF all
<1> QED
  BY <1>8, <1>9, <1>10, <1>11, <1>12, RegisterReplaces

LEMMA ProjectOneReplaces ==
    ASSUME NEW reg, RegistryOK(reg), NEW s \in McpServers, Offered(cached[s], s)
    PROVE  /\ Replaces(reg, Surface!ProjectOne(s, reg), s)
           /\ HasWay(Surface!ProjectOne(s, reg), s)
<1> DEFINE others == {t \in reg : t.server # s}
           nm == Surface!buildToolName("connect", Surface!Names(others))
           tools == {Surface!Tool(nm, s, "connect")}
<1>1. CASE cached[s] # Surface!NoCache
  <2>1. Surface!ProjectOne(s, reg) = Surface!Project(s, cached[s], reg)
    BY <1>1 DEF Surface!ProjectOne
  <2> QED
    BY <2>1, ProjectReplaces
<1>2. CASE cached[s] = Surface!NoCache
  <2>1. Surface!ProjectOne(s, reg) = others \cup tools
    BY <1>2 DEF Surface!ProjectOne
  <2>2. RegistryOK(others) /\ Replaces(reg, others, s)
        /\ IsFiniteSet(Surface!Names(others))
    BY OthersRemain
  <2>3. nm \in BuiltNames /\ nm.of = "connect"
    <3>1. "connect" \in ToolNames
      BY DEF ToolNames
    <3> HIDE DEF others
    <3> QED
      BY <2>2, <3>1, BuiltIsFree
  <2>4. /\ RegistryOK(tools) /\ HasWay(tools, s) /\ \A t \in tools : t.server = s
    <3> HIDE DEF nm
    <3> QED
      BY <2>3, ConnectToolIs
  <2>5. RegistryOK(others \cup tools)
    <3> HIDE DEF others, tools
    <3> QED
      BY <2>2, <2>4, FS_Union DEF RegistryOK
  <2> HIDE DEF others, tools
  <2>6. Replaces(reg, others \cup tools, s) /\ HasWay(others \cup tools, s)
    BY <2>2, <2>4, <2>5 DEF Replaces, HasWay, Bare
  <2> QED
    BY <2>1, <2>6
<1> QED
  BY <1>1, <1>2

\* The registries after each of the servers.
Projected(f, order, n, reg) ==
    f = [i \in 0..n |-> IF i = 0 THEN reg ELSE Surface!ProjectOne(order[i], f[i - 1])]

LEMMA ProjectedExists ==
    ASSUME NEW order, NEW reg, NEW n \in Nat PROVE \E f : Projected(f, order, n, reg)
<1> DEFINE bad == {m \in Nat : ~ \E f : Projected(f, order, m, reg)}
<1> SUFFICES ASSUME bad # {} PROVE FALSE
  OBVIOUS
<1>1. PICK m \in bad : \A k \in bad : m <= k
  <2>1. bad \in SUBSET Nat
    OBVIOUS
  <2> HIDE DEF bad
  <2> QED
    BY <2>1, Smallest
<1>2. m \in Nat /\ ~ \E f : Projected(f, order, m, reg)
  OBVIOUS
<1>3. CASE m = 0
  <2> DEFINE f == [i \in 0..0 |-> reg]
  <2>1. f = [i \in 0..0 |-> IF i = 0 THEN reg ELSE Surface!ProjectOne(order[i], f[i - 1])]
    OBVIOUS
  <2> HIDE DEF f
  <2>2. Projected(f, order, 0, reg)
    BY <2>1 DEF Projected
  <2> QED
    BY <1>2, <1>3, <2>2
<1>4. CASE m # 0
  <2>1. m - 1 \in Nat /\ m - 1 \notin bad
    <3> HIDE DEF bad
    <3> QED
      BY <1>1, <1>2, <1>4
  <2>2. PICK f : Projected(f, order, m - 1, reg)
    BY <2>1
  <2> DEFINE g == [i \in 0..m |-> IF i = m THEN Surface!ProjectOne(order[m], f[m - 1])
                                  ELSE f[i]]
  <2>3. ASSUME NEW i \in 0..m
        PROVE  g[i] = IF i = 0 THEN reg ELSE Surface!ProjectOne(order[i], g[i - 1])
    <3>1. CASE i = m
      <4>1. g[m] = Surface!ProjectOne(order[m], f[m - 1]) /\ g[m - 1] = f[m - 1]
        BY <1>2, <1>4
      <4> QED
        BY <1>4, <3>1, <4>1
    <3>2. CASE i # m
      <4>1. i \in 0..(m - 1) /\ g[i] = f[i]
        BY <1>2, <3>2
      <4>2. f[i] = IF i = 0 THEN reg ELSE Surface!ProjectOne(order[i], f[i - 1])
        BY <2>2, <4>1 DEF Projected
      <4>3. i # 0 => g[i - 1] = f[i - 1]
        BY <1>2, <4>1
      <4> HIDE DEF g
      <4> QED
        BY <4>1, <4>2, <4>3
    <3> QED
      BY <3>1, <3>2
  <2>4. g = [i \in 0..m |-> g[i]]
    OBVIOUS
  <2> HIDE DEF g
  <2>5. Projected(g, order, m, reg)
    BY <2>3, <2>4 DEF Projected
  <2> QED
    BY <1>2, <2>5
<1> QED
  BY <1>3, <1>4

\* #projectCachedTools(): every server that is on has its way in, and nothing else is new.
LEMMA ProjectAllIs ==
    ASSUME \A s \in McpServers : Offered(cached[s], s),
           NEW on \in SUBSET McpServers, NEW n \in Nat, NEW order \in [1..n -> on],
           \A s \in on : \E i \in 1..n : order[i] = s,
           NEW reg, RegistryOK(reg)
    PROVE  /\ RegistryOK(Surface!ProjectAll(order, n, reg))
           /\ \A x \in McpServers :
                 /\ HasWay(reg, x) \/ x \in on => HasWay(Surface!ProjectAll(order, n, reg), x)
                 /\ Bare(reg, x) /\ x \notin on => Bare(Surface!ProjectAll(order, n, reg), x)
<1> DEFINE f == CHOOSE g : g = [i \in 0..n |->
                    IF i = 0 THEN reg ELSE Surface!ProjectOne(order[i], g[i - 1])]
<1>1. Surface!ProjectAll(order, n, reg) = f[n]
  BY Zenon DEF Surface!ProjectAll
<1>2. f = [i \in 0..n |-> IF i = 0 THEN reg ELSE Surface!ProjectOne(order[i], f[i - 1])]
  <2> HIDE DEF f
  <2>0. \E g : Projected(g, order, n, reg)
    BY ProjectedExists
  <2>1. \E g : g = [i \in 0..n |-> IF i = 0 THEN reg
                                     ELSE Surface!ProjectOne(order[i], g[i - 1])]
    BY <2>0, Zenon DEF Projected
  <2> USE DEF f
  <2> QED
    BY <2>1, Zenon
<1> HIDE DEF f
<1> DEFINE Good(i) ==
             /\ RegistryOK(f[i])
             /\ \A x \in McpServers :
                   /\ HasWay(reg, x) \/ (\E k \in 1..i : order[k] = x) => HasWay(f[i], x)
                   /\ Bare(reg, x) /\ x \notin on => Bare(f[i], x)
           bad == {i \in 0..n : ~Good(i)}
<1>3. Good(0)
  <2>1. f[0] = reg
    BY <1>2
  <2> QED
    BY <2>1
<1>4. ASSUME NEW i \in 1..n, Good(i - 1) PROVE Good(i)
  <2> DEFINE s == order[i]
  <2>1. s \in on /\ s \in McpServers /\ f[i] = Surface!ProjectOne(s, f[i - 1])
    BY <1>2
  <2> HIDE DEF s
  <2>2. Replaces(f[i - 1], f[i], s) /\ HasWay(f[i], s)
    BY <1>4, <2>1, ProjectOneReplaces
  <2>3. \A x \in McpServers : (\E k \in 1..i : order[k] = x) =>
            x = s \/ \E k \in 1..(i - 1) : order[k] = x
    BY DEF s
  <2>4. ASSUME NEW x \in McpServers
        PROVE  /\ HasWay(reg, x) \/ (\E k \in 1..i : order[k] = x) => HasWay(f[i], x)
               /\ Bare(reg, x) /\ x \notin on => Bare(f[i], x)
    <3>1. CASE x = s
      BY <2>1, <2>2, <3>1
    <3>2. CASE x # s
      BY <1>4, <2>2, <2>3, <3>2 DEF Replaces
    <3> QED
      BY <3>1, <3>2
  <2> QED
    BY <2>2, <2>4 DEF Replaces
<1>5. Good(n)
  <2>1. bad = {}
    <3> SUFFICES ASSUME bad # {} PROVE FALSE
      OBVIOUS
    <3>1. PICK m \in bad : \A k \in bad : m <= k
      <4>1. bad \in SUBSET Nat
        OBVIOUS
      <4> HIDE DEF bad
      <4> QED
        BY <4>1, Smallest
    <3>2. m \in 0..n /\ ~Good(m)
      OBVIOUS
    <3> HIDE DEF Good
    <3>3. m # 0
      BY <1>3, <3>2
    <3>4. m \in 1..n /\ m - 1 \in 0..n
      BY <3>2, <3>3
    <3>5. Good(m - 1)
      <4>1. m - 1 \notin bad
        <5> HIDE DEF bad
        <5> QED
          BY <3>1, <3>4
      <4> QED
        BY <3>4, <4>1
    <3> QED
      BY <1>4, <3>2, <3>4, <3>5
  <2> QED
    BY <2>1
<1> QED
  BY <1>1, <1>5

-----------------------------------------------------------------------------
(* McpSurface: what a server that is on, or off, has in the registry.      *)

SurfaceConfigs == [on : BOOLEAN, trust : {"trusted", "untrusted", "quarantined"},
                   mode : {"lazy", "background"}, ready : BOOLEAN]
SurfaceEntries == [state : {"absent", "configured", "connecting", "connected", "failed",
                            "degraded"},
                   explicit : BOOLEAN, tools : SUBSET SurfaceTools]
SurfaceLists == [s : McpServers, at : {"handshake", "list", "rest"}]
Closings == [op : {"disable", "remove", "update", "retry"}, s : McpServers]

ConfigTyped ==
    /\ DOMAIN configured \subseteq McpServers
    /\ \A s \in DOMAIN configured : configured[s] \in SurfaceConfigs

SurfaceTyped ==
    /\ ConfigTyped /\ RegistryOK(registry)
    /\ entries \in [McpServers -> SurfaceEntries]
    /\ \A s \in McpServers : Offered(entries[s].tools, s) /\ Offered(cached[s], s)
    /\ cached \in [McpServers -> SUBSET SurfaceTools]
    /\ lists \in SUBSET SurfaceLists /\ closing \in SUBSET Closings
    /\ running \in BOOLEAN
    /\ ~running => registry = {} /\ lists = {} /\ closing = {}

SurfaceOn(s) == s \in DOMAIN configured /\ configured[s].on
Linked(s) == entries[s].state = "connected" /\ ~entries[s].explicit
PendingOff(s) == [op |-> "disable", s |-> s] \in closing

\* While no two operations have overlapped: a server that is on has its way in, one that
\* is off, or about to be, has no list under way, and no tools once it is done; there is
\* one operation at a time, and no list meanwhile.
SafeServer(s) ==
    s \notin overlaps =>
        /\ running /\ SurfaceOn(s) => HasWay(registry, s)
        /\ ~SurfaceOn(s) /\ ~PendingOff(s) => Bare(registry, s) /\ ~Surface!Fetching(s)
        /\ \A o, q \in closing : o.s = s /\ q.s = s => o = q
        /\ Surface!Waiting(s) => ~Surface!Fetching(s)
        /\ PendingOff(s) => ~SurfaceOn(s)
        /\ Linked(s) => SurfaceOn(s) /\ ~Surface!Waiting(s)

SurfaceInv == SurfaceTyped /\ \A s \in McpServers : SafeServer(s)

LEMMA EnabledIsOn == ASSUME NEW s PROVE Surface!Enabled(s) <=> SurfaceOn(s)
BY DEF Surface!Enabled, Surface!Listed, Surface!Local, Surface!getServer, Surface!Discovered,
       Surface!Config, SurfaceOn

LEMMA SurfaceInit == Surface!Init => SurfaceInv
<1> SUFFICES ASSUME Surface!Init PROVE SurfaceInv
  OBVIOUS
<1>1. /\ DOMAIN configured = {} /\ registry = {} /\ lists = {} /\ closing = {}
      /\ running = TRUE
      /\ entries = [s \in McpServers |-> Surface!Absent]
      /\ cached = [s \in McpServers |-> Surface!NoCache]
  BY DEF Surface!Init
<1>2. IsFiniteSet({})
  BY FS_EmptySet
<1>3. Surface!Absent \in SurfaceEntries /\ Surface!Absent.tools = {}
      /\ Surface!Absent.state # "connected"
  BY DEF Surface!Absent, SurfaceEntries
<1>4. SurfaceTyped
  <2>1. RegistryOK(registry)
    BY <1>1, <1>2 DEF RegistryOK
  <2>2. \A s \in McpServers : Offered(entries[s].tools, s) /\ Offered(cached[s], s)
    BY <1>1, <1>2, <1>3 DEF Offered, Surface!NoCache
  <2> QED
    BY <1>1, <1>3, <2>1, <2>2 DEF SurfaceTyped, ConfigTyped, Surface!NoCache
<1>5. ASSUME NEW s \in McpServers PROVE SafeServer(s)
  BY <1>1, <1>3 DEF SafeServer, SurfaceOn, Linked, PendingOff, Surface!Waiting,
     Surface!Fetching, Bare
<1> QED
  BY <1>4, <1>5 DEF SurfaceInv

LEMMA PutIs ==
    ASSUME ConfigTyped, NEW s \in McpServers, NEW c \in SurfaceConfigs,
           configured' = Surface!Put(s, c)
    PROVE  /\ ConfigTyped' /\ (SurfaceOn(s)' <=> c.on)
           /\ \A x \in McpServers \ {s} : SurfaceOn(x)' <=> SurfaceOn(x)
<1>1. /\ DOMAIN configured' = DOMAIN configured \cup {s}
      /\ configured'[s] = c
      /\ \A x \in DOMAIN configured \ {s} : configured'[x] = configured[x]
  BY DEF Surface!Put, Surface!Local
<1> QED
  BY <1>1 DEF ConfigTyped, SurfaceOn

LEMMA DropIs ==
    ASSUME ConfigTyped, NEW s \in McpServers, configured' = Surface!Drop(s)
    PROVE  /\ ConfigTyped' /\ ~SurfaceOn(s)'
           /\ \A x \in McpServers \ {s} : SurfaceOn(x)' <=> SurfaceOn(x)
<1>1. /\ DOMAIN configured' = DOMAIN configured \ {s}
      /\ \A x \in DOMAIN configured \ {s} : configured'[x] = configured[x]
  BY DEF Surface!Drop, Surface!Local
<1> QED
  BY <1>1 DEF ConfigTyped, SurfaceOn

LEMMA ConfigIs ==
    ASSUME ConfigTyped, NEW s
    PROVE  Surface!getServer(s) \in SurfaceConfigs
BY DEF ConfigTyped, Surface!getServer, Surface!Local, Surface!Discovered, Surface!Config,
       SurfaceConfigs

\* What a step that works on s leaves of the others.
Touches(s) ==
    /\ running' = running /\ overlaps \subseteq overlaps'
    /\ \A x \in McpServers \ {s} : SurfaceOn(x)' <=> SurfaceOn(x)
    /\ registry' = registry \/ Replaces(registry, registry', s)
    /\ \A l \in lists' : l.s # s => \E k \in lists : k.s = l.s
    /\ \A o \in closing \cup closing' : o.s # s => o \in closing /\ o \in closing'
    /\ \A x \in McpServers \ {s} : entries'[x].state = entries[x].state
                                   /\ entries'[x].explicit = entries[x].explicit

LEMMA OthersSafe ==
    ASSUME SurfaceInv, NEW s \in McpServers, Touches(s), SurfaceTyped', SafeServer(s)'
    PROVE  SurfaceInv'
<1>1. ASSUME NEW x \in McpServers \ {s}, x \notin overlaps' PROVE SafeServer(x)'
  <2>1. x \notin overlaps /\ SafeServer(x)
    BY <1>1 DEF Touches, SurfaceInv
  <2>2. SurfaceOn(x)' <=> SurfaceOn(x)
    BY DEF Touches
  <2>3. (HasWay(registry, x) => HasWay(registry', x)) /\ (Bare(registry, x) => Bare(registry', x))
    BY DEF Touches, Replaces
  <2>4. Surface!Fetching(x)' => Surface!Fetching(x)
    BY DEF Touches, Surface!Fetching
  <2>5. \A o : o.s = x => (o \in closing' <=> o \in closing)
    BY DEF Touches
  <2>6. (Surface!Waiting(x)' <=> Surface!Waiting(x)) /\ (PendingOff(x)' <=> PendingOff(x))
    <3>1. [op |-> "disable", s |-> x].s = x
      OBVIOUS
    <3> QED
      BY <2>5, <3>1 DEF Surface!Waiting, PendingOff
  <2>7. Linked(x)' <=> Linked(x)
    BY DEF Touches, Linked
  <2>8. \A o, q \in closing' : o.s = x /\ q.s = x => o = q
    BY <2>1, <2>5 DEF SafeServer
  <2>9. running' = running
    BY DEF Touches
  <2> QED
    BY <2>1, <2>2, <2>3, <2>4, <2>6, <2>7, <2>8, <2>9 DEF SafeServer
<1>2. \A x \in McpServers : SafeServer(x)'
  BY <1>1 DEF SafeServer
<1> QED
  BY <1>2 DEF SurfaceInv

\* A server that is on and on which no operation waits.
LEMMA SafeWhenOn ==
    ASSUME NEW s \in McpServers,
           s \notin overlaps' => /\ SurfaceOn(s)' /\ ~Surface!Waiting(s)'
                                 /\ running' => HasWay(registry', s)
    PROVE  SafeServer(s)'
<1>1. PendingOff(s)' => Surface!Waiting(s)'
  <2>1. [op |-> "disable", s |-> s].s = s
    OBVIOUS
  <2> QED
    BY <2>1 DEF PendingOff, Surface!Waiting
<1>2. ~Surface!Waiting(s)' => \A o \in closing' : o.s # s
  BY DEF Surface!Waiting
<1> QED
  BY <1>1, <1>2 DEF SafeServer

\* A server with which nothing is under way.
LEMMA SafeIdle ==
    ASSUME NEW s \in McpServers,
           s \notin overlaps' =>
               /\ ~Surface!Waiting(s)' /\ ~Surface!Fetching(s)' /\ ~Linked(s)'
               /\ SurfaceOn(s)' => HasWay(registry', s)
               /\ ~SurfaceOn(s)' => Bare(registry', s)
    PROVE  SafeServer(s)'
<1>1. PendingOff(s)' => Surface!Waiting(s)'
  <2>1. [op |-> "disable", s |-> s].s = s
    OBVIOUS
  <2> QED
    BY <2>1 DEF PendingOff, Surface!Waiting
<1>2. ~Surface!Waiting(s)' => \A o \in closing' : o.s # s
  BY DEF Surface!Waiting
<1> QED
  BY <1>1, <1>2 DEF SafeServer

\* A list is under way only with a server that is on and on which no operation waits.
LEMMA FetchedIsOn ==
    ASSUME SurfaceInv, NEW s \in McpServers, s \notin overlaps, Surface!Fetching(s)
    PROVE  SurfaceOn(s) /\ ~Surface!Waiting(s)
<1>1. PendingOff(s) => Surface!Waiting(s)
  <2>1. [op |-> "disable", s |-> s].s = s
    OBVIOUS
  <2> QED
    BY <2>1 DEF PendingOff, Surface!Waiting
<1> QED
  BY <1>1 DEF SurfaceInv, SafeServer

LEMMA EntryIs ==
    ASSUME SurfaceTyped, NEW s \in McpServers
    PROVE  /\ Surface!ensureEntry(s) \in SurfaceEntries
           /\ Offered(Surface!ensureEntry(s).tools, s)
           /\ Surface!ensureEntry(s).state \in {"configured", entries[s].state}
           /\ Surface!ensureEntry(s).explicit \in {FALSE, entries[s].explicit}
<1>1. CASE entries[s] = Surface!Absent
  <2>1. Surface!ensureEntry(s) = Surface!Entry("configured")
    BY <1>1 DEF Surface!ensureEntry
  <2>2. /\ Surface!Entry("configured") \in SurfaceEntries
        /\ Surface!Entry("configured").tools = {}
        /\ Surface!Entry("configured").state = "configured"
        /\ Surface!Entry("configured").explicit = FALSE
    BY DEF Surface!Entry, SurfaceEntries
  <2>3. Offered({}, s)
    BY FS_EmptySet DEF Offered
  <2> QED
    BY <2>1, <2>2, <2>3
<1>2. CASE entries[s] # Surface!Absent
  BY <1>2 DEF Surface!ensureEntry, SurfaceTyped
<1> QED
  BY <1>1, <1>2

\* A step with a server that is on, and on which no operation waits.
LEMMA OnKeeps ==
    ASSUME SurfaceInv, NEW s \in McpServers, running, running' = running,
           UNCHANGED <<configured, closing>>, overlaps \subseteq overlaps',
           s \notin overlaps' => SurfaceOn(s) /\ ~Surface!Waiting(s),
           registry' = registry \/ (Replaces(registry, registry', s) /\ HasWay(registry', s)),
           lists' \in SUBSET SurfaceLists,
           \A l \in lists' : l.s # s => \E k \in lists : k.s = l.s,
           NEW e \in SurfaceEntries, Offered(e.tools, s),
           entries' = [entries EXCEPT ![s] = e],
           NEW tools, Offered(tools, s),
           cached' = cached \/ cached' = [cached EXCEPT ![s] = tools]
    PROVE  SurfaceInv'
<1>1. SurfaceTyped
  BY DEF SurfaceInv
<1>2. /\ entries' \in [McpServers -> SurfaceEntries] /\ entries'[s] = e
      /\ \A x \in McpServers \ {s} : entries'[x] = entries[x]
  BY <1>1 DEF SurfaceTyped
<1>3. tools \in SUBSET SurfaceTools
  BY DEF Offered
<1>4. /\ cached' \in [McpServers -> SUBSET SurfaceTools]
      /\ \A x \in McpServers : Offered(cached'[x], x)
  BY <1>1, <1>3 DEF SurfaceTyped
<1>5. RegistryOK(registry')
  BY <1>1 DEF SurfaceTyped, Replaces
<1>6. SurfaceTyped'
  BY <1>1, <1>2, <1>4, <1>5 DEF SurfaceTyped, ConfigTyped
<1>7. \A x : (SurfaceOn(x)' <=> SurfaceOn(x)) /\ (Surface!Waiting(x)' <=> Surface!Waiting(x))
  BY DEF SurfaceOn, Surface!Waiting
<1>8. Touches(s)
  BY <1>2, <1>7 DEF Touches
<1>9. s \notin overlaps' => HasWay(registry', s)
  BY <1>7 DEF SurfaceInv, SafeServer
<1>10. SafeServer(s)'
  BY <1>7, <1>9, SafeWhenOn
<1> QED
  BY <1>6, <1>8, <1>10, OthersSafe

\* #recordFailure() leaves the connect tool.
LEMMA FailedIs ==
    ASSUME SurfaceTyped, NEW s \in McpServers, Surface!Failed(s)
    PROVE  /\ \E e \in SurfaceEntries : Offered(e.tools, s) /\ entries' = [entries EXCEPT ![s] = e]
           /\ registry' = registry \/ (Replaces(registry, registry', s) /\ HasWay(registry', s))
<1> DEFINE e == [Surface!ensureEntry(s) EXCEPT !.state = "failed"]
<1>1. CASE entries[s].explicit /\ UNCHANGED <<entries, registry>>
  <2>1. entries[s] \in SurfaceEntries /\ Offered(entries[s].tools, s)
    BY DEF SurfaceTyped
  <2>2. entries' = [entries EXCEPT ![s] = entries[s]]
    BY <1>1 DEF SurfaceTyped
  <2> QED
    BY <1>1, <2>1, <2>2
<1>2. CASE entries' = [entries EXCEPT ![s] = e] /\ registry' = Surface!ConnectOnly(s)
  <2>1. e \in SurfaceEntries /\ Offered(e.tools, s)
    <3>1. Surface!ensureEntry(s) \in SurfaceEntries /\ Offered(Surface!ensureEntry(s).tools, s)
      BY EntryIs
    <3>2. e \in SurfaceEntries /\ e.tools = Surface!ensureEntry(s).tools
      BY <3>1 DEF SurfaceEntries
    <3> QED
      BY <3>1, <3>2
  <2> HIDE DEF e
  <2> QED
    BY <1>2, <2>1, ConnectOnlyReplaces DEF SurfaceTyped
<1> QED
  BY <1>1, <1>2 DEF Surface!Failed

\* connect().
LEMMA ConnectKeeps2 ==
    ASSUME SurfaceInv, NEW s \in McpServers, running, Surface!Connect(s),
           Surface!Overlap(s, Surface!Waiting(s)),
           UNCHANGED <<configured, project, cached, closing, running, edits>>
    PROVE  SurfaceInv'
<1> DEFINE e == Surface!ensureEntry(s)
           c == Surface!getServer(s)
<1>0. SurfaceTyped
  BY DEF SurfaceInv
<1>1. SurfaceOn(s)
  BY EnabledIsOn DEF Surface!Connect
<1>2. overlaps \subseteq overlaps' /\ (s \notin overlaps' => ~Surface!Waiting(s))
  BY DEF Surface!Overlap
<1>3. e \in SurfaceEntries /\ Offered(e.tools, s) /\ entries[s] \in SurfaceEntries
      /\ Offered(entries[s].tools, s) /\ lists \in SUBSET SurfaceLists
  BY <1>0, EntryIs DEF SurfaceTyped
<1>4. ASSUME NEW g \in SurfaceEntries, Offered(g.tools, s),
             entries' = [entries EXCEPT ![s] = g],
             registry' = registry \/ (Replaces(registry, registry', s) /\ HasWay(registry', s)),
             NEW at \in {"handshake", "list", "rest"},
             lists' \in {lists, lists \cup {[s |-> s, at |-> at]}}
      PROVE  SurfaceInv'
  <2>1. lists' \in SUBSET SurfaceLists
    BY <1>3, <1>4 DEF SurfaceLists
  <2>2. \A l \in lists' : l.s # s => \E k \in lists : k.s = l.s
    BY <1>4
  <2> HIDE DEF e, c
  <2> QED
    BY <1>1, <1>2, <1>3, <1>4, <2>1, <2>2, OnKeeps
<1>5. CASE lists' = lists \cup {[s |-> s, at |-> "list"]} /\ UNCHANGED <<entries, registry>>
  <2>1. entries' = [entries EXCEPT ![s] = entries[s]]
    BY <1>0, <1>5 DEF SurfaceTyped
  <2> QED
    BY <1>3, <1>4, <1>5, <2>1
<1>6. CASE Surface!Failed(s) /\ UNCHANGED lists
  BY <1>0, <1>4, <1>6, FailedIs
<1>7. CASE /\ entries' = [entries EXCEPT ![s] = [e EXCEPT !.state = "connecting", !.explicit = FALSE]]
           /\ lists' = lists \cup {[s |-> s, at |-> "handshake"]} /\ UNCHANGED registry
  <2> DEFINE g == [e EXCEPT !.state = "connecting", !.explicit = FALSE]
  <2>1. g \in SurfaceEntries /\ g.tools = e.tools
    <3> HIDE DEF e
    <3> QED
      BY <1>3 DEF SurfaceEntries
  <2> HIDE DEF g
  <2>2. Offered(g.tools, s) /\ entries' = [entries EXCEPT ![s] = g]
    BY <1>3, <1>7, <2>1 DEF g
  <2> QED
    BY <1>4, <1>7, <2>1, <2>2
<1> QED
  BY <1>5, <1>6, <1>7 DEF Surface!Connect

LEMMA UsesKeep ==
    ASSUME SurfaceInv,
           \/ \E t \in registry : Surface!UseTool(t)
           \/ \E s \in McpServers : Surface!FinishOAuth(s)
    PROVE  SurfaceInv'
<1>1. ASSUME NEW t \in registry, Surface!UseTool(t) PROVE SurfaceInv'
  <2>1. t.server \in McpServers
    BY DEF SurfaceInv, SurfaceTyped, RegistryOK, SurfaceTools
  <2> QED
    BY <1>1, <2>1, ConnectKeeps2 DEF Surface!UseTool
<1>2. ASSUME NEW s \in McpServers, Surface!FinishOAuth(s) PROVE SurfaceInv'
  BY <1>2, ConnectKeeps2 DEF Surface!FinishOAuth
<1> QED
  BY <1>1, <1>2

\* Names are built for a server's tools.
LEMMA NameToolsAre ==
    ASSUME RegistryOK(registry), NEW s \in McpServers, NEW offered \in ToolSets
    PROVE  Offered(Surface!NameTools(s, offered), s)
<1> DEFINE taken == Surface!Names(Surface!OthersOf(s))
           nm(x) == Surface!buildToolName(x, taken)
           tools == {Surface!Tool(nm(x), s, x) : x \in offered}
           f == [x \in offered |-> Surface!Tool(nm(x), s, x)]
<1>1. Surface!NameTools(s, offered) = tools
  BY DEF Surface!NameTools
<1>2. IsFiniteSet(taken)
  BY OthersRemain DEF Surface!OthersOf
<1>3. IsFiniteSet(offered) /\ offered \cap {"connect", "list"} = {}
  BY ServicesAssumptions DEF ServicesAssumptions
<1>4. ASSUME NEW x \in offered
      PROVE  LET t == Surface!Tool(nm(x), s, x)
             IN  /\ t \in SurfaceTools /\ t.server = s /\ t.original = x /\ t.name.of = x
                 /\ x \notin {"connect", "list"}
  <2>1. x \in ToolNames /\ x \notin {"connect", "list"}
    BY <1>3 DEF ToolNames
  <2>2. nm(x) \in BuiltNames /\ nm(x).of = x
    <3> HIDE DEF taken
    <3> QED
      BY <1>2, <2>1, BuiltIsFree
  <2> HIDE DEF nm
  <2> QED
    BY <2>1, <2>2 DEF Surface!Tool, SurfaceTools
<1>5. IsFiniteSet(tools)
  <2>1. f \in Surjection(offered, tools)
    <3> HIDE DEF nm
    <3> QED
      BY DEF Surjection
  <2> HIDE DEF f, tools
  <2> QED
    BY <1>3, <2>1, FS_Surjection
<1> HIDE DEF nm
<1>6. Offered(tools, s)
  BY <1>4, <1>5 DEF Offered
<1> QED
  BY <1>1, <1>6

\* A handshake or a list goes on, or fails.
LEMMA ListsKeep ==
    ASSUME SurfaceInv, NEW l \in lists,
           \/ Surface!HandshakeDone(l)
           \/ \E offered \in ToolSets : Surface!ToolsListed(l, offered)
           \/ Surface!SurfaceDone(l) \/ Surface!FetchFails(l)
    PROVE  SurfaceInv'
<1> DEFINE s == l.s
<1>1. SurfaceTyped /\ RegistryOK(registry) /\ lists \in SUBSET SurfaceLists
  BY DEF SurfaceInv, SurfaceTyped
<1>2. /\ l \in SurfaceLists /\ s \in McpServers /\ running
      /\ entries[s] \in SurfaceEntries /\ Offered(entries[s].tools, s)
  BY <1>1 DEF SurfaceTyped, SurfaceLists
<1>3. s \notin overlaps => SurfaceOn(s) /\ ~Surface!Waiting(s)
  BY <1>2, FetchedIsOn DEF Surface!Fetching
<1>4. UNCHANGED <<configured, closing, running, overlaps>>
  BY DEF Surface!HandshakeDone, Surface!ToolsListed, Surface!SurfaceDone, Surface!FetchFails
<1>5. /\ lists' \in SUBSET SurfaceLists
      /\ \A k \in lists' : k.s # s => \E j \in lists : j.s = k.s
  <2>1. lists' \in {lists \ {l}, (lists \ {l}) \cup {[l EXCEPT !.at = "list"]},
                    (lists \ {l}) \cup {[l EXCEPT !.at = "rest"]}}
    BY DEF Surface!HandshakeDone, Surface!ToolsListed, Surface!SurfaceDone, Surface!FetchFails
  <2>2. ASSUME NEW at \in {"list", "rest"}
        PROVE  [l EXCEPT !.at = at] \in SurfaceLists /\ [l EXCEPT !.at = at].s = s
    BY <1>2 DEF SurfaceLists
  <2> HIDE DEF s
  <2> QED
    BY <1>1, <2>1, <2>2
<1>6. ASSUME NEW e \in SurfaceEntries, Offered(e.tools, s), entries' = [entries EXCEPT ![s] = e],
             registry' = registry \/ (Replaces(registry, registry', s) /\ HasWay(registry', s)),
             NEW tools, Offered(tools, s),
             cached' = cached \/ cached' = [cached EXCEPT ![s] = tools]
      PROVE  SurfaceInv'
  <2> HIDE DEF s
  <2> QED
    BY <1>2, <1>3, <1>4, <1>5, <1>6, OnKeeps
<1>7. CASE Surface!HandshakeDone(l)
  <2> DEFINE e == [entries[s] EXCEPT !.state = "connected"]
  <2>1. e \in SurfaceEntries /\ e.tools = entries[s].tools
    BY <1>2 DEF SurfaceEntries
  <2>2. entries' = [entries EXCEPT ![s] = e]
    BY <1>1, <1>2, <1>7 DEF Surface!HandshakeDone, SurfaceTyped
  <2> HIDE DEF e, s
  <2> QED
    BY <1>2, <1>6, <1>7, <2>1, <2>2 DEF Surface!HandshakeDone
<1>8. ASSUME NEW offered \in ToolSets, Surface!ToolsListed(l, offered) PROVE SurfaceInv'
  <2> DEFINE tools == Surface!NameTools(s, offered)
             e == [entries[s] EXCEPT !.tools = tools]
  <2>1. Offered(tools, s)
    BY <1>1, <1>2, NameToolsAre
  <2>2. cached' = [cached EXCEPT ![s] = tools] /\ registry' = registry
        /\ entries' = [entries EXCEPT ![s].tools = tools]
    BY <1>8 DEF Surface!ToolsListed
  <2> HIDE DEF tools
  <2>3. e \in SurfaceEntries /\ e.tools = tools
    BY <1>2, <2>1 DEF SurfaceEntries, Offered
  <2>4. entries' = [entries EXCEPT ![s] = e]
    BY <1>1, <1>2, <2>2 DEF SurfaceTyped
  <2> HIDE DEF e, s
  <2> QED
    BY <1>6, <2>1, <2>2, <2>3, <2>4
<1>9. CASE Surface!SurfaceDone(l)
  <2>1. /\ registry' = Surface!Project(s, entries[s].tools, registry)
        /\ UNCHANGED <<entries, cached>>
    BY <1>9 DEF Surface!SurfaceDone
  <2>2. entries' = [entries EXCEPT ![s] = entries[s]]
    BY <1>1, <2>1 DEF SurfaceTyped
  <2> HIDE DEF s
  <2>3. Replaces(registry, registry', s) /\ HasWay(registry', s)
    BY <1>1, <1>2, <2>1, ProjectReplaces
  <2> QED
    BY <1>2, <1>6, <2>1, <2>2, <2>3
<1>10. CASE Surface!FetchFails(l)
  <2>1. Surface!Failed(s) /\ UNCHANGED cached
    BY <1>10 DEF Surface!FetchFails
  <2> HIDE DEF s
  <2>2. PICK e \in SurfaceEntries : Offered(e.tools, s) /\ entries' = [entries EXCEPT ![s] = e]
    BY <1>1, <1>2, <2>1, FailedIs
  <2>3. registry' = registry \/ (Replaces(registry, registry', s) /\ HasWay(registry', s))
    BY <1>1, <1>2, <2>1, FailedIs
  <2> QED
    BY <1>6, <2>1, <2>2, <2>3
<1> QED
  BY <1>7, <1>8, <1>9, <1>10

\* The server tells that its list has changed, or closes the connection.
LEMMA ServerTellsKeeps ==
    ASSUME SurfaceInv, NEW s \in McpServers, Surface!ListChanged(s) \/ Surface!OnClose(s)
    PROVE  SurfaceInv'
<1>1. SurfaceTyped /\ RegistryOK(registry) /\ lists \in SUBSET SurfaceLists
  BY DEF SurfaceInv, SurfaceTyped
<1>2. /\ running /\ entries[s] \in SurfaceEntries /\ Offered(entries[s].tools, s)
      /\ UNCHANGED <<configured, closing, running, overlaps, cached>>
  BY <1>1 DEF SurfaceTyped, Surface!ListChanged, Surface!OnClose
<1>3. s \notin overlaps => SurfaceOn(s) /\ ~Surface!Waiting(s)
  <2>1. Linked(s)
    BY DEF Surface!ListChanged, Surface!OnClose, Linked
  <2> QED
    BY <2>1 DEF SurfaceInv, SafeServer
<1>4. CASE Surface!ListChanged(s)
  <2>1. entries' = [entries EXCEPT ![s] = entries[s]] /\ registry' = registry
        /\ lists' = lists \cup {[s |-> s, at |-> "list"]}
    BY <1>1, <1>4 DEF SurfaceTyped, Surface!ListChanged
  <2>2. /\ lists' \in SUBSET SurfaceLists
        /\ \A k \in lists' : k.s # s => \E j \in lists : j.s = k.s
    BY <1>1, <2>1 DEF SurfaceLists
  <2> QED
    BY <1>2, <1>3, <2>1, <2>2, OnKeeps
<1>5. CASE Surface!OnClose(s)
  <2> DEFINE e == [entries[s] EXCEPT !.state = "degraded"]
  <2>1. e \in SurfaceEntries /\ e.tools = entries[s].tools
    BY <1>2 DEF SurfaceEntries
  <2>2. entries' = [entries EXCEPT ![s] = e]
    BY <1>1, <1>2, <1>5 DEF Surface!OnClose, SurfaceTyped
  <2>3. registry' = Surface!ConnectOnly(s) /\ lists' = lists
    BY <1>5 DEF Surface!OnClose
  <2> HIDE DEF e
  <2>4. Replaces(registry, registry', s) /\ HasWay(registry', s)
    BY <1>1, <2>3, ConnectOnlyReplaces
  <2>5. \A k \in lists' : k.s # s => \E j \in lists : j.s = k.s
    BY <2>3
  <2> QED
    BY <1>1, <1>2, <1>3, <2>1, <2>2, <2>3, <2>4, <2>5, OnKeeps
<1> QED
  BY <1>4, <1>5

LEMMA ConfigsAre ==
    ASSUME NEW on \in BOOLEAN, NEW trust \in {"trusted", "untrusted", "quarantined"},
           NEW mode \in {"lazy", "background"}, NEW ready \in BOOLEAN
    PROVE  /\ Surface!Config(on, trust, mode, ready) \in SurfaceConfigs
           /\ Surface!Config(on, trust, mode, ready).on = on
BY DEF Surface!Config, SurfaceConfigs

\* addServer(): what is added is off.
LEMMA AddServerKeeps ==
    ASSUME SurfaceInv, NEW s \in McpServers, NEW c \in Surface!Catalog, Surface!AddServer(s, c)
    PROVE  SurfaceInv'
<1> DEFINE e == Surface!ensureEntry(s)
<1>1. SurfaceTyped /\ RegistryOK(registry) /\ ConfigTyped
  BY DEF SurfaceInv, SurfaceTyped
<1>2. c \in SurfaceConfigs /\ c.on = FALSE
  BY ConfigsAre DEF Surface!Catalog
<1>3. ConfigTyped' /\ ~SurfaceOn(s)'
      /\ \A x \in McpServers \ {s} : SurfaceOn(x)' <=> SurfaceOn(x)
  <2>1. configured' = Surface!Put(s, c)
    BY DEF Surface!AddServer
  <2> QED
    BY <1>1, <1>2, <2>1, PutIs
<1>4. /\ e \in SurfaceEntries /\ Offered(e.tools, s)
      /\ e.state \in {"configured", entries[s].state}
  BY <1>1, EntryIs
<1>5. /\ UNCHANGED <<lists, cached, closing, running>> /\ running
      /\ entries' = [entries EXCEPT ![s] = e] /\ registry' = Surface!ConnectOnly(s)
      /\ overlaps \subseteq overlaps'
      /\ s \notin overlaps' => /\ entries[s].state # "connected" /\ ~Surface!Fetching(s)
                               /\ ~Surface!Waiting(s)
  BY DEF Surface!AddServer, Surface!CanEdit, Surface!Overlap
<1> HIDE DEF e
<1>6. /\ Replaces(registry, registry', s) /\ HasWay(registry', s) /\ Bare(registry', s)
  BY <1>1, <1>5, ConnectOnlyReplaces
<1>7. /\ entries' \in [McpServers -> SurfaceEntries] /\ entries'[s] = e
      /\ \A x \in McpServers \ {s} : entries'[x] = entries[x]
  BY <1>1, <1>4, <1>5 DEF SurfaceTyped
<1>8. SurfaceTyped'
  BY <1>1, <1>3, <1>4, <1>5, <1>6, <1>7 DEF SurfaceTyped, Replaces
<1>9. Touches(s)
  BY <1>3, <1>5, <1>6, <1>7 DEF Touches
<1>10. SafeServer(s)'
  <2>1. s \notin overlaps' => ~Linked(s)'
    BY <1>4, <1>5, <1>7 DEF Linked
  <2>2. s \notin overlaps' => ~Surface!Waiting(s)' /\ ~Surface!Fetching(s)'
    BY <1>5 DEF Surface!Waiting, Surface!Fetching
  <2> QED
    BY <1>3, <1>6, <2>1, <2>2, SafeIdle
<1> QED
  BY <1>8, <1>9, <1>10, OthersSafe

\* enableServer(): a server that is switched on has its way in at once.
LEMMA EnableServerKeeps ==
    ASSUME SurfaceInv, NEW s \in McpServers, Surface!EnableServer(s)
    PROVE  SurfaceInv'
<1> DEFINE c == [Surface!getServer(s) EXCEPT !.on = TRUE, !.trust = "trusted"]
           e == Surface!ensureEntry(s)
           g == entries'[s]
<1>1. SurfaceTyped /\ RegistryOK(registry) /\ ConfigTyped
  BY DEF SurfaceInv, SurfaceTyped
<1>2. c \in SurfaceConfigs /\ c.on
  <2>1. Surface!getServer(s) \in SurfaceConfigs
    BY <1>1, ConfigIs
  <2> QED
    BY <2>1 DEF SurfaceConfigs
<1>3. ConfigTyped' /\ SurfaceOn(s)'
      /\ \A x \in McpServers \ {s} : SurfaceOn(x)' <=> SurfaceOn(x)
  <2>1. configured' = Surface!Put(s, c)
    BY DEF Surface!EnableServer
  <2> HIDE DEF c
  <2> QED
    BY <1>1, <1>2, <2>1, PutIs
<1>4. e \in SurfaceEntries /\ Offered(e.tools, s)
  BY <1>1, EntryIs
<1>5. \E h \in {e, [e EXCEPT !.state = "connecting", !.explicit = FALSE], [e EXCEPT !.state = "failed"]} :
          entries' = [entries EXCEPT ![s] = h]
  <2> HIDE DEF e
  <2> QED
    BY DEF Surface!EnableServer, e
<1>6. PICK h \in SurfaceEntries : h.tools = e.tools /\ entries' = [entries EXCEPT ![s] = h]
  <2> HIDE DEF e
  <2>1. \A h \in {e, [e EXCEPT !.state = "connecting", !.explicit = FALSE], [e EXCEPT !.state = "failed"]} :
            h \in SurfaceEntries /\ h.tools = e.tools
    BY <1>4 DEF SurfaceEntries
  <2> QED
    BY <1>5, <2>1
<1>7. /\ UNCHANGED <<cached, closing, running>> /\ running
      /\ registry' = Surface!ConnectOnly(s)
      /\ overlaps \subseteq overlaps' /\ (s \notin overlaps' => ~Surface!Waiting(s))
  BY DEF Surface!EnableServer, Surface!CanEdit, Surface!Overlap
<1>8. \E at \in {"handshake", "list"} : lists' \in {lists, lists \cup {[s |-> s, at |-> at]}}
  BY DEF Surface!EnableServer
<1> HIDE DEF e
<1>9. /\ Replaces(registry, registry', s) /\ HasWay(registry', s)
  BY <1>1, <1>7, ConnectOnlyReplaces
<1>10. /\ entries' \in [McpServers -> SurfaceEntries] /\ entries'[s] = h
       /\ \A x \in McpServers \ {s} : entries'[x] = entries[x]
  BY <1>1, <1>6 DEF SurfaceTyped
<1>11. lists' \in SUBSET SurfaceLists /\ \A l \in lists' : l.s # s => l \in lists
  BY <1>1, <1>8 DEF SurfaceTyped, SurfaceLists
<1>12. SurfaceTyped'
  BY <1>1, <1>3, <1>4, <1>6, <1>7, <1>9, <1>10, <1>11 DEF SurfaceTyped, Replaces
<1>13. Touches(s)
  BY <1>3, <1>7, <1>9, <1>10, <1>11 DEF Touches
<1>14. SafeServer(s)'
  <2>1. s \notin overlaps' => ~Surface!Waiting(s)'
    BY <1>7 DEF Surface!Waiting
  <2> QED
    BY <1>3, <1>9, <2>1, SafeWhenOn
<1> QED
  BY <1>12, <1>13, <1>14, OthersSafe

\* Another process changes the configuration.
LEMMA OtherProcessKeeps ==
    ASSUME SurfaceInv, NEW s \in McpServers, Surface!OtherProcess(s)
    PROVE  SurfaceInv'
<1>1. SurfaceTyped /\ RegistryOK(registry) /\ ConfigTyped
  BY DEF SurfaceInv, SurfaceTyped
<1>2. ConfigTyped' /\ \A x \in McpServers \ {s} : SurfaceOn(x)' <=> SurfaceOn(x)
  <2> DEFINE d == Surface!getServer(s)
             c == [d EXCEPT !.on = ~d.on, !.trust = "trusted"]
  <2>1. CASE configured' = Surface!Put(s, c)
    <3>1. d \in SurfaceConfigs
      BY <1>1, ConfigIs
    <3>2. c \in SurfaceConfigs
      <4> HIDE DEF d
      <4> QED
        BY <3>1 DEF SurfaceConfigs
    <3> HIDE DEF c
    <3> QED
      BY <1>1, <2>1, <3>2, PutIs
  <2>2. CASE configured' = Surface!Drop(s)
    BY <1>1, <2>2, DropIs
  <2> QED
    BY <2>1, <2>2 DEF Surface!OtherProcess
<1>3. UNCHANGED <<registry, entries, lists, cached, closing, running>>
      /\ overlaps \subseteq overlaps' /\ s \in overlaps'
  BY DEF Surface!OtherProcess, Surface!Overlap
<1>4. SurfaceTyped'
  BY <1>1, <1>2, <1>3 DEF SurfaceTyped
<1>5. Touches(s)
  BY <1>2, <1>3 DEF Touches
<1>6. SafeServer(s)'
  BY <1>3 DEF SafeServer
<1> QED
  BY <1>4, <1>5, <1>6, OthersSafe

\* disableServer(), removeServer(), updateServer() and retryServer() wait for a transport.
LEMMA DisconnectKeeps ==
    ASSUME SurfaceInv, NEW s \in McpServers,
           NEW op \in {"disable", "remove", "update", "retry"}, Surface!Disconnect(op, s)
    PROVE  SurfaceInv'
<1> DEFINE o == [op |-> op, s |-> s]
           d == [configured[s] EXCEPT !.on = FALSE]
           explicit == entries[s].explicit \/ entries[s] # Surface!Absent
           e == [entries[s] EXCEPT !.explicit = explicit]
<1>1. SurfaceTyped /\ RegistryOK(registry) /\ ConfigTyped /\ SafeServer(s)
  BY DEF SurfaceInv, SurfaceTyped
<1>2. /\ op \in {"disable", "update"} => s \in DOMAIN configured
      /\ configured' = IF op = "disable" THEN Surface!Put(s, d) ELSE configured
      /\ entries' = [entries EXCEPT ![s].explicit = explicit]
      /\ closing' = closing \cup {o}
      /\ UNCHANGED <<registry, lists, cached, running>> /\ running
      /\ overlaps \subseteq overlaps'
      /\ s \notin overlaps' => s \notin overlaps /\ ~Surface!Waiting(s) /\ ~Surface!Fetching(s)
  BY DEF Surface!Disconnect, Surface!CanEdit, Surface!Overlap, Surface!Local
<1>3. /\ ConfigTyped'
      /\ \A x \in McpServers \ {s} : SurfaceOn(x)' <=> SurfaceOn(x)
      /\ IF op = "disable" THEN ~SurfaceOn(s)' ELSE SurfaceOn(s)' <=> SurfaceOn(s)
  <2>1. CASE op = "disable"
    <3>1. d \in SurfaceConfigs /\ d.on = FALSE
      BY <1>1, <1>2, <2>1 DEF ConfigTyped, SurfaceConfigs
    <3> HIDE DEF d
    <3> QED
      BY <1>1, <1>2, <2>1, <3>1, PutIs
  <2>2. CASE op # "disable"
    BY <1>1, <1>2, <2>2 DEF ConfigTyped, SurfaceOn
  <2> QED
    BY <2>1, <2>2
<1>4. /\ e \in SurfaceEntries /\ e.tools = entries[s].tools
      /\ e.explicit = explicit /\ e.state = entries[s].state
  <2>1. entries[s] \in SurfaceEntries /\ explicit \in BOOLEAN
    BY <1>1 DEF SurfaceTyped, SurfaceEntries
  <2> HIDE DEF explicit
  <2> QED
    BY <2>1 DEF SurfaceEntries
<1>5. entries' = [entries EXCEPT ![s] = e]
  <2> HIDE DEF explicit
  <2> QED
    BY <1>1, <1>2 DEF SurfaceTyped
<1> HIDE DEF e
<1>6. /\ entries' \in [McpServers -> SurfaceEntries] /\ entries'[s] = e
      /\ \A x \in McpServers \ {s} : entries'[x] = entries[x]
  BY <1>1, <1>4, <1>5 DEF SurfaceTyped
<1>7. o \in Closings /\ o.s = s /\ o.op = op
  BY DEF Closings
<1>8. SurfaceTyped'
  <2> HIDE DEF o
  <2> QED
    BY <1>1, <1>2, <1>3, <1>4, <1>6, <1>7 DEF SurfaceTyped
<1>9. Touches(s)
  <2> HIDE DEF o
  <2> QED
    BY <1>2, <1>3, <1>6, <1>7 DEF Touches
<1>10. ~Linked(s)'
  <2>1. Surface!Absent.state = "absent"
    BY DEF Surface!Absent
  <2> QED
    BY <1>4, <1>6, <2>1 DEF Linked
<1>11. SafeServer(s)'
  <2> SUFFICES ASSUME s \notin overlaps' PROVE SafeServer(s)'
    BY DEF SafeServer
  <2>1. s \notin overlaps /\ ~Surface!Waiting(s) /\ ~Surface!Fetching(s)
    BY <1>2
  <2>2. \A q \in closing' : q.s = s => q = o
    BY <1>2, <2>1 DEF Surface!Waiting
  <2>3. ~Surface!Fetching(s)'
    BY <1>2, <2>1 DEF Surface!Fetching
  <2>4. ~PendingOff(s)
    <3>1. [op |-> "disable", s |-> s].s = s
      OBVIOUS
    <3> QED
      BY <2>1, <3>1 DEF PendingOff, Surface!Waiting
  <2>5. PendingOff(s)' <=> op = "disable"
    <3>1. [op |-> "disable", s |-> s].op = "disable" /\ [op |-> "disable", s |-> s].s = s
      OBVIOUS
    <3>2. op = "disable" => o \in closing'
      BY <1>2
    <3>3. PendingOff(s)' => [op |-> "disable", s |-> s] = o
      BY <2>2, <3>1 DEF PendingOff
    <3> QED
      BY <1>7, <3>1, <3>2, <3>3 DEF PendingOff
  <2>6. SurfaceOn(s)' => HasWay(registry', s)
    BY <1>1, <1>2, <1>3, <2>1 DEF SafeServer
  <2>7. ~SurfaceOn(s)' /\ ~PendingOff(s)' => Bare(registry', s)
    BY <1>1, <1>2, <1>3, <2>1, <2>4, <2>5 DEF SafeServer
  <2>8. PendingOff(s)' => ~SurfaceOn(s)'
    BY <1>3, <2>5
  <2> HIDE DEF o
  <2> QED
    BY <1>10, <2>2, <2>3, <2>6, <2>7, <2>8 DEF SafeServer
<1> QED
  BY <1>8, <1>9, <1>11, OthersSafe

\* Their transport is closed, and they go on.
LEMMA ClosedKeeps ==
    ASSUME SurfaceInv, NEW o \in closing, NEW patch \in SurfaceConfigs, Surface!Closed(o, patch)
    PROVE  SurfaceInv'
<1> DEFINE s == o.s
           becomes == IF entries[s] = Surface!Absent THEN entries[s].state ELSE "configured"
           e == [entries[s] EXCEPT !.state = becomes]
<1>1. SurfaceTyped /\ RegistryOK(registry) /\ ConfigTyped
  BY DEF SurfaceInv, SurfaceTyped
<1>2. o \in Closings /\ s \in McpServers
  BY <1>1 DEF SurfaceTyped, Closings
<1>3. SafeServer(s)
  BY <1>2 DEF SurfaceInv
<1>4. /\ closing' = closing \ {o}
      /\ UNCHANGED <<cached, running, overlaps, lists>> /\ running
  BY <1>1, <1>2 DEF Surface!Closed, SurfaceTyped, Closings
<1>5. \/ /\ o.op = "disable" /\ registry' = Surface!OthersOf(s) /\ UNCHANGED configured
      \/ /\ o.op = "remove" /\ configured' = Surface!Drop(s)
         /\ registry' = Surface!OthersOf(s)
            \/ (s \notin Surface!Listed /\ registry' = Surface!Disconnected(s))
      \/ /\ o.op = "update" /\ configured' = Surface!Put(s, patch)
         /\ registry' = Surface!ConnectOnly(s)
      \/ /\ o.op \in {"update", "retry"} /\ UNCHANGED configured
         /\ registry' = Surface!Disconnected(s)
  BY <1>2 DEF Surface!Closed, Closings
<1>6. /\ e \in SurfaceEntries /\ e.tools = entries[s].tools /\ e.state # "connected"
  <2>1. entries[s] \in SurfaceEntries /\ becomes \in {"absent", "configured"}
    BY <1>1, <1>2 DEF SurfaceTyped, SurfaceEntries, Surface!Absent
  <2> HIDE DEF becomes
  <2> QED
    BY <2>1 DEF SurfaceEntries
<1>7. entries' = [entries EXCEPT ![s] = e] \/ entries' = [entries EXCEPT ![s] = Surface!Entry("configured")]
  <2>1. [entries EXCEPT ![s].state = becomes] = [entries EXCEPT ![s] = e]
    <3> HIDE DEF becomes
    <3> QED
      BY <1>1, <1>2 DEF SurfaceTyped
  <2>2. \/ entries' = [entries EXCEPT ![s].state = becomes]
        \/ entries' = [[entries EXCEPT ![s].state = becomes] EXCEPT ![s] = Surface!Entry("configured")]
        \/ entries' = [[entries EXCEPT ![s].state = becomes]
                         EXCEPT ![s] = [entries EXCEPT ![s].state = becomes][s]]
    BY <1>2 DEF Surface!Closed, Closings
  <2> HIDE DEF e, becomes
  <2> QED
    BY <1>1, <1>2, <2>1, <2>2 DEF SurfaceTyped
<1>8. PICK h \in SurfaceEntries : /\ Offered(h.tools, s) /\ h.state # "connected"
                                  /\ entries' = [entries EXCEPT ![s] = h]
  <2>1. Offered(entries[s].tools, s)
    BY <1>1, <1>2 DEF SurfaceTyped
  <2>2. /\ Surface!Entry("configured") \in SurfaceEntries
        /\ Surface!Entry("configured").tools = {}
        /\ Surface!Entry("configured").state = "configured"
    BY DEF Surface!Entry, SurfaceEntries
  <2>3. Offered({}, s)
    BY FS_EmptySet DEF Offered
  <2> HIDE DEF e, s
  <2> QED
    BY <1>6, <1>7, <2>1, <2>2, <2>3
<1> HIDE DEF s, e
<1>9. /\ entries' \in [McpServers -> SurfaceEntries] /\ entries'[s] = h
      /\ \A x \in McpServers \ {s} : entries'[x] = entries[x]
  BY <1>1, <1>2, <1>8 DEF SurfaceTyped
<1>10. /\ ConfigTyped'
       /\ \A x \in McpServers \ {s} : SurfaceOn(x)' <=> SurfaceOn(x)
       /\ o.op = "remove" => ~SurfaceOn(s)'
       /\ o.op \in {"disable", "retry"} \/ UNCHANGED configured => (SurfaceOn(s)' <=> SurfaceOn(s))
  <2>1. CASE UNCHANGED configured /\ o.op # "remove"
    BY <1>1, <2>1 DEF ConfigTyped, SurfaceOn
  <2>2. CASE configured' = Surface!Drop(s) /\ o.op = "remove"
    <3>1. UNCHANGED configured => (SurfaceOn(s)' <=> SurfaceOn(s))
      BY DEF SurfaceOn
    <3> QED
      BY <1>1, <1>2, <2>2, <3>1, DropIs
  <2>3. CASE configured' = Surface!Put(s, patch) /\ o.op = "update"
    <3>1. UNCHANGED configured => (SurfaceOn(s)' <=> SurfaceOn(s))
      BY DEF SurfaceOn
    <3> QED
      BY <1>1, <1>2, <2>3, <3>1, PutIs
  <2> QED
    BY <1>5, <2>1, <2>2, <2>3
<1>11. /\ Replaces(registry, Surface!OthersOf(s), s) /\ Bare(Surface!OthersOf(s), s)
       /\ Replaces(registry, Surface!ConnectOnly(s), s)
       /\ HasWay(Surface!ConnectOnly(s), s) /\ Bare(Surface!ConnectOnly(s), s)
  BY <1>1, <1>2, OthersRemain, ConnectOnlyReplaces DEF Surface!OthersOf
<1>12. registry' = registry \/ Replaces(registry, registry', s)
  BY <1>5, <1>11 DEF Surface!Disconnected
<1>13. SurfaceTyped'
  BY <1>1, <1>2, <1>4, <1>8, <1>9, <1>10, <1>12 DEF SurfaceTyped, Replaces
<1>14. Touches(s)
  <2>1. o.s = s
    BY DEF s
  <2> QED
    BY <1>4, <1>9, <1>10, <1>12, <2>1 DEF Touches
<1>15. SafeServer(s)'
  <2> SUFFICES ASSUME s \notin overlaps PROVE SafeServer(s)'
    BY <1>4 DEF SafeServer
  <2>1. Surface!Waiting(s) /\ \A q \in closing : q.s = s => q = o
    BY <1>3 DEF Surface!Waiting, SafeServer, s
  <2>2. ~Surface!Waiting(s)' /\ ~Surface!Fetching(s)' /\ ~Linked(s)'
    BY <1>3, <1>4, <1>8, <1>9, <2>1 DEF Surface!Waiting, Surface!Fetching, Linked, SafeServer
  <2>3. PendingOff(s) <=> o.op = "disable"
    <3>1. [op |-> "disable", s |-> s].op = "disable" /\ [op |-> "disable", s |-> s].s = s
      OBVIOUS
    <3>2. o = [op |-> o.op, s |-> s]
      BY <1>2 DEF Closings, s
    <3> QED
      BY <2>1, <3>1, <3>2 DEF PendingOff
  <2>4. (SurfaceOn(s) => HasWay(registry, s)) /\ (~SurfaceOn(s) /\ ~PendingOff(s) => Bare(registry, s))
        /\ (PendingOff(s) => ~SurfaceOn(s))
    BY <1>3, <1>4 DEF SafeServer
  <2>5. (SurfaceOn(s)' => HasWay(registry', s)) /\ (~SurfaceOn(s)' => Bare(registry', s))
    <3>1. CASE o.op = "disable"
      BY <1>5, <1>10, <1>11, <2>3, <2>4, <3>1
    <3>2. CASE o.op = "remove"
      <4>1. s \notin Surface!Listed => ~SurfaceOn(s)
        BY DEF Surface!Listed, Surface!Local, SurfaceOn
      <4> QED
        BY <1>5, <1>10, <1>11, <2>3, <2>4, <3>2, <4>1 DEF Surface!Disconnected
    <3>3. CASE o.op \in {"update", "retry"}
      BY <1>5, <1>10, <1>11, <2>3, <2>4, <3>3 DEF Surface!Disconnected
    <3> QED
      BY <1>5, <3>1, <3>2, <3>3
  <2> QED
    BY <1>2, <2>2, <2>5, SafeIdle
<1> QED
  BY <1>2, <1>13, <1>14, <1>15, OthersSafe

\* #projectCachedTools(), for all servers that are on.
LEMMA ProjectCachedIs ==
    ASSUME SurfaceTyped, NEW reg, RegistryOK(reg), NEW new \in Surface!ProjectCached(reg)
    PROVE  /\ RegistryOK(new)
           /\ \A x \in McpServers :
                 /\ HasWay(reg, x) \/ SurfaceOn(x) => HasWay(new, x)
                 /\ Bare(reg, x) /\ ~SurfaceOn(x) => Bare(new, x)
<1> DEFINE on == {s \in Surface!Listed : Surface!Enabled(s)}
           n == Surface!Cardinality(on)
<1>1. \A x : x \in on <=> SurfaceOn(x)
  BY EnabledIsOn DEF Surface!Enabled
<1>2. on \in SUBSET McpServers
  BY <1>1 DEF SurfaceOn, SurfaceTyped, ConfigTyped
<1>3. n \in Nat
  <2>1. n = Cardinality(on)
    BY Zenon DEF Surface!Cardinality, Cardinality
  <2>2. IsFiniteSet(on)
    <3>1. IsFiniteSet(McpServers)
      BY ServicesAssumptions DEF ServicesAssumptions
    <3> HIDE DEF on
    <3> QED
      BY <1>2, <3>1, FS_Subset
  <2> HIDE DEF on, n
  <2> QED
    BY <2>1, <2>2, FS_CardinalityType
<1>4. PICK order \in [1..n -> on] : /\ \A s \in on : \E i \in 1..n : order[i] = s
                                    /\ new = Surface!ProjectAll(order, n, reg)
  BY DEF Surface!ProjectCached
<1>5. \A s \in McpServers : Offered(cached[s], s)
  BY DEF SurfaceTyped
<1> HIDE DEF on, n
<1>6. /\ RegistryOK(new)
      /\ \A x \in McpServers : /\ HasWay(reg, x) \/ x \in on => HasWay(new, x)
                               /\ Bare(reg, x) /\ x \notin on => Bare(new, x)
  BY <1>2, <1>3, <1>4, <1>5, ProjectAllIs
<1> QED
  BY <1>1, <1>6

\* An entry that takes the tools of the cache.
LEMMA WithCachedIs ==
    ASSUME SurfaceTyped, NEW es \in [McpServers -> SurfaceEntries],
           \A s \in McpServers : Offered(es[s].tools, s), NEW s \in McpServers
    PROVE  /\ Surface!WithCached(es)[s] \in SurfaceEntries
           /\ Offered(Surface!WithCached(es)[s].tools, s)
           /\ Surface!WithCached(es)[s].state \in {"configured", es[s].state}
           /\ Surface!WithCached(es)[s].state = es[s].state \/ es[s] = Surface!Absent
           /\ Surface!WithCached(es)[s].explicit \in {FALSE, es[s].explicit}
           /\ es[s].state = "connected" =>
                  Surface!WithCached(es)[s].explicit = es[s].explicit
<1> DEFINE g == IF es[s] = Surface!Absent THEN Surface!Entry("configured") ELSE es[s]
           w == Surface!WithCached(es)[s]
<1>1. w = [g EXCEPT !.tools = cached[s]] \/ w = es[s]
  BY DEF Surface!WithCached
<1>2. /\ g \in SurfaceEntries /\ g.state \in {"configured", es[s].state}
      /\ g.state = es[s].state \/ es[s] = Surface!Absent
      /\ g.explicit \in {FALSE, es[s].explicit}
      /\ es[s].state = "connected" => g.explicit = es[s].explicit
  <2>1. /\ Surface!Entry("configured") \in SurfaceEntries
        /\ Surface!Entry("configured").state = "configured"
        /\ Surface!Entry("configured").explicit = FALSE
        /\ Surface!Absent.state = "absent"
    BY DEF Surface!Entry, SurfaceEntries, Surface!Absent
  <2> QED
    BY <2>1
<1>3. Offered(cached[s], s) /\ cached[s] \in SUBSET SurfaceTools
  BY DEF SurfaceTyped
<1>4. es[s] \in SurfaceEntries /\ Offered(es[s].tools, s)
  OBVIOUS
<1>5. LET c == [g EXCEPT !.tools = cached[s]]
      IN  c \in SurfaceEntries /\ c.tools = cached[s] /\ c.state = g.state /\ c.explicit = g.explicit
  <2> HIDE DEF g
  <2> QED
    BY <1>2, <1>3 DEF SurfaceEntries
<1> HIDE DEF g
<1>6. /\ w \in SurfaceEntries /\ Offered(w.tools, s)
      /\ (w.state = g.state /\ w.explicit = g.explicit) \/ w = es[s]
  <2> HIDE DEF w
  <2> QED
    BY <1>1, <1>3, <1>4, <1>5
<1> HIDE DEF w
<1>7. /\ w.state \in {"configured", es[s].state} /\ w.explicit \in {FALSE, es[s].explicit}
      /\ w.state = es[s].state \/ es[s] = Surface!Absent
      /\ es[s].state = "connected" => w.explicit = es[s].explicit
  BY <1>2, <1>6
<1> QED
  BY <1>6, <1>7 DEF w

\* setProjectRoot(): whoever is on keeps its way in, whoever is off gets no tools.
LEMMA SetProjectRootKeeps ==
    ASSUME SurfaceInv, NEW p, Surface!SetProjectRoot(p) PROVE SurfaceInv'
<1>1. SurfaceTyped /\ RegistryOK(registry)
  BY DEF SurfaceInv, SurfaceTyped
<1>2. /\ registry' \in Surface!ProjectCached(registry) /\ entries' = Surface!WithCached(entries)
      /\ UNCHANGED <<configured, lists, cached, closing, running, overlaps>> /\ running
  BY DEF Surface!SetProjectRoot
<1>3. /\ RegistryOK(registry')
      /\ \A x \in McpServers : /\ HasWay(registry, x) \/ SurfaceOn(x) => HasWay(registry', x)
                               /\ Bare(registry, x) /\ ~SurfaceOn(x) => Bare(registry', x)
  BY <1>1, <1>2, ProjectCachedIs
<1>4. ASSUME NEW s \in McpServers
      PROVE  /\ entries'[s] \in SurfaceEntries /\ Offered(entries'[s].tools, s)
             /\ Linked(s)' => Linked(s)
  <2>1. /\ entries \in [McpServers -> SurfaceEntries]
        /\ \A x \in McpServers : Offered(entries[x].tools, x)
    BY <1>1 DEF SurfaceTyped
  <2>2. entries'[s] = Surface!WithCached(entries)[s]
    BY <1>2
  <2>3. /\ entries'[s] \in SurfaceEntries /\ Offered(entries'[s].tools, s)
        /\ entries'[s].state \in {"configured", entries[s].state}
        /\ entries[s].state = "connected" => entries'[s].explicit = entries[s].explicit
    BY <1>1, <2>1, <2>2, WithCachedIs
  <2> QED
    BY <2>3 DEF Linked
<1>5. entries' \in [McpServers -> SurfaceEntries]
  <2>1. entries' = [x \in McpServers |-> entries'[x]]
    BY <1>2 DEF Surface!WithCached
  <2> QED
    BY <1>4, <2>1
<1>6. SurfaceTyped'
  BY <1>1, <1>2, <1>3, <1>4, <1>5 DEF SurfaceTyped, ConfigTyped
<1>7. ASSUME NEW s \in McpServers PROVE SafeServer(s)'
  <2>1. SafeServer(s) /\ (Linked(s)' => Linked(s))
    BY <1>4 DEF SurfaceInv
  <2>2. /\ SurfaceOn(s)' <=> SurfaceOn(s)
        /\ Surface!Waiting(s)' <=> Surface!Waiting(s)
        /\ Surface!Fetching(s)' <=> Surface!Fetching(s)
        /\ PendingOff(s)' <=> PendingOff(s)
    BY <1>2 DEF SurfaceOn, Surface!Waiting, Surface!Fetching, PendingOff
  <2> QED
    BY <1>2, <1>3, <2>1, <2>2 DEF SafeServer
<1> QED
  BY <1>6, <1>7 DEF SurfaceInv

LEMMA StopStartKeep ==
    ASSUME SurfaceInv, Surface!Stop \/ Surface!Start PROVE SurfaceInv'
<1>1. SurfaceTyped /\ ConfigTyped
  BY DEF SurfaceInv, SurfaceTyped
<1>2. RegistryOK({}) /\ \A s : Offered({}, s) /\ Bare({}, s)
  BY FS_EmptySet DEF RegistryOK, Offered, Bare
<1>3. Surface!Absent \in SurfaceEntries /\ Surface!Absent.tools = {}
      /\ Surface!Absent.state = "absent"
  BY DEF Surface!Absent, SurfaceEntries
<1>4. CASE Surface!Stop
  <2>1. /\ UNCHANGED <<configured, cached>> /\ running' = FALSE
        /\ registry' = {} /\ lists' = {} /\ closing' = {}
        /\ entries' = [s \in McpServers |-> Surface!Absent]
    BY <1>4 DEF Surface!Stop
  <2>2. SurfaceTyped'
    BY <1>1, <1>2, <1>3, <2>1 DEF SurfaceTyped, ConfigTyped
  <2>3. ASSUME NEW s \in McpServers PROVE SafeServer(s)'
    BY <1>2, <1>3, <2>1 DEF SafeServer, Linked, PendingOff, Surface!Waiting, Surface!Fetching
  <2> QED
    BY <2>2, <2>3 DEF SurfaceInv
<1>5. CASE Surface!Start
  <2> DEFINE on == {s \in Surface!Listed : Surface!Enabled(s)}
             begun == {s \in on : Surface!getServer(s).mode # "lazy" /\ Surface!getServer(s).ready}
             fresh == [x \in McpServers |-> Surface!Entry("configured")]
             e(s) == [Surface!WithCached(fresh)[s]
                        EXCEPT !.state = IF s \in begun THEN "connecting" ELSE "configured"]
  <2>1. /\ UNCHANGED <<configured, cached, closing, overlaps>> /\ running' = TRUE /\ ~running
        /\ registry' \in Surface!ProjectCached({})
        /\ entries' = [s \in McpServers |-> IF s \notin on THEN Surface!Absent ELSE e(s)]
        /\ lists' = {[s |-> s, at |-> "handshake"] : s \in begun}
    BY <1>5 DEF Surface!Start
  <2>2. closing' = {}
    BY <1>1, <2>1 DEF SurfaceTyped
  <2>3. \A x : x \in on <=> SurfaceOn(x)
    BY EnabledIsOn DEF Surface!Enabled
  <2>4. begun \subseteq on /\ begun \subseteq McpServers
    BY <1>1, <2>3 DEF SurfaceOn, ConfigTyped
  <2> HIDE DEF on, begun
  <2>5. /\ RegistryOK(registry')
        /\ \A x \in McpServers : /\ SurfaceOn(x) => HasWay(registry', x)
                                 /\ ~SurfaceOn(x) => Bare(registry', x)
    BY <1>1, <1>2, <2>1, ProjectCachedIs
  <2>6. ASSUME NEW s \in McpServers
        PROVE  /\ entries'[s] \in SurfaceEntries /\ Offered(entries'[s].tools, s)
               /\ entries'[s].state # "connected"
    <3>1. CASE s \notin on
      BY <1>2, <1>3, <2>1, <3>1
    <3>2. CASE s \in on
      <4> DEFINE w == Surface!WithCached(fresh)[s]
                 becomes == IF s \in begun THEN "connecting" ELSE "configured"
      <4>1. /\ Surface!Entry("configured") \in SurfaceEntries
            /\ Surface!Entry("configured").tools = {}
        BY DEF Surface!Entry, SurfaceEntries
      <4>2. fresh \in [McpServers -> SurfaceEntries] /\ \A x \in McpServers : Offered(fresh[x].tools, x)
        BY <1>2, <4>1
      <4> HIDE DEF fresh
      <4>3. w \in SurfaceEntries /\ Offered(w.tools, s)
        BY <1>1, <4>2, WithCachedIs
      <4>4. entries'[s] = [w EXCEPT !.state = becomes]
        BY <2>1, <3>2
      <4>5. becomes \in {"connecting", "configured"}
        OBVIOUS
      <4> HIDE DEF w, becomes
      <4>6. entries'[s] \in SurfaceEntries /\ entries'[s].tools = w.tools /\ entries'[s].state = becomes
        BY <4>3, <4>4, <4>5 DEF SurfaceEntries
      <4> QED
        BY <4>3, <4>5, <4>6
    <3> QED
      BY <3>1, <3>2
  <2>7. /\ lists' \in SUBSET SurfaceLists
        /\ \A s : Surface!Fetching(s)' => SurfaceOn(s)
    BY <2>1, <2>3, <2>4 DEF SurfaceLists, Surface!Fetching
  <2>8. entries' \in [McpServers -> SurfaceEntries]
    <3>1. entries' = [s \in McpServers |-> entries'[s]]
      BY <2>1
    <3> QED
      BY <2>6, <3>1
  <2>9. SurfaceTyped'
    BY <1>1, <2>1, <2>2, <2>5, <2>6, <2>7, <2>8 DEF SurfaceTyped, ConfigTyped
  <2>10. ASSUME NEW s \in McpServers PROVE SafeServer(s)'
    <3>1. SurfaceOn(s)' <=> SurfaceOn(s)
      BY <2>1 DEF SurfaceOn
    <3>2. ~Surface!Waiting(s)' /\ ~PendingOff(s)'
      BY <2>2 DEF Surface!Waiting, PendingOff
    <3>3. ~Linked(s)'
      BY <2>6 DEF Linked
    <3> QED
      BY <2>2, <2>5, <2>7, <3>1, <3>2, <3>3 DEF SafeServer
  <2> QED
    BY <2>9, <2>10 DEF SurfaceInv
<1> QED
  BY <1>4, <1>5

LEMMA SurfaceNext == SurfaceInv /\ (Surface!Next \/ UNCHANGED SurfaceVars) => SurfaceInv'
<1> SUFFICES ASSUME SurfaceInv, Surface!Next \/ UNCHANGED SurfaceVars PROVE SurfaceInv'
  OBVIOUS
<1>1. CASE UNCHANGED SurfaceVars
  BY <1>1 DEF SurfaceVars, SurfaceInv, SurfaceTyped, ConfigTyped, SafeServer, SurfaceOn, Linked,
     PendingOff, Surface!Waiting, Surface!Fetching
<1>2. ASSUME NEW s \in McpServers, NEW op \in {"disable", "remove", "update", "retry"},
             Surface!Disconnect(op, s)
      PROVE  SurfaceInv'
  BY <1>2, DisconnectKeeps
<1>3. ASSUME NEW o \in closing, NEW on \in BOOLEAN, NEW ready \in BOOLEAN,
             Surface!Closed(o, Surface!Config(on, "trusted", "lazy", ready))
      PROVE  SurfaceInv'
  <2>1. Surface!Config(on, "trusted", "lazy", ready) \in SurfaceConfigs
    BY ConfigsAre
  <2> QED
    BY <1>3, <2>1, ClosedKeeps
<1>4. ASSUME NEW s \in McpServers, NEW c \in Surface!Catalog, Surface!AddServer(s, c)
      PROVE  SurfaceInv'
  BY <1>4, AddServerKeeps
<1>5. ASSUME NEW s \in McpServers, Surface!EnableServer(s) \/ Surface!OtherProcess(s)
      PROVE  SurfaceInv'
  BY <1>5, EnableServerKeeps, OtherProcessKeeps
<1>6. ASSUME NEW l \in lists, NEW offered \in ToolSets, Surface!ToolsListed(l, offered)
      PROVE  SurfaceInv'
  BY <1>6, ListsKeep
<1> QED
  BY <1>1, <1>2, <1>3, <1>4, <1>5, <1>6, UsesKeep, ListsKeep, ServerTellsKeeps,
     SetProjectRootKeeps, StopStartKeep DEF Surface!Next

\* runtime-manager.ts:1105-1108: whatever fails, closes, is listed anew or restarts, a
\* server that is on has its connect tool, and one that is off no tools, unless two
\* operations on it have overlapped: SurfaceIsUsable of McpSurface.
THEOREM SurfaceStaysUsable == ServicesSpec => []SurfaceIsUsable
<1>1. ServicesInit => SurfaceInv
  <2>1. ServicesInit => Surface!Init
    BY Zenon DEF ServicesInit
  <2> QED
    BY <2>1, SurfaceInit
<1>2. SurfaceInv /\ [ServicesNext]_vars => SurfaceInv'
  BY SurfaceNext, StoreSteps
<1>3. SurfaceInv => SurfaceIsUsable
  <2> SUFFICES ASSUME SurfaceInv PROVE SurfaceIsUsable
    OBVIOUS
  <2>1. Surface!WayIn
    <3> SUFFICES ASSUME NEW s \in McpServers, running, SurfaceOn(s), s \notin overlaps
                 PROVE  Surface!ConnectTools(s) # {}
      BY EnabledIsOn DEF Surface!WayIn
    <3>1. HasWay(registry, s)
      BY DEF SurfaceInv, SafeServer
    <3> QED
      BY <3>1 DEF HasWay, Surface!ConnectTools
  <2>2. Surface!NoGhosts
    <3> SUFFICES ASSUME NEW t \in registry, ~SurfaceOn(t.server), ~Surface!Waiting(t.server),
                        t.server \notin overlaps
                 PROVE  t.original = "connect"
      BY EnabledIsOn DEF Surface!NoGhosts
    <3> DEFINE s == t.server
    <3>1. s \in McpServers
      BY DEF SurfaceInv, SurfaceTyped, RegistryOK, SurfaceTools
    <3>2. ~PendingOff(s)
      <4>1. [op |-> "disable", s |-> s].s = s
        OBVIOUS
      <4> QED
        BY <4>1 DEF PendingOff, Surface!Waiting
    <3>3. Bare(registry, s)
      BY <3>1, <3>2 DEF SurfaceInv, SafeServer
    <3> QED
      BY <3>3 DEF Bare
  <2> QED
    BY <2>1, <2>2 DEF SurfaceIsUsable, Surface!SurfaceIsUsable
<1> QED
  BY <1>1, <1>2, <1>3, PTL DEF ServicesSpec

=============================================================================
