---------------------------- MODULE Services_proofs ----------------------------
(***************************************************************************)
(* Theorems about components of MCServices, for every value of the         *)
(* constants that MCServices declares for them.  Each component has its    *)
(* own part: the inductive invariant and what preserves it.  Steps says    *)
(* that the others leave its variables alone; the theorems are behind the  *)
(* parts they need.  What runs beside a turn (shell commands, subagents,   *)
(* commands to browsers) comes last.                                       *)
(***************************************************************************)
EXTENDS MCServices, FiniteSetTheorems, WellFoundedInduction, TLAPS

\* A step of the composition is a step of a component, or leaves its variables alone.
LEMMA Steps ==
    ASSUME [ServicesNext]_vars
    PROVE  /\ Permissions!Next \/ UNCHANGED PermissionsVars
           /\ Calls!Next \/ UNCHANGED CallsVars
           /\ FileTools!Next \/ UNCHANGED FileToolsVars
           /\ Trees!Next \/ UNCHANGED TreesVars
           /\ Evidence!Next \/ UNCHANGED EvidenceVars
           /\ Agents!Next \/ UNCHANGED AgentsVars
           /\ Bridge!Next \/ UNCHANGED BridgeVars
           /\ Web!Next \/ UNCHANGED WebVars
<1>1. CASE focus = "permissions" /\ Permissions!Next /\ OthersRest("permissions")
  BY <1>1 DEF OthersRest
<1>2. CASE focus = "mcp calls" /\ Calls!Next /\ OthersRest("mcp calls")
  BY <1>2 DEF OthersRest
<1>3. CASE focus = "files" /\ FileTools!Next /\ OthersRest("files")
  BY <1>3 DEF OthersRest
<1>4. CASE focus = "worktrees" /\ Trees!Next /\ OthersRest("worktrees")
  BY <1>4 DEF OthersRest
<1>5. CASE focus = "evidence" /\ Evidence!Next /\ OthersRest("evidence")
  BY <1>5 DEF OthersRest
<1>6. CASE focus = "subagents" /\ Agents!Next /\ OthersRest("subagents")
  BY <1>6 DEF OthersRest
<1>7. CASE focus = "webridge" /\ Bridge!Next /\ OthersRest("webridge")
  BY <1>7 DEF OthersRest
<1>8. CASE focus = "browser" /\ Web!Next /\ OthersRest("browser")
  BY <1>8 DEF OthersRest
<1>9. CASE \E f \in {"console", "android", "maintenance", "skills", "language servers",
                     "extensions", "model calls", "trigger clock", "memory store",
                     "mcp surface", "skill sources", "packages", "usage", "supervisor"} :
               OthersRest(f)
  BY <1>9 DEF OthersRest
<1>10. CASE UNCHANGED vars
  BY <1>10 DEF vars, services
<1> QED
  BY <1>1, <1>2, <1>3, <1>4, <1>5, <1>6, <1>7, <1>8, <1>9, <1>10 DEF ServicesNext

-----------------------------------------------------------------------------
(* PermissionBroker.                                                       *)

BrokerTyped ==
    /\ call \in [ToolCalls -> [input : UsedInputs \cup {"read"},
                               at : {"new", "asked", "ran", "refused"}, interactive : BOOLEAN]]
    /\ pending \in SUBSET ToolCalls
    /\ answers \in [ToolCalls -> Nat]

\* A call that waits has its request, which has no answer yet; no call has two.
OneAnswer ==
    \A c \in ToolCalls :
        /\ c \in pending <=> call[c].at = "asked"
        /\ call[c].at \in {"new", "asked"} => answers[c] = 0
        /\ answers[c] <= 1

\* Nothing is asked that a yes must not allow.
AskedMayRun ==
    \A c \in ToolCalls :
        call[c].at = "asked" => call[c].input # "destroy" /\ ToolRules[call[c].input] # "deny"

BrokerInv == BrokerTyped /\ OneAnswer /\ AskedMayRun

\* What a step does to each call.
BrokerStep(c) ==
    /\ answers[c]' <= 1
    /\ call[c].at \in {"ran", "refused"} => call'[c] = call[c]
    /\ call[c].at # "ran" /\ call'[c].at = "ran" =>
         /\ call'[c].input # "destroy" /\ ToolRules[call'[c].input] # "deny"
         /\ plan /\ call[c].at = "new" => call'[c].input \in {"read"}

LEMMA BrokerInit == Permissions!Init => BrokerInv
BY DEF Permissions!Init, BrokerInv, BrokerTyped, OneAnswer, AskedMayRun

\* authorize() asks and lets run only what is not forbidden.
LEMMA AuthorizeKeeps ==
    ASSUME BrokerInv, NEW c \in ToolCalls, NEW x \in UsedInputs, NEW i \in BOOLEAN,
           Permissions!Authorize(c, x, i)
    PROVE  BrokerInv' /\ \A k \in ToolCalls : BrokerStep(k)
<1> DEFINE at == IF Permissions!evaluate(x) = "ask" THEN IF i THEN "asked" ELSE "refused"
                 ELSE IF Permissions!evaluate(x) = "allow" THEN "ran" ELSE "refused"
<1>1. /\ call[c].at = "new" /\ c \notin pending /\ answers[c] = 0
      /\ call' = [call EXCEPT ![c] = [input |-> x, interactive |-> i, at |-> at]]
      /\ pending' = IF at = "asked" THEN pending \cup {c} ELSE pending
      /\ \/ at # "asked" /\ answers' = [answers EXCEPT ![c] = 1]
         \/ answers' = answers
  <2>1. call[c].at = "new" /\ c \notin pending /\ answers[c] = 0
    BY DEF Permissions!Authorize, BrokerInv, OneAnswer
  <2>2. call' = [call EXCEPT ![c] = [input |-> x, interactive |-> i, at |-> at]]
    BY DEF Permissions!Authorize
  <2>3. pending' = IF at = "asked" THEN pending \cup {c} ELSE pending
    BY DEF Permissions!Authorize
  <2>4. \/ at # "asked" /\ answers' = [answers EXCEPT ![c] = answers[c] + 1]
        \/ answers' = answers
    BY DEF Permissions!Authorize
  <2> HIDE DEF at
  <2> QED
    BY <2>1, <2>2, <2>3, <2>4
<1>2. /\ at \in {"asked", "ran", "refused"}
      /\ at \in {"asked", "ran"} => /\ x # "destroy" /\ ToolRules[x] # "deny"
                                    /\ plan => x \in {"read"}
  BY DEF Permissions!evaluate, Permissions!Forbidden, Permissions!ReadOnlyInPlanMode
<1> HIDE DEF at
<1>3. BrokerTyped'
  BY <1>1, <1>2 DEF BrokerInv, BrokerTyped
<1>4. /\ call'[c] = [input |-> x, interactive |-> i, at |-> at]
      /\ \A k \in ToolCalls \ {c} : call'[k] = call[k] /\ answers'[k] = answers[k]
      /\ answers'[c] \in {0, 1} /\ (at = "asked" => answers'[c] = 0)
  BY <1>1 DEF BrokerInv, BrokerTyped
<1>5. OneAnswer'
  BY <1>1, <1>2, <1>4 DEF BrokerInv, OneAnswer
<1>6. AskedMayRun'
  BY <1>2, <1>4 DEF BrokerInv, AskedMayRun
<1>7. ASSUME NEW k \in ToolCalls PROVE BrokerStep(k)
  BY <1>1, <1>2, <1>4 DEF BrokerInv, OneAnswer, BrokerStep
<1> QED
  BY <1>3, <1>5, <1>6, <1>7 DEF BrokerInv

\* Only requests that are pending are resolved, whoever resolves them.
LEMMA ResolveKeeps ==
    ASSUME BrokerInv, NEW cs \in SUBSET ToolCalls, NEW decision,
           Permissions!Resolve(cs, decision)
    PROVE  BrokerInv' /\ \A k \in ToolCalls : BrokerStep(k)
<1> DEFINE open == cs \cap pending
<1>1. PICK end \in {"ran", "refused"} :
          call' = [c \in ToolCalls |-> IF c \in open THEN [call[c] EXCEPT !.at = end] ELSE call[c]]
  BY DEF Permissions!Resolve
<1>2. /\ pending' = pending \ open
      /\ answers' = [c \in ToolCalls |-> IF c \in open THEN answers[c] + 1 ELSE answers[c]]
  BY DEF Permissions!Resolve
<1>3. \A c \in ToolCalls \ open : call'[c] = call[c] /\ answers'[c] = answers[c]
  BY <1>1, <1>2
<1>4. ASSUME NEW c \in open
      PROVE  /\ call[c].at = "asked" /\ answers[c] = 0 /\ answers'[c] = 1
             /\ call'[c].at = end /\ call'[c].input = call[c].input
             /\ call'[c] \in [input : UsedInputs \cup {"read"},
                              at : {"new", "asked", "ran", "refused"}, interactive : BOOLEAN]
  <2>1. call[c].at = "asked" /\ answers[c] = 0 /\ answers'[c] = 1
    BY <1>2 DEF BrokerInv, BrokerTyped, OneAnswer
  <2>2. call[c] \in [input : UsedInputs \cup {"read"},
                    at : {"new", "asked", "ran", "refused"}, interactive : BOOLEAN]
    BY DEF BrokerInv, BrokerTyped
  <2>3. call'[c] = [call[c] EXCEPT !.at = end]
    BY <1>1
  <2> QED
    BY <2>1, <2>2, <2>3
<1>9. open \in SUBSET ToolCalls /\ open \in SUBSET pending
  OBVIOUS
<1> HIDE DEF open
<1>5. BrokerTyped'
  <2>1. call' \in [ToolCalls -> [input : UsedInputs \cup {"read"},
                              at : {"new", "asked", "ran", "refused"}, interactive : BOOLEAN]]
    <3>1. \A c \in ToolCalls : call'[c] \in [input : UsedInputs \cup {"read"},
                              at : {"new", "asked", "ran", "refused"}, interactive : BOOLEAN]
      BY <1>3, <1>4, <1>9 DEF BrokerInv, BrokerTyped
    <3> QED
      BY <1>1, <3>1
  <2>2. pending' \in SUBSET ToolCalls /\ answers' \in [ToolCalls -> Nat]
    BY <1>2 DEF BrokerInv, BrokerTyped
  <2> QED
    BY <2>1, <2>2 DEF BrokerTyped
<1>6. OneAnswer'
  <2>1. \A c \in open : call'[c].at = end /\ c \notin pending' /\ answers'[c] = 1
    BY <1>2, <1>4
  <2>2. \A c \in ToolCalls \ open : c \in pending' <=> c \in pending
    BY <1>2
  <2> QED
    BY <1>3, <1>9, <2>1, <2>2 DEF BrokerInv, OneAnswer
<1>7. AskedMayRun'
  BY <1>3, <1>4, <1>9 DEF BrokerInv, AskedMayRun
<1>8. ASSUME NEW k \in ToolCalls PROVE BrokerStep(k)
  <2>1. CASE k \in open
    BY <1>4, <1>9, <2>1 DEF BrokerInv, AskedMayRun, BrokerStep
  <2>2. CASE k \notin open
    BY <1>3, <2>2 DEF BrokerInv, OneAnswer, BrokerStep
  <2> QED
    BY <2>1, <2>2
<1> QED
  BY <1>5, <1>6, <1>7, <1>8 DEF BrokerInv

\* Modes and grants are looked at when a call is authorized, not later.
LEMMA NothingResolved ==
    ASSUME BrokerInv, UNCHANGED <<call, pending, answers>>
    PROVE  BrokerInv' /\ \A k \in ToolCalls : BrokerStep(k)
BY DEF BrokerInv, BrokerTyped, OneAnswer, AskedMayRun, BrokerStep

LEMMA BrokerNext ==
    ASSUME BrokerInv, Permissions!Next \/ UNCHANGED PermissionsVars
    PROVE  BrokerInv' /\ \A k \in ToolCalls : BrokerStep(k)
<1>1. ASSUME NEW c \in ToolCalls, NEW x \in UsedInputs, NEW i \in BOOLEAN,
             Permissions!Authorize(c, x, i)
      PROVE  BrokerInv' /\ \A k \in ToolCalls : BrokerStep(k)
  BY <1>1, AuthorizeKeeps
<1>2. ASSUME NEW c \in ToolCalls, NEW d, Permissions!Respond(c, d)
      PROVE  BrokerInv' /\ \A k \in ToolCalls : BrokerStep(k)
  BY <1>2, ResolveKeeps DEF Permissions!Respond
<1>3. ASSUME NEW c \in ToolCalls, Permissions!TimesOut(c)
      PROVE  BrokerInv' /\ \A k \in ToolCalls : BrokerStep(k)
  BY <1>3, ResolveKeeps DEF Permissions!TimesOut
<1>4. ASSUME NEW cs \in SUBSET ToolCalls, Permissions!Abort(cs)
      PROVE  BrokerInv' /\ \A k \in ToolCalls : BrokerStep(k)
  BY <1>4, ResolveKeeps DEF Permissions!Abort
<1>5. ASSUME NEW on \in BOOLEAN, Permissions!SetFreeMode(on)
      PROVE  BrokerInv' /\ \A k \in ToolCalls : BrokerStep(k)
  <2>1. pending \in SUBSET ToolCalls
    BY DEF BrokerInv, BrokerTyped
  <2>2. Permissions!Resolve(pending, "allow_session") \/ UNCHANGED <<call, pending, answers>>
    BY <1>5 DEF Permissions!SetFreeMode
  <2> QED
    BY <2>1, <2>2, ResolveKeeps, NothingResolved
<1>6. ASSUME \/ \E on \in BOOLEAN : Permissions!SetPlanMode(on)
             \/ \E k, s : Permissions!CreateGrant(k, s)
             \/ \E g : Permissions!EndGrant(g)
             \/ UNCHANGED PermissionsVars
      PROVE  BrokerInv' /\ \A k \in ToolCalls : BrokerStep(k)
  <2>1. UNCHANGED <<call, pending, answers>>
    BY <1>6 DEF Permissions!SetPlanMode, Permissions!CreateGrant, Permissions!EndGrant,
                PermissionsVars
  <2> QED
    BY <2>1, NothingResolved
<1> QED
  BY <1>1, <1>2, <1>3, <1>4, <1>5, <1>6 DEF Permissions!Next

\* For any calls, rules and number of grants: however answers, timeouts, interrupts and
\* modes race, a request gets one answer and what its call did stays, and nothing that
\* the policy denies for good runs (ToolPolicyManager, PermissionBroker).
THEOREM RequestsAreResolvedOnce == ServicesSpec => PermissionsHold
<1>1. ServicesInit => BrokerInv
  BY BrokerInit DEF ServicesInit
<1>2. BrokerInv /\ [ServicesNext]_vars => BrokerInv'
  BY BrokerNext, Steps
<1> DEFINE Once == \A c \in ToolCalls :
                /\ answers'[c] <= 1
                /\ call[c].at \in {"ran", "refused"} => call'[c] = call[c]
           Denied == \A c \in ToolCalls : call[c].at # "ran" /\ call'[c].at = "ran" =>
                /\ call'[c].input # "destroy" /\ ToolRules[call'[c].input] # "deny"
                /\ plan /\ call[c].at = "new"
                       => call'[c].input \in Permissions!ReadOnlyInPlanMode
<1>3. BrokerInv /\ [ServicesNext]_vars => Once /\ Denied
  BY BrokerNext, Steps DEF BrokerStep, Permissions!ReadOnlyInPlanMode
<1> HIDE DEF Once, Denied
<1>4. BrokerInv /\ [ServicesNext]_vars => [Once]_(Permissions!vars) /\ [Denied]_(Permissions!vars)
  BY <1>3
<1>5. ServicesSpec => [][Once]_(Permissions!vars) /\ [][Denied]_(Permissions!vars)
  BY <1>1, <1>2, <1>4, PTL DEF ServicesSpec
<1> QED
  BY <1>5 DEF PermissionsHold, Permissions!ResolvedOnce, Permissions!HardDenied, Once, Denied

-----------------------------------------------------------------------------
(* McpCalls, for a server without parallel calls.                          *)

\* A call that has not ended is in the chain; the call that connects or runs is the first
\* of it, and the active one.
ChainInv ==
    /\ callAt \in [McpCallIds -> {"new", "queued", "connect", "running", "ok", "error"}]
    /\ callQueue \in Seq(McpCallIds)
    /\ \A k \in McpCallIds :
           /\ callAt[k] \in {"queued", "connect", "running"} =>
                  \E i \in DOMAIN callQueue : callQueue[i] = k
           /\ callAt[k] \in {"connect", "running"} => Head(callQueue) = k
    /\ \A k \in McpCallIds : callAt[k] = "running" => activeCall = k
    /\ activeCall # "none" => activeCall \in McpCallIds /\ callAt[activeCall] = "running"

\* The server works on what runs, and on what the client gave up on.
WorkInv ==
    /\ working \subseteq McpCallIds
    /\ \A k \in working : callAt[k] \in {"running", "error"}

AskedInv ==
    /\ elicited = [x \in McpCallIds |-> elicited[x]]
    /\ asker \in [McpCallIds -> McpCallIds \cup {"server"}]
    /\ Calls!AsksItsCaller

CallsInv == ChainInv /\ WorkInv /\ AskedInv

\* A call that failed stays so, and no question comes or goes.
NobodyAsks ==
    /\ UNCHANGED asker
    /\ elicited' = [x \in McpCallIds |-> elicited'[x]]
    /\ \A x \in McpCallIds : elicited'[x] # "none" => elicited[x] # "none"
    /\ \A k \in McpCallIds : callAt[k] = "error" => callAt'[k] = "error"

LEMMA AskedKeeps == ASSUME AskedInv, NobodyAsks PROVE AskedInv'
<1>1. \A x \in McpCallIds : elicited'[x] # "none" =>
          asker'[x] \in {x, "server"} \/ callAt'[asker'[x]] = "error"
  <2> SUFFICES ASSUME NEW x \in McpCallIds, elicited'[x] # "none", asker'[x] \notin {x, "server"}
               PROVE  callAt'[asker'[x]] = "error"
    OBVIOUS
  <2>1. asker[x] \in McpCallIds /\ asker'[x] = asker[x] /\ callAt[asker[x]] = "error"
    BY DEF AskedInv, NobodyAsks, Calls!AsksItsCaller, Calls!Itself
  <2> QED
    BY <2>1 DEF NobodyAsks
<1> QED
  BY <1>1 DEF AskedInv, NobodyAsks, Calls!AsksItsCaller, Calls!Itself

LEMMA CallsStart == Calls!Init => CallsInv
BY DEF Calls!Init, Calls!NoCall, Calls!Itself, CallsInv, ChainInv, WorkInv, AskedInv, Calls!AsksItsCaller

\* The first of a chain ends: nothing connects or runs any more.
LEMMA EndKeeps ==
    ASSUME ChainInv, NEW k \in McpCallIds, callAt[k] \in {"connect", "running"},
           NEW how \in {"ok", "error"}, Calls!End(k, how)
    PROVE  ChainInv'
<1>1. callAt' = [callAt EXCEPT ![k] = how] /\ callQueue' = Tail(callQueue) /\ activeCall' = "none"
  BY DEF Calls!End, Calls!NoCall
<1>2. \A x \in McpCallIds : callAt'[x] \notin {"connect", "running"}
  BY <1>1 DEF ChainInv
<1>3. callQueue # <<>> /\ callQueue \in Seq(McpCallIds) /\ callQueue[1] = k
  BY DEF ChainInv
<1>4. /\ callQueue' \in Seq(McpCallIds)
      /\ \A i \in DOMAIN callQueue : i # 1 => i - 1 \in DOMAIN callQueue'
                                               /\ callQueue'[i - 1] = callQueue[i]
  BY <1>1, <1>3
<1>5. \A x \in McpCallIds : callAt'[x] = "queued" =>
          \E i \in DOMAIN callQueue' : callQueue'[i] = x
  <2> SUFFICES ASSUME NEW x \in McpCallIds, callAt'[x] = "queued"
               PROVE  \E i \in DOMAIN callQueue' : callQueue'[i] = x
    OBVIOUS
  <2>1. x # k /\ callAt[x] = "queued"
    BY <1>1 DEF ChainInv
  <2>2. PICK i \in DOMAIN callQueue : callQueue[i] = x
    BY <2>1 DEF ChainInv
  <2> QED
    BY <1>3, <1>4, <2>1, <2>2
<1> QED
  BY <1>1, <1>2, <1>4, <1>5 DEF ChainInv

\* A call joins the chain, connects, and is sent when it is its turn.
LEMMA ChainMoves ==
    ASSUME ChainInv, NEW k \in McpCallIds
    PROVE  /\ Calls!CallTool(k) => ChainInv'
           /\ Calls!Run(k) => ChainInv'
           /\ Calls!EnsureConnected(k) => ChainInv'
           /\ Calls!ConnectEnds(k) => ChainInv'
           /\ Calls!CallEnds(k) => ChainInv'
<1>1. ASSUME Calls!CallTool(k) PROVE ChainInv'
  <2>1. callAt' = [callAt EXCEPT ![k] = "queued"] /\ callQueue' = Append(callQueue, k)
        /\ callAt[k] = "new" /\ UNCHANGED activeCall
    BY <1>1 DEF Calls!CallTool
  <2>2. /\ callQueue' \in Seq(McpCallIds)
        /\ \A i \in DOMAIN callQueue : i \in DOMAIN callQueue' /\ callQueue'[i] = callQueue[i]
        /\ \E i \in DOMAIN callQueue' : callQueue'[i] = k
    BY <2>1 DEF ChainInv
  <2>3. callQueue # <<>> => Head(callQueue') = Head(callQueue)
    BY <2>1 DEF ChainInv
  <2> QED
    BY <2>1, <2>2, <2>3 DEF ChainInv
<1>2. ASSUME Calls!Run(k) \/ Calls!EnsureConnected(k) PROVE ChainInv'
  <2>1. callAt[k] = "queued" /\ Head(callQueue) = k /\ callQueue' = callQueue
    BY <1>2 DEF Calls!Run, Calls!EnsureConnected, Calls!Turn
  <2>2. /\ \A x \in McpCallIds : callAt[x] \notin {"connect", "running"}
        /\ \E i \in DOMAIN callQueue : callQueue[i] = k
    BY <2>1 DEF ChainInv
  <2>3. \/ callAt' = [callAt EXCEPT ![k] = "running"] /\ activeCall' = k
        \/ callAt' = [callAt EXCEPT ![k] = "connect"] /\ UNCHANGED activeCall
    BY <1>2 DEF Calls!Run, Calls!EnsureConnected, Calls!Send
  <2> QED
    BY <2>1, <2>2, <2>3 DEF ChainInv
<1>3. ASSUME Calls!ConnectEnds(k) PROVE ChainInv'
  <2>1. CASE Calls!End(k, "error")
    BY <1>3, <2>1, EndKeeps DEF Calls!ConnectEnds
  <2>2. CASE Calls!Send(k) /\ UNCHANGED callQueue
    <3>1. callAt' = [callAt EXCEPT ![k] = "running"] /\ activeCall' = k /\ callAt[k] = "connect"
      BY <1>3, <2>2 DEF Calls!ConnectEnds, Calls!Send
    <3> QED
      BY <2>2, <3>1 DEF ChainInv
  <2> QED
    BY <1>3, <2>1, <2>2 DEF Calls!ConnectEnds
<1>4. ASSUME Calls!CallEnds(k) PROVE ChainInv'
  BY <1>4, EndKeeps DEF Calls!CallEnds
<1> QED
  BY <1>1, <1>2, <1>3, <1>4

\* What a call does to what the server works on.
LEMMA WorkMoves ==
    ASSUME CallsInv, NEW k \in McpCallIds,
           \/ Calls!CallTool(k) \/ Calls!Run(k) \/ Calls!EnsureConnected(k)
           \/ Calls!ConnectEnds(k) \/ Calls!CallEnds(k)
    PROVE  WorkInv' /\ NobodyAsks
<1>1. /\ callAt[k] \notin {"ok", "error"} /\ UNCHANGED <<elicited, asker>>
      /\ \E at \in {"queued", "connect", "running", "ok", "error"} :
             /\ callAt' = [callAt EXCEPT ![k] = at]
             /\ \/ at = "running" /\ working' = working \cup {k}
                \/ at = "error" /\ UNCHANGED working
                \/ at \in {"ok", "error"} /\ working' = working \ {k}
                \/ callAt[k] \in {"new", "queued"} /\ UNCHANGED working
  BY DEF Calls!CallTool, Calls!Run, Calls!EnsureConnected, Calls!ConnectEnds, Calls!CallEnds,
         Calls!Send, Calls!End
<1>2. WorkInv'
  BY <1>1 DEF CallsInv, ChainInv, WorkInv
<1>3. NobodyAsks
  BY <1>1 DEF CallsInv, ChainInv, AskedInv, NobodyAsks
<1> QED
  BY <1>2, <1>3

LEMMA CallsNext == ASSUME CallsInv, Calls!Next \/ UNCHANGED CallsVars PROVE CallsInv'
<1>1. ASSUME NEW k \in McpCallIds,
             \/ Calls!CallTool(k) \/ Calls!Run(k) \/ Calls!EnsureConnected(k)
             \/ Calls!ConnectEnds(k) \/ Calls!CallEnds(k)
      PROVE  CallsInv'
  <2>1. ChainInv'
    BY <1>1, ChainMoves DEF CallsInv
  <2>2. WorkInv' /\ NobodyAsks
    BY <1>1, WorkMoves
  <2> QED
    BY <2>1, <2>2, AskedKeeps DEF CallsInv
<1>2. ASSUME UNCHANGED <<callAt, callQueue, activeCall>>, working' \subseteq working, NobodyAsks
      PROVE  CallsInv'
  <2>1. ChainInv'
    BY <1>2 DEF CallsInv, ChainInv
  <2>2. WorkInv'
    BY <1>2 DEF CallsInv, WorkInv
  <2> QED
    BY <1>2, <2>1, <2>2, AskedKeeps DEF CallsInv
<1>3. UNCHANGED <<callAt, elicited, asker>> => NobodyAsks
  BY DEF CallsInv, AskedInv, NobodyAsks
<1>4. ASSUME NEW k \in McpCallIds, Calls!ServerEnds(k) PROVE CallsInv'
  BY <1>2, <1>3, <1>4 DEF Calls!ServerEnds
<1>5. ASSUME Calls!ConnectionChanges \/ UNCHANGED CallsVars PROVE CallsInv'
  BY <1>2, <1>3, <1>5 DEF Calls!ConnectionChanges, CallsVars
<1>6. ASSUME NEW k \in McpCallIds, Calls!ResolveElicitation(k) PROVE CallsInv'
  <2>1. elicited' = [elicited EXCEPT ![k] = "settled"] /\ elicited[k] = "pending"
        /\ UNCHANGED <<callAt, callQueue, activeCall, working, asker>>
    BY <1>6 DEF Calls!ResolveElicitation
  <2>2. NobodyAsks
    BY <2>1 DEF CallsInv, AskedInv, NobodyAsks
  <2> QED
    BY <1>2, <2>1, <2>2
<1>7. ASSUME Calls!Elicit PROVE CallsInv'
  <2> DEFINE x == activeCall
  <2>1. /\ x # "none" /\ elicited' = [elicited EXCEPT ![x] = "pending"]
        /\ UNCHANGED <<callAt, callQueue, activeCall, working>>
    BY <1>7 DEF Calls!Elicit, Calls!NoCall
  <2>2. PICK k \in working \cup {"server"} : asker' = [asker EXCEPT ![x] = k]
    BY <1>7 DEF Calls!Elicit, Calls!Itself
  <2>3. x \in McpCallIds /\ k \in McpCallIds \cup {"server"}
    BY <2>1 DEF CallsInv, ChainInv, WorkInv
  <2>4. k \in {x, "server"} \/ callAt[k] = "error"
    BY <2>2, <2>3 DEF CallsInv, ChainInv, WorkInv
  <2> HIDE DEF x
  <2>5. ChainInv' /\ WorkInv'
    BY <2>1 DEF CallsInv, ChainInv, WorkInv
  <2>6. /\ elicited' = [y \in McpCallIds |-> elicited'[y]]
        /\ asker' \in [McpCallIds -> McpCallIds \cup {"server"}]
        /\ asker'[x] = k
        /\ \A y \in McpCallIds \ {x} : elicited'[y] = elicited[y] /\ asker'[y] = asker[y]
    BY <2>1, <2>2, <2>3 DEF CallsInv, AskedInv
  <2>7. \A y \in McpCallIds : elicited'[y] # "none" =>
            asker'[y] \in {y, "server"} \/ callAt'[asker'[y]] = "error"
    BY <2>1, <2>4, <2>6 DEF CallsInv, AskedInv, Calls!AsksItsCaller, Calls!Itself
  <2> QED
    BY <2>5, <2>6, <2>7 DEF CallsInv, AskedInv, Calls!AsksItsCaller, Calls!Itself
<1> QED
  BY <1>1, <1>4, <1>5, <1>6, <1>7 DEF Calls!Next

\* For any calls: what a server without parallel calls asks for a call that the client
\* waits for or got the answer of reaches the user of that call, whatever other calls the
\* server still works on that the client gave up on (#enqueueServerCall, activeCall).
THEOREM QuestionsReachTheirCaller == ServicesSpec => []AsksItsCaller
<1>1. ServicesInit => CallsInv
  BY CallsStart DEF ServicesInit
<1>2. CallsInv /\ [ServicesNext]_vars => CallsInv'
  BY CallsNext, Steps
<1>3. CallsInv => AsksItsCaller
  BY DEF CallsInv, AskedInv, AsksItsCaller
<1> QED
  BY <1>1, <1>2, <1>3, PTL DEF ServicesSpec

-----------------------------------------------------------------------------
(* FileEdits.                                                              *)

\* What may be destroyed.
KnownText == learnt \cup LongTexts \cup {"absent", "empty"}

FileTyped ==
    /\ DOMAIN file = EditedFiles /\ file = [f \in EditedFiles |-> file[f]]
    /\ view = [f \in EditedFiles |-> [content |-> view[f].content,
                                      partial |-> view[f].partial, range |-> view[f].range]]
    /\ saved = [f \in EditedFiles |-> [before |-> saved[f].before, after |-> saved[f].after]]

\* What ReadFileState holds of a file that was read in full, and what a checkpoint holds,
\* is known.
ViewsAreKnown == \A f \in EditedFiles : view[f].partial \/ view[f].content \in KnownText
CheckpointsAreKnown ==
    \A f \in EditedFiles : saved[f].before \in KnownText /\ saved[f].after \in KnownText

FileInv == FileTyped /\ ViewsAreKnown /\ CheckpointsAreKnown

\* A tool destroys only what is known.
DestroysKnown == \A f \in EditedFiles : FileTools!Lost(f) \subseteq KnownText

LEMMA FileInit == FileTools!Init => FileInv
BY DEF FileTools!Init, FileInv, FileTyped, ViewsAreKnown, CheckpointsAreKnown, KnownText,
       FileTools!Unread, FileTools!NoCheckpoint, FileTools!Absent

\* A tool that may change a file destroys nothing that is not known.
LEMMA FreshlyReadIsKnown ==
    ASSUME FileInv, NEW f \in EditedFiles, FileTools!FreshlyRead(f)
    PROVE  file[f] \in KnownText
BY DEF FileInv, FileTyped, ViewsAreKnown, FileTools!FreshlyRead

LEMMA ReplaceKeeps ==
    ASSUME FileInv, NEW f \in EditedFiles, NEW c, file[f] \in KnownText, FileTools!Replace(f, c)
    PROVE  FileInv' /\ DestroysKnown
<1>1. /\ file' = [file EXCEPT ![f] = c]
      /\ view' = [view EXCEPT ![f] = [content |-> c, partial |-> FALSE, range |-> "none"]]
      /\ saved' = [saved EXCEPT ![f] = [before |-> file[f], after |-> c]]
      /\ learnt' = learnt \cup ({c} \ {"empty"})
  BY DEF FileTools!Replace, FileTools!Written, FileTools!Learn, FileTools!Empty
<1>2. FileTyped'
  BY <1>1 DEF FileInv, FileTyped
<1>3. c \in KnownText' /\ KnownText \subseteq KnownText'
  BY <1>1 DEF KnownText
<1>4. ViewsAreKnown'
  BY <1>1, <1>3 DEF FileInv, FileTyped, ViewsAreKnown
<1>5. CheckpointsAreKnown'
  BY <1>1, <1>3 DEF FileInv, FileTyped, CheckpointsAreKnown
<1>6. DestroysKnown
  BY <1>1 DEF FileInv, FileTyped, DestroysKnown, FileTools!Lost
<1> QED
  BY <1>2, <1>4, <1>5, <1>6 DEF FileInv

LEMMA GoBackKeeps ==
    ASSUME FileInv, NEW f \in EditedFiles, FileTools!GoBack(f)
    PROVE  FileInv' /\ (FileTools!Untouched(f) => DestroysKnown)
<1>1. /\ file' = [file EXCEPT ![f] = saved[f].before]
      /\ UNCHANGED <<saved, learnt>>
      /\ \/ view' = [view EXCEPT ![f] = [content |-> "absent", partial |-> TRUE, range |-> "none"]]
         \/ view' = [view EXCEPT ![f] = [content |-> saved[f].before, partial |-> FALSE,
                                         range |-> "none"]]
  BY DEF FileTools!GoBack, FileTools!Written, FileTools!Unread, FileTools!Absent
<1>2. FileTyped'
  <2>1. file' = [g \in EditedFiles |-> file'[g]] /\ DOMAIN file' = EditedFiles
    BY <1>1 DEF FileInv, FileTyped
  <2>2. \A g \in EditedFiles : view'[g] = [content |-> view'[g].content,
                                 partial |-> view'[g].partial, range |-> view'[g].range]
    <3>1. /\ \/ view'[f] = [content |-> "absent", partial |-> TRUE, range |-> "none"]
             \/ view'[f] = [content |-> saved[f].before, partial |-> FALSE, range |-> "none"]
          /\ \A g \in EditedFiles \ {f} : view'[g] = view[g]
      BY <1>1 DEF FileInv, FileTyped
    <3>2. \A g \in EditedFiles : view[g] = [content |-> view[g].content,
                                 partial |-> view[g].partial, range |-> view[g].range]
      BY Zenon DEF FileInv, FileTyped
    <3>3. view'[f] = [content |-> view'[f].content, partial |-> view'[f].partial,
                      range |-> view'[f].range]
      BY <3>1
    <3> QED
      BY <3>1, <3>2, <3>3
  <2>3. DOMAIN view' = EditedFiles /\ view' = [g \in EditedFiles |-> view'[g]]
    BY <1>1 DEF FileInv, FileTyped
  <2>4. saved' = [g \in EditedFiles |-> [before |-> saved'[g].before, after |-> saved'[g].after]]
    BY <1>1 DEF FileInv, FileTyped
  <2> QED
    BY <2>1, <2>2, <2>3, <2>4 DEF FileTyped
<1>3. KnownText' = KnownText
  BY <1>1 DEF KnownText
<1>6. CheckpointsAreKnown'
  BY <1>1, <1>3 DEF FileInv, CheckpointsAreKnown
<1>4. ViewsAreKnown'
  <2>1. saved[f].before \in KnownText
    BY DEF FileInv, CheckpointsAreKnown
  <2>2. /\ view'[f].partial \/ view'[f].content = saved[f].before
        /\ \A g \in EditedFiles \ {f} : view'[g] = view[g]
    BY <1>1 DEF FileInv, FileTyped
  <2> QED
    BY <1>3, <2>1, <2>2 DEF FileInv, ViewsAreKnown
<1>5. ASSUME FileTools!Untouched(f) PROVE DestroysKnown
  <2>1. file[f] \in KnownText
    BY <1>5 DEF FileTools!Untouched, FileTools!Exists, FileTools!Absent, FileInv,
                CheckpointsAreKnown, KnownText
  <2> QED
    BY <1>1, <2>1 DEF FileInv, FileTyped, DestroysKnown, FileTools!Lost
<1> QED
  BY <1>2, <1>4, <1>5, <1>6 DEF FileInv

LEMMA FileNext ==
    ASSUME FileInv, FileTools!Next \/ UNCHANGED FileToolsVars
    PROVE  FileInv' /\ (FileTools!ToolStep => DestroysKnown)
<1>1. ASSUME NEW f \in EditedFiles, NEW range \in {"all", "part"}, FileTools!ReadFile(f, range)
      PROVE  FileInv' /\ DestroysKnown
  <2>1. /\ view' = [view EXCEPT ![f] = [content |-> file[f], partial |-> range = "part",
                                        range |-> range]]
        /\ learnt' = IF range = "all" THEN learnt \cup ({file[f]} \ ({"empty"} \cup LongTexts)) ELSE learnt
        /\ UNCHANGED <<file, saved>>
    BY <1>1 DEF FileTools!ReadFile, FileTools!Learn, FileTools!Empty
  <2>2. KnownText \subseteq KnownText' /\ (range = "all" => file[f] \in KnownText')
    BY <2>1 DEF KnownText
  <2>3. FileTyped' /\ CheckpointsAreKnown'
    BY <2>1, <2>2 DEF FileInv, FileTyped, CheckpointsAreKnown
  <2>4. ViewsAreKnown'
    BY <2>1, <2>2 DEF FileInv, FileTyped, ViewsAreKnown
  <2>5. DestroysKnown
    BY <2>1 DEF DestroysKnown, FileTools!Lost
  <2> QED
    BY <2>3, <2>4, <2>5 DEF FileInv
<1>2. ASSUME NEW f \in EditedFiles,
             FileTools!WriteFile(f) \/ FileTools!EditFile(f) \/ FileTools!FillFile(f)
      PROVE  FileInv' /\ DestroysKnown
  <2>1. file[f] \in KnownText
    BY <1>2, FreshlyReadIsKnown DEF FileTools!WriteFile, FileTools!EditFile,
       FileTools!FillFile, FileTools!Exists, FileTools!Absent, FileTools!Empty, KnownText
  <2>2. \E c : FileTools!Replace(f, c)
    BY <1>2 DEF FileTools!WriteFile, FileTools!EditFile, FileTools!FillFile
  <2> QED
    BY <2>1, <2>2, ReplaceKeeps
<1>3. ASSUME NEW f \in EditedFiles, FileTools!DeleteFile(f)
      PROVE  FileInv' /\ DestroysKnown
  <2>1. file[f] \in KnownText
    BY <1>3, FreshlyReadIsKnown DEF FileTools!DeleteFile
  <2>2. /\ file' = [file EXCEPT ![f] = "absent"]
        /\ view' = [view EXCEPT ![f] = [content |-> "absent", partial |-> TRUE, range |-> "none"]]
        /\ saved' = [saved EXCEPT ![f] = [before |-> file[f], after |-> "empty"]]
        /\ learnt' = learnt
    BY <1>3 DEF FileTools!DeleteFile, FileTools!Unread, FileTools!Absent, FileTools!Empty
  <2>3. KnownText' = KnownText /\ "empty" \in KnownText
    BY <2>2 DEF KnownText
  <2>4. FileTyped'
    BY <2>2 DEF FileInv, FileTyped
  <2>5. ViewsAreKnown' /\ CheckpointsAreKnown'
    BY <2>1, <2>2, <2>3 DEF FileInv, FileTyped, ViewsAreKnown, CheckpointsAreKnown
  <2>6. DestroysKnown
    BY <2>1, <2>2 DEF FileInv, FileTyped, DestroysKnown, FileTools!Lost
  <2> QED
    BY <2>4, <2>5, <2>6 DEF FileInv
<1>4. ASSUME NEW f \in EditedFiles, NEW g \in EditedFiles, FileTools!MoveFile(f, g)
      PROVE  FileInv' /\ DestroysKnown
  <2>1. f # g /\ file[f] \in KnownText /\ file[g] \in KnownText
    BY <1>4, FreshlyReadIsKnown DEF FileTools!MoveFile, FileTools!Exists, FileTools!Absent,
       KnownText
  <2>2. /\ file' = [file EXCEPT ![f] = "absent", ![g] = file[f]]
        /\ view' = [view EXCEPT
                      ![f] = [content |-> "absent", partial |-> TRUE, range |-> "none"],
                      ![g] = [content |-> file[f], partial |-> FALSE, range |-> "none"]]
        /\ saved' = [saved EXCEPT ![f] = [before |-> file[f], after |-> "empty"],
                                  ![g] = [before |-> file[g], after |-> file[f]]]
        /\ learnt' = learnt
    BY <1>4 DEF FileTools!MoveFile, FileTools!Unread, FileTools!Written, FileTools!Absent,
       FileTools!Empty
  <2>3. KnownText' = KnownText /\ "empty" \in KnownText
    BY <2>2 DEF KnownText
  <2>4. FileTyped'
    BY <2>1, <2>2 DEF FileInv, FileTyped
  <2>5. ViewsAreKnown'
    BY <2>1, <2>2, <2>3 DEF FileInv, FileTyped, ViewsAreKnown
  <2>6. CheckpointsAreKnown'
    BY <2>1, <2>2, <2>3 DEF FileInv, FileTyped, CheckpointsAreKnown
  <2>7. DestroysKnown
    BY <2>1, <2>2 DEF FileInv, FileTyped, DestroysKnown, FileTools!Lost
  <2> QED
    BY <2>4, <2>5, <2>6, <2>7 DEF FileInv
<1>5. ASSUME NEW f \in EditedFiles, FileTools!RevertFile(f)
      PROVE  FileInv' /\ DestroysKnown
  BY <1>5, GoBackKeeps DEF FileTools!RevertFile
<1>6. FileTools!ToolStep => FileInv' /\ DestroysKnown
  BY <1>1, <1>2, <1>3, <1>4, <1>5 DEF FileTools!ToolStep
<1>7. ASSUME NEW f \in EditedFiles, FileTools!ForceRevert(f)
      PROVE  FileInv'
  BY <1>7, GoBackKeeps DEF FileTools!ForceRevert
<1>8. ASSUME NEW f \in EditedFiles, FileTools!ForeignChange(f)
      PROVE  FileInv'
  <2>1. PICK c, range : /\ file' = [file EXCEPT ![f] = c]
                        /\ view' = [view EXCEPT ![f].range = range]
    BY <1>8 DEF FileTools!ForeignChange
  <2>2. UNCHANGED <<saved, learnt>>
    BY <1>8 DEF FileTools!ForeignChange
  <2>3. /\ view'[f] = [content |-> view[f].content, partial |-> view[f].partial,
                       range |-> range]
        /\ \A g \in EditedFiles \ {f} : view'[g] = view[g]
        /\ DOMAIN view' = EditedFiles /\ view' = [g \in EditedFiles |-> view'[g]]
    BY <2>1 DEF FileInv, FileTyped
  <2>4. FileTyped'
    BY <2>1, <2>2, <2>3 DEF FileInv, FileTyped
  <2>5. ViewsAreKnown' /\ CheckpointsAreKnown'
    BY <2>2, <2>3 DEF FileInv, ViewsAreKnown, CheckpointsAreKnown, KnownText
  <2> QED
    BY <2>4, <2>5 DEF FileInv
<1>9. ASSUME FileTools!Forget PROVE FileInv'
  <2>1. PICK F : view' = [f \in EditedFiles |-> IF f \in F THEN FileTools!Unread ELSE view[f]]
    BY <1>9 DEF FileTools!Forget
  <2>2. UNCHANGED <<file, saved, learnt>>
    BY <1>9 DEF FileTools!Forget
  <2>3. FileTyped'
    BY <2>1, <2>2 DEF FileInv, FileTyped, FileTools!Unread
  <2>4. ViewsAreKnown' /\ CheckpointsAreKnown'
    BY <2>1, <2>2 DEF FileInv, ViewsAreKnown, CheckpointsAreKnown, KnownText, FileTools!Unread
  <2> QED
    BY <2>3, <2>4 DEF FileInv
<1>10. ASSUME UNCHANGED FileToolsVars PROVE FileInv' /\ DestroysKnown
  BY <1>10 DEF FileToolsVars, FileInv, FileTyped, ViewsAreKnown, CheckpointsAreKnown, KnownText,
               DestroysKnown, FileTools!Lost
<1> QED
  BY <1>6, <1>7, <1>8, <1>9, <1>10 DEF FileTools!Next

\* For any files, contents and number of changes by other programs: what a file tool
\* destroys its session has seen in full, has written, or it is of a long file
\* (ReadFileState, the checkpoints and revert_file_change).
THEOREM ToolsDestroyTheKnown == ServicesSpec => NothingUnreadIsLost
<1>1. ServicesInit => FileInv
  BY FileInit DEF ServicesInit
<1>2. FileInv /\ [ServicesNext]_vars => FileInv'
  BY FileNext, Steps
<1> DEFINE Destroys == (\A f \in EditedFiles :
                FileTools!Lost(f) \subseteq learnt \cup LongTexts \cup
                                            {FileTools!Absent, FileTools!Empty})
                \/ ~FileTools!ToolStep
<1>3. FileInv /\ [ServicesNext]_vars => Destroys \/ UNCHANGED FileToolsVars
  BY FileNext, Steps DEF DestroysKnown, KnownText, FileTools!Absent, FileTools!Empty
<1>4. UNCHANGED FileToolsVars => UNCHANGED FileTools!fileVars
  BY DEF FileToolsVars, FileTools!fileVars
<1> HIDE DEF Destroys
<1>5. FileInv /\ [ServicesNext]_vars => [Destroys]_(FileTools!fileVars)
  BY <1>3, <1>4
<1>6. ServicesSpec => [][Destroys]_(FileTools!fileVars)
  BY <1>1, <1>2, <1>5, PTL DEF ServicesSpec
<1> QED
  BY <1>6 DEF NothingUnreadIsLost, FileTools!NothingUnreadIsLost, Destroys

-----------------------------------------------------------------------------
(* Worktrees.                                                              *)

TreePaths == TreePlaces \cup {"main"}

\* A tree that is there is on a branch that is there, or its HEAD is detached.
TreesTyped ==
    /\ tree = [p \in TreePaths |->
                  [on |-> tree[p].on, head |-> tree[p].head, work |-> tree[p].work]]
    /\ \A p \in TreePaths :
           IF tree[p].on = "none" THEN tree[p].head = {} /\ tree[p].work = {}
           ELSE tree[p].on \in DOMAIN branches \cup {"detached"}
    /\ branches = [b \in DOMAIN branches |-> branches[b]] /\ "none" \notin DOMAIN branches

\* Every change that was made and not given up is somewhere, or a detached HEAD left it.
Committed(c) == \E b \in DOMAIN branches : c \in branches[b]
Somewhere(c) ==
    \/ Committed(c) \/ c \in given \cup left
    \/ \E p \in TreePaths : c \in tree[p].head \cup tree[p].work

TreesInv == TreesTyped /\ \A c \in made : Somewhere(c)

LEMMA TreesInit == Trees!Init => TreesInv
<1> SUFFICES ASSUME Trees!Init PROVE TreesInv
  OBVIOUS
<1>1. tree = [p \in TreePaths |-> IF p = "main" THEN [on |-> "main", head |-> {}, work |-> {}]
                                               ELSE [on |-> "none", head |-> {}, work |-> {}]]
  BY DEF Trees!Init, Trees!Paths, Trees!Gone, Trees!At, TreePaths
<1>2. branches = [b \in {"main"} |-> {}] /\ made = {}
  BY DEF Trees!Init
<1> QED
  BY <1>1, <1>2 DEF TreesInv, TreesTyped

\* A step gives the tree at one path another record.
Rewrites(p, on, head, content) ==
    /\ tree' = [q \in TreePaths |->
                   [on |-> tree'[q].on, head |-> tree'[q].head, work |-> tree'[q].work]]
    /\ \A q \in TreePaths \ {p} : tree'[q] = tree[q]
    /\ p \in TreePaths => /\ tree'[p].on = on /\ tree'[p].head = head /\ tree'[p].work = content

LEMMA TreeChanges ==
    ASSUME TreesTyped, NEW p, NEW on, NEW head, NEW content,
           LET t == tree[p]
           IN  \/ tree' = [tree EXCEPT ![p] = [on |-> on, head |-> head, work |-> content]]
               \/ /\ tree' = [tree EXCEPT ![p].work = content]
                  /\ p \in TreePaths => on = t.on /\ head = t.head
               \/ /\ tree' = [tree EXCEPT ![p].head = head]
                  /\ p \in TreePaths => on = t.on /\ content = t.work
               \/ /\ tree' = [tree EXCEPT ![p].head = head, ![p].work = content]
                  /\ p \in TreePaths => on = t.on
               \/ /\ tree' = [tree EXCEPT ![p].on = on, ![p].head = head]
                  /\ p \in TreePaths => content = t.work
    PROVE  Rewrites(p, on, head, content)
<1> DEFINE new == [on |-> on, head |-> head, work |-> content]
<1>1. DOMAIN tree = TreePaths /\ tree' = [q \in TreePaths |-> tree'[q]]
  BY DEF TreesTyped
<1>2. \A q \in TreePaths :
          tree[q] = [on |-> tree[q].on, head |-> tree[q].head, work |-> tree[q].work]
  BY DEF TreesTyped
<1>3. \A q \in TreePaths \ {p} : tree'[q] = tree[q]
  BY <1>1
<1>4. p \in TreePaths => tree'[p] = new
  <2> SUFFICES ASSUME p \in TreePaths PROVE tree'[p] = new
    OBVIOUS
  <2> DEFINE o == tree[p].on
             h == tree[p].head
             w == tree[p].work
             old == [on |-> o, head |-> h, work |-> w]
  <2>1. tree[p] = old
    BY <1>2
  <2>2. \/ tree'[p] = new
        \/ tree'[p] = [tree[p] EXCEPT !.work = content] /\ on = o /\ head = h
        \/ tree'[p] = [tree[p] EXCEPT !.head = head] /\ on = o /\ content = w
        \/ tree'[p] = [[tree[p] EXCEPT !.head = head] EXCEPT !.work = content] /\ on = o
        \/ tree'[p] = [[tree[p] EXCEPT !.on = on] EXCEPT !.head = head] /\ content = w
    BY <1>1
  <2> HIDE DEF o, h, w
  <2>3. /\ [old EXCEPT !.work = content] = [on |-> o, head |-> h, work |-> content]
        /\ [old EXCEPT !.head = head] = [on |-> o, head |-> head, work |-> w]
        /\ [old EXCEPT !.on = on] = [on |-> on, head |-> h, work |-> w]
    OBVIOUS
  <2>4. /\ [[on |-> o, head |-> head, work |-> w] EXCEPT !.work = content]
               = [on |-> o, head |-> head, work |-> content]
        /\ [[on |-> on, head |-> h, work |-> w] EXCEPT !.head = head]
               = [on |-> on, head |-> head, work |-> w]
    OBVIOUS
  <2> HIDE DEF old
  <2> QED
    BY <2>1, <2>2, <2>3, <2>4
<1>5. \A q \in TreePaths :
          tree'[q] = [on |-> tree'[q].on, head |-> tree'[q].head, work |-> tree'[q].work]
  BY <1>2, <1>3, <1>4
<1> QED
  BY <1>1, <1>3, <1>4, <1>5 DEF Rewrites

\* What stays there is rewritten to itself.
LEMMA SameTree ==
    ASSUME TreesTyped, tree' = tree
    PROVE  Rewrites("main", tree["main"].on, tree["main"].head, tree["main"].work)
BY DEF TreesTyped, Rewrites, TreePaths

\* Branches outlive their trees and only grow; what was in a tree stays there, is
\* committed, given up or left behind; what is new is in a tree.
LEMMA TreesKeep ==
    ASSUME TreesInv, NEW p, NEW on, NEW head, NEW content, Rewrites(p, on, head, content),
           branches' = [b \in DOMAIN branches' |-> branches'[b]],
           "none" \notin DOMAIN branches',
           \A b \in DOMAIN branches : b \in DOMAIN branches' /\ branches[b] \subseteq branches'[b],
           p \in TreePaths => IF on = "none" THEN head = {} /\ content = {}
                              ELSE on \in DOMAIN branches' \cup {"detached"},
           p \in TreePaths => \A c \in tree[p].head \cup tree[p].work :
               c \in head \cup content \/ Committed(c)' \/ c \in given' \cup left',
           given \subseteq given', left \subseteq left',
           \A c \in made' : c \in made \/ (p \in TreePaths /\ c \in content)
    PROVE  TreesInv'
<1>1. TreesTyped'
  BY DEF TreesInv, TreesTyped, Rewrites
<1>2. \A c : Committed(c) => Committed(c)'
  BY DEF Committed
<1>3. ASSUME NEW c \in made' PROVE Somewhere(c)'
  <2>1. CASE c \in made
    <3>1. CASE Committed(c) \/ c \in given \cup left
      BY <1>2, <3>1 DEF Somewhere
    <3>2. CASE \E q \in TreePaths : c \in tree[q].head \cup tree[q].work
      <4>1. PICK q \in TreePaths : c \in tree[q].head \cup tree[q].work
        BY <3>2
      <4>2. CASE q = p
        BY <4>1, <4>2 DEF Somewhere, Rewrites
      <4>3. CASE q # p
        BY <4>1, <4>3 DEF Somewhere, Rewrites
      <4> QED
        BY <4>2, <4>3
    <3> QED
      BY <2>1, <3>1, <3>2 DEF TreesInv, Somewhere
  <2>2. CASE p \in TreePaths /\ c \in content
    BY <2>2 DEF Somewhere, Rewrites
  <2> QED
    BY <2>1, <2>2
<1> QED
  BY <1>1, <1>3 DEF TreesInv

\* The steps that leave branches alone.
LEMMA BranchesStay ==
    ASSUME TreesInv, UNCHANGED branches
    PROVE  /\ branches' = [b \in DOMAIN branches' |-> branches'[b]]
           /\ "none" \notin DOMAIN branches'
           /\ \A b \in DOMAIN branches :
                  b \in DOMAIN branches' /\ branches[b] \subseteq branches'[b]
BY DEF TreesInv, TreesTyped

\* A branch that gets more.
LEMMA BranchGrows ==
    ASSUME TreesInv, NEW b, NEW more, branches' = [branches EXCEPT ![b] = branches[b] \cup more]
    PROVE  /\ branches' = [x \in DOMAIN branches' |-> branches'[x]]
           /\ "none" \notin DOMAIN branches' /\ DOMAIN branches' = DOMAIN branches
           /\ \A x \in DOMAIN branches :
                  x \in DOMAIN branches' /\ branches[x] \subseteq branches'[x]
           /\ b \in DOMAIN branches => more \subseteq branches'[b]
BY DEF TreesInv, TreesTyped

LEMMA EnterKeeps ==
    ASSUME TreesInv, NEW s \in TreeSessions, NEW p \in TreePlaces, NEW r,
           Trees!EnterWorktree(s, p, r)
    PROVE  TreesInv'
<1>1. UNCHANGED <<made, given, left>> /\ p \in TreePaths /\ p # "none"
  BY ServicesAssumptions DEF Trees!EnterWorktree, TreePaths
<1>2. /\ tree' = [tree EXCEPT ![p] = [on |-> p, head |-> {}, work |-> {}]]
      /\ tree[p].work = {} /\ tree[p].head = {}
  BY <1>1 DEF Trees!EnterWorktree, Trees!There, Trees!At, TreesInv, TreesTyped
<1>3. /\ p \in DOMAIN branches' /\ branches' = [b \in DOMAIN branches' |-> branches'[b]]
      /\ \A b \in DOMAIN branches : b \in DOMAIN branches' /\ branches'[b] = branches[b]
      /\ "none" \notin DOMAIN branches'
  BY <1>1 DEF Trees!EnterWorktree, TreesInv, TreesTyped
<1>4. Rewrites(p, p, {}, {})
  BY <1>2, TreeChanges DEF TreesInv
<1> QED
  BY <1>1, <1>2, <1>3, <1>4, TreesKeep

LEMMA EditKeeps ==
    ASSUME TreesInv, NEW p \in TreePaths, Trees!Edit(p)
    PROVE  TreesInv'
<1>1. PICK c : made' = made \cup {c} /\ tree' = [tree EXCEPT ![p].work = tree[p].work \cup {c}]
  BY DEF Trees!Edit
<1>2. UNCHANGED <<branches, given, left>> /\ tree[p].on # "none"
  BY DEF Trees!Edit, Trees!There
<1>3. Rewrites(p, tree[p].on, tree[p].head, tree[p].work \cup {c})
  BY <1>1, TreeChanges DEF TreesInv
<1>4. tree[p].on \in DOMAIN branches' \cup {"detached"}
  BY <1>2 DEF TreesInv, TreesTyped
<1> QED
  BY <1>1, <1>2, <1>3, <1>4, BranchesStay, TreesKeep

LEMMA CommitKeeps ==
    ASSUME TreesInv, NEW s \in TreeSessions, Trees!CommitWorktree(s)
    PROVE  TreesInv'
<1> DEFINE p == treeTool[s].path
           b == tree[p].on
<1>1. UNCHANGED <<made, given, left>>
  BY DEF Trees!CommitWorktree
<1>2. CASE UNCHANGED <<tree, branches>>
  BY <1>1, <1>2 DEF TreesInv, TreesTyped, Somewhere, Committed
<1>3. CASE /\ b # "none" /\ b # "detached"
           /\ branches' = [branches EXCEPT ![b] = branches[b] \cup tree[p].work]
           /\ tree' = [tree EXCEPT ![p].work = {}]
  <2>1. Rewrites(p, b, tree[p].head, {})
    BY <1>3, TreeChanges DEF TreesInv
  <2>2. p \in TreePaths => b \in DOMAIN branches
    BY <1>3 DEF TreesInv, TreesTyped
  <2> HIDE DEF p, b
  <2>3. /\ branches' = [x \in DOMAIN branches' |-> branches'[x]]
        /\ "none" \notin DOMAIN branches' /\ DOMAIN branches' = DOMAIN branches
        /\ \A x \in DOMAIN branches :
               x \in DOMAIN branches' /\ branches[x] \subseteq branches'[x]
        /\ b \in DOMAIN branches => tree[p].work \subseteq branches'[b]
    BY <1>3, BranchGrows
  <2>4. p \in TreePaths => \A c \in tree[p].head \cup tree[p].work :
            c \in tree[p].head \/ Committed(c)'
    BY <2>2, <2>3 DEF Committed
  <2> QED
    BY <1>1, <1>3, <2>1, <2>2, <2>3, <2>4, TreesKeep
<1>4. CASE /\ b = "detached" /\ UNCHANGED branches
           /\ tree' = [tree EXCEPT ![p].head = tree[p].head \cup tree[p].work, ![p].work = {}]
  <2>1. Rewrites(p, b, tree[p].head \cup tree[p].work, {})
    BY <1>4, TreeChanges DEF TreesInv
  <2> HIDE DEF p, b
  <2> QED
    BY <1>1, <1>4, <2>1, BranchesStay, TreesKeep
<1>5. tree' = [tree EXCEPT ![p].head = @ \cup tree[p].work, ![p].work = {}] =>
          tree' = [tree EXCEPT ![p].head = tree[p].head \cup tree[p].work, ![p].work = {}]
  OBVIOUS
<1> QED
  BY <1>2, <1>3, <1>4, <1>5 DEF Trees!CommitWorktree, Trees!There, Trees!Detached

\* A tree is removed when it is clean, or the user gives its changes up.
LEMMA RemoveKeeps ==
    ASSUME TreesInv, NEW p,
           \/ UNCHANGED <<tree, left>>
           \/ /\ tree' = [tree EXCEPT ![p] = [on |-> "none", head |-> {}, work |-> {}]]
              /\ tree[p].work \subseteq given' /\ Trees!LeavesHead(p, {}),
           given \subseteq given', UNCHANGED <<made, branches>>
    PROVE  TreesInv'
<1>1. CASE UNCHANGED <<tree, left>>
  BY <1>1 DEF TreesInv, TreesTyped, Somewhere, Committed
<1>2. CASE ~UNCHANGED <<tree, left>>
  <2>1. Rewrites(p, "none", {}, {})
    BY <1>2, TreeChanges DEF TreesInv
  <2>2. left \subseteq left' /\ \A c \in tree[p].head : Committed(c)' \/ c \in left'
    BY <1>2 DEF Trees!LeavesHead, Trees!Committed, Committed
  <2> QED
    BY <1>2, <2>1, <2>2, BranchesStay, TreesKeep
<1> QED
  BY <1>1, <1>2

LEMMA ExitKeeps ==
    ASSUME TreesInv, NEW s \in TreeSessions, Trees!ExitWorktree(s) \/ Trees!MergeRemove(s)
    PROVE  TreesInv'
<1> DEFINE p == treeTool[s].path
<1>1. /\ UNCHANGED <<made, branches>> /\ given \subseteq given'
      /\ \/ UNCHANGED <<tree, left>>
         \/ /\ tree' = [tree EXCEPT ![p] = [on |-> "none", head |-> {}, work |-> {}]]
            /\ tree[p].work \subseteq given' /\ Trees!LeavesHead(p, {})
  BY DEF Trees!ExitWorktree, Trees!MergeRemove, Trees!Remove, Trees!Clean, Trees!Gone, Trees!At
<1> HIDE DEF p
<1> QED
  BY <1>1, RemoveKeeps

LEMMA CheckoutKeeps ==
    ASSUME TreesInv, NEW s \in TreeSessions, Trees!MergeCheckout(s)
    PROVE  TreesInv'
<1> DEFINE q == treeTool[s].into
<1>1. UNCHANGED <<made, given, branches>>
  BY DEF Trees!MergeCheckout
<1>2. CASE UNCHANGED <<tree, left>>
  BY <1>1, <1>2 DEF TreesInv, TreesTyped, Somewhere, Committed
<1>3. ASSUME NEW on \in DOMAIN branches \cup {"detached"}, NEW head, Trees!HeadMoves(q, on, head)
      PROVE  TreesInv'
  <2>1. Rewrites(q, on, head, tree[q].work)
    BY <1>3, TreeChanges DEF Trees!HeadMoves, TreesInv
  <2>2. on # "none"
    BY DEF TreesInv, TreesTyped
  <2>3. /\ left \subseteq left'
        /\ \A c \in tree[q].head : c \in head \/ Committed(c)' \/ c \in left'
    BY <1>1, <1>3 DEF Trees!HeadMoves, Trees!LeavesHead, Trees!Committed, Committed
  <2> HIDE DEF q
  <2> QED
    BY <1>1, <2>1, <2>2, <2>3, BranchesStay, TreesKeep
<1>4. \/ \E on \in DOMAIN branches \cup {"detached"} : \E head : Trees!HeadMoves(q, on, head)
      \/ UNCHANGED <<tree, left>>
  BY DEF Trees!MergeCheckout, Trees!Detached
<1> QED
  BY <1>2, <1>3, <1>4

LEMMA MergeKeeps ==
    ASSUME TreesInv, NEW s \in TreeSessions, Trees!MergeBranch(s)
    PROVE  TreesInv'
<1> DEFINE t == treeTool[s]
           b == tree[t.into].on
           into == t.into
<1>1. UNCHANGED <<made, given, left>>
  BY DEF Trees!MergeBranch
<1>2. CASE UNCHANGED <<tree, branches>>
  BY <1>1, <1>2 DEF TreesInv, TreesTyped, Somewhere, Committed
<1>3. CASE branches' = [branches EXCEPT ![b] = branches[b] \cup branches[t.from]]
           /\ UNCHANGED tree
  <2>1. Rewrites("main", tree["main"].on, tree["main"].head, tree["main"].work)
    BY <1>3, SameTree DEF TreesInv
  <2>2. "main" \in TreePaths =>
            IF tree["main"].on = "none" THEN tree["main"].head = {} /\ tree["main"].work = {}
            ELSE tree["main"].on \in DOMAIN branches \cup {"detached"}
    BY DEF TreesInv, TreesTyped
  <2> DEFINE more == branches[t.from]
  <2>3. branches' = [branches EXCEPT ![b] = branches[b] \cup more]
    BY <1>3
  <2> HIDE DEF t, b, more
  <2>4. /\ branches' = [x \in DOMAIN branches' |-> branches'[x]]
        /\ "none" \notin DOMAIN branches' /\ DOMAIN branches' = DOMAIN branches
        /\ \A x \in DOMAIN branches :
               x \in DOMAIN branches' /\ branches[x] \subseteq branches'[x]
    BY <2>3, BranchGrows
  <2> QED
    BY <1>1, <2>1, <2>2, <2>4, TreesKeep
<1>4. CASE /\ tree[into].on # "none" /\ UNCHANGED branches
           /\ \E x : \/ tree' = [tree EXCEPT ![into].work = tree[into].work \cup x]
                     \/ tree' = [tree EXCEPT ![into].head = tree[into].head \cup x]
  <2>1. PICK x : \/ tree' = [tree EXCEPT ![into].work = tree[into].work \cup x]
                 \/ tree' = [tree EXCEPT ![into].head = tree[into].head \cup x]
    BY <1>4
  <2>2. into \in TreePaths => tree[into].on \in DOMAIN branches' \cup {"detached"}
    BY <1>4 DEF TreesInv, TreesTyped
  <2> DEFINE o == tree[into].on
             h == tree[into].head
             w == tree[into].work
  <2>3. TreesTyped
    BY DEF TreesInv
  <2> HIDE DEF into, t, b
  <2>4. Rewrites(into, o, h, w \cup x) \/ Rewrites(into, o, h \cup x, w)
    BY <2>1, <2>3, TreeChanges
  <2>5. CASE Rewrites(into, o, h, w \cup x)
    BY <1>1, <1>4, <2>2, <2>5, BranchesStay, TreesKeep
  <2>6. CASE Rewrites(into, o, h \cup x, w)
    BY <1>1, <1>4, <2>2, <2>6, BranchesStay, TreesKeep
  <2> QED
    BY <2>4, <2>5, <2>6
<1> QED
  BY <1>2, <1>3, <1>4 DEF Trees!MergeBranch, Trees!There

LEMMA TreesNext ==
    ASSUME TreesInv, Trees!Next \/ UNCHANGED TreesVars
    PROVE  TreesInv'
<1>1. ASSUME UNCHANGED <<tree, branches, made, given, left>> PROVE TreesInv'
  BY <1>1 DEF TreesInv, TreesTyped, Somewhere, Committed
<1>2. ASSUME NEW s \in TreeSessions,
             \/ Trees!MergeTarget(s) \/ Trees!ToolAborted(s)
             \/ \E p, q, discard : Trees!CommitCall(s, p) \/ Trees!ExitCall(s, p, discard)
                                   \/ Trees!MergeCall(s, p, q)
      PROVE  TreesInv'
  BY <1>1, <1>2 DEF Trees!MergeTarget, Trees!ToolAborted,
     Trees!CommitCall, Trees!ExitCall, Trees!MergeCall
<1>3. UNCHANGED TreesVars => TreesInv'
  BY <1>1 DEF TreesVars
<1> QED
  BY <1>2, <1>3, EnterKeeps, EditKeeps, CommitKeeps, ExitKeeps, CheckoutKeeps, MergeKeeps
     DEF Trees!Next, Trees!Paths, TreePaths

\* For any sessions, paths and number of changes: however the tools of several sessions,
\* aborts, checkouts of tags and edits interleave between two git commands, a change is in
\* some tree or on some branch, unless the user has agreed to its loss or it was committed
\* on a detached HEAD that was left behind (the worktree tools).
THEOREM WorkIsSomewhere == ServicesSpec => []NoWorkIsLost
<1>1. ServicesInit => TreesInv
  BY TreesInit DEF ServicesInit
<1>2. TreesInv /\ [ServicesNext]_vars => TreesInv'
  BY TreesNext, Steps
<1>3. TreesInv => NoWorkIsLost
  BY DEF TreesInv, Somewhere, Committed, NoWorkIsLost, Trees!NoWorkIsLost, Trees!Kept,
     Trees!Committed, Trees!Paths, TreePaths
<1> QED
  BY <1>1, <1>2, <1>3, PTL DEF ServicesSpec

-----------------------------------------------------------------------------
(* WorkspaceEvidence.                                                      *)

Shells == [call : {"none", "waiting", "answered"},
           proc : {"none", "alive", "dying", "gone", "orphan"},
           by : {"bash", "verify"}, turn : BOOLEAN, late : BOOLEAN, before : BOOLEAN,
           look : BOOLEAN, fresh : BOOLEAN]
TaskStates == {"none", "running", "completed", "failed", "killed"}

ShellTyped ==
    /\ shell \in [ShellCommands -> Shells]
    /\ shellTask \in [ShellCommands -> TaskStates]
    /\ told \in [ShellCommands -> TaskStates]
    /\ dirty \in BOOLEAN

\* What the thread was told of a command is what its task in memory has become, as long
\* as there is one; a task that is not over is heard; a call that waits has no task.
ToldInv(c) ==
    /\ shellTask[c] # "none" => told[c] = shellTask[c]
    /\ told[c] = "running" => shellTask[c] = "running" /\ shell[c].proc \in {"alive", "dying"}
    /\ shell[c].call = "waiting" \/ shell[c].proc = "none" => told[c] = "none"
    /\ shell[c].proc # "none" => shell[c].call # "none"
    /\ shell[c].proc = "orphan" \/ (shell[c].proc = "gone" /\ ~shell[c].look) =>
           shell[c].call = "answered"

EvidenceInv == ShellTyped /\ \A c \in ShellCommands : ToldInv(c)

StaysOver == \A c \in ShellCommands :
    told[c] \in {"completed", "failed", "killed"} => told'[c] \in {"completed", "failed", "killed"}

LEMMA EvidenceInit == Evidence!Init => EvidenceInv
BY DEF Evidence!Init, Evidence!NotStarted, EvidenceInv, ShellTyped, ToldInv, Shells, TaskStates

\* What one step does to one command keeps the others.
LEMMA OneCommand ==
    ASSUME EvidenceInv, NEW c \in ShellCommands, NEW new \in Shells,
           NEW task \in TaskStates, NEW status \in TaskStates,
           shell' = [shell EXCEPT ![c] = new],
           shellTask' = [shellTask EXCEPT ![c] = task],
           told' = [told EXCEPT ![c] = status],
           dirty' \in BOOLEAN,
           told[c] \in {"completed", "failed", "killed"} =>
               status \in {"completed", "failed", "killed"},
           task # "none" => status = task,
           status = "running" => task = "running" /\ new.proc \in {"alive", "dying"},
           new.call = "waiting" \/ new.proc = "none" => status = "none",
           new.proc # "none" => new.call # "none",
           new.proc = "orphan" \/ (new.proc = "gone" /\ ~new.look) => new.call = "answered"
    PROVE  EvidenceInv' /\ StaysOver
<1>1. ShellTyped'
  BY DEF EvidenceInv, ShellTyped
<1>2. /\ shell'[c] = new /\ shellTask'[c] = task /\ told'[c] = status
      /\ \A x \in ShellCommands \ {c} :
             shell'[x] = shell[x] /\ shellTask'[x] = shellTask[x] /\ told'[x] = told[x]
  BY DEF EvidenceInv, ShellTyped
<1>3. ASSUME NEW x \in ShellCommands PROVE ToldInv(x)'
  <2>1. CASE x = c
    BY <1>2, <2>1 DEF ToldInv
  <2>2. CASE x # c
    BY <1>2, <2>2 DEF EvidenceInv, ToldInv
  <2> QED
    BY <2>1, <2>2
<1>4. StaysOver
  BY <1>2 DEF StaysOver
<1> QED
  BY <1>1, <1>3, <1>4 DEF EvidenceInv

LEMMA ShellFields ==
    ASSUME EvidenceInv, NEW c \in ShellCommands
    PROVE  /\ shell[c] \in Shells /\ shellTask[c] \in TaskStates /\ told[c] \in TaskStates
           /\ dirty \in BOOLEAN /\ ToldInv(c)
           /\ shellTask = [shellTask EXCEPT ![c] = shellTask[c]]
           /\ told = [told EXCEPT ![c] = told[c]]
BY DEF EvidenceInv, ShellTyped

LEMMA EvidenceSteps ==
    ASSUME EvidenceInv, NEW c \in ShellCommands
    PROVE  /\ \A b \in BOOLEAN : Evidence!Start(c, b) => EvidenceInv' /\ StaysOver
           /\ \A exit \in {"ok", "bad", "term"} : Evidence!Exit(c, exit) => EvidenceInv' /\ StaysOver
           /\ Evidence!VerifyWorkspace(c) => EvidenceInv' /\ StaysOver
           /\ Evidence!MoveToBackground(c) => EvidenceInv' /\ StaysOver
           /\ Evidence!TimesOut(c) => EvidenceInv' /\ StaysOver
           /\ Evidence!ShellChanges(c) => EvidenceInv' /\ StaysOver
           /\ Evidence!TaskKill(c) => EvidenceInv' /\ StaysOver
           /\ Evidence!Stalled(c) => EvidenceInv' /\ StaysOver
<1>1. /\ shell[c] \in Shells /\ shellTask[c] \in TaskStates /\ told[c] \in TaskStates
      /\ dirty \in BOOLEAN /\ ToldInv(c)
      /\ shellTask = [shellTask EXCEPT ![c] = shellTask[c]]
      /\ told = [told EXCEPT ![c] = told[c]]
  BY ShellFields
<1>10. Evidence!NotStarted \in Shells /\ Evidence!NotStarted.look = FALSE
  BY DEF Evidence!NotStarted, Shells
<1>2. ASSUME NEW b \in BOOLEAN, Evidence!Start(c, b) PROVE EvidenceInv' /\ StaysOver
  <2> DEFINE new == [Evidence!NotStarted EXCEPT
                         !.call = IF b THEN "answered" ELSE "waiting", !.proc = "alive",
                         !.turn = TRUE, !.before = dirty, !.fresh = TRUE]
  <2>1. shell' = [shell EXCEPT ![c] = new] /\ UNCHANGED dirty
    BY <1>2 DEF Evidence!Start
  <2>2. /\ told[c] = "none" /\ shell[c].proc = "none"
        /\ IF b THEN /\ shellTask' = [shellTask EXCEPT ![c] = "running"]
                     /\ told' = [told EXCEPT ![c] = "running"]
                ELSE shellTask' = [shellTask EXCEPT ![c] = "none"]
                     /\ told' = [told EXCEPT ![c] = "none"]
    BY <1>1, <1>2 DEF Evidence!Start, ToldInv, TaskStates
  <2>3. /\ new \in Shells /\ new.proc = "alive"
        /\ new.call = IF b THEN "answered" ELSE "waiting"
    BY <1>1, <1>10 DEF Shells
  <2> HIDE DEF new
  <2> QED
    BY <1>1, <2>1, <2>2, <2>3, OneCommand DEF TaskStates
<1>3. ASSUME NEW exit \in {"ok", "bad", "term"}, Evidence!Exit(c, exit)
      PROVE  EvidenceInv' /\ StaysOver
  <2> DEFINE new == [shell[c] EXCEPT !.proc = "gone", !.look = TRUE,
                         !.call = IF shell[c].by = "verify" THEN shell[c].call ELSE "answered"]
  <2>1. shell' = [shell EXCEPT ![c] = new] /\ UNCHANGED dirty
    BY <1>3 DEF Evidence!Exit
  <2>2. new \in Shells /\ new.proc = "gone" /\ new.look = TRUE
        /\ new.call \in {"answered", shell[c].call}
    BY <1>1 DEF Shells
  <2>3. shell[c].proc \in {"alive", "dying"} /\ shell[c].call # "none"
    BY <1>1, <1>3 DEF Evidence!Exit, Evidence!Listens, ToldInv
  <2>4. IF shellTask[c] # "none"
        THEN \E s \in {"completed", "failed", "killed"} :
                 /\ shellTask' = [shellTask EXCEPT ![c] = s]
                 /\ told' = [told EXCEPT ![c] = s]
        ELSE UNCHANGED <<shellTask, told>>
    BY <1>3 DEF Evidence!Exit, Evidence!Ended
  <2> HIDE DEF new
  <2>5. CASE shellTask[c] # "none"
    <3>1. PICK s \in {"completed", "failed", "killed"} :
                 /\ shellTask' = [shellTask EXCEPT ![c] = s]
                 /\ told' = [told EXCEPT ![c] = s]
      BY <2>4, <2>5
    <3>2. new.call # "waiting"
      BY <1>1, <2>2, <2>5 DEF ToldInv
    <3> QED
      BY <1>1, <2>1, <2>2, <2>3, <3>1, <3>2, OneCommand DEF TaskStates
  <2>6. CASE shellTask[c] = "none"
    <3>1. told[c] # "running" /\ (new.call = "waiting" => told[c] = "none")
      BY <1>1, <2>2, <2>6 DEF ToldInv
    <3>2. shellTask' = [shellTask EXCEPT ![c] = "none"] /\ told' = [told EXCEPT ![c] = told[c]]
      BY <1>1, <2>4, <2>6
    <3> QED
      BY <1>1, <2>1, <2>2, <2>3, <3>1, <3>2, OneCommand DEF TaskStates
  <2> QED
    BY <2>5, <2>6
<1>4. ASSUME Evidence!VerifyWorkspace(c) PROVE EvidenceInv' /\ StaysOver
  <2> DEFINE new == [Evidence!NotStarted EXCEPT
                         !.call = "waiting", !.proc = "alive", !.by = "verify",
                         !.turn = TRUE, !.before = dirty, !.fresh = TRUE]
  <2>1. shell' = [shell EXCEPT ![c] = new] /\ UNCHANGED <<dirty, shellTask, told>>
    BY <1>4 DEF Evidence!VerifyWorkspace
  <2>2. told[c] = "none" /\ shellTask[c] = "none"
    BY <1>1, <1>4 DEF Evidence!VerifyWorkspace, ToldInv
  <2>3. new \in Shells /\ new.proc = "alive" /\ new.call = "waiting"
    BY <1>1, <1>10 DEF Shells
  <2> HIDE DEF new
  <2> QED
    BY <1>1, <2>1, <2>2, <2>3, OneCommand DEF TaskStates
<1>5. ASSUME Evidence!MoveToBackground(c) PROVE EvidenceInv' /\ StaysOver
  <2> DEFINE new == [shell[c] EXCEPT !.call = "answered"]
  <2>1. shell' = [shell EXCEPT ![c] = new] /\ UNCHANGED dirty
        /\ shellTask' = [shellTask EXCEPT ![c] = "running"]
        /\ told' = [told EXCEPT ![c] = "running"]
    BY <1>5 DEF Evidence!MoveToBackground
  <2>2. new \in Shells /\ new.proc = shell[c].proc /\ new.call = "answered"
    BY <1>1 DEF Shells
  <2>3. told[c] = "none" /\ shell[c].proc \in {"alive", "dying"}
    BY <1>1, <1>5 DEF Evidence!MoveToBackground, Evidence!Listens, ToldInv
  <2> HIDE DEF new
  <2> QED
    BY <1>1, <2>1, <2>2, <2>3, OneCommand DEF TaskStates
<1>6. ASSUME Evidence!TimesOut(c) PROVE EvidenceInv' /\ StaysOver
  <2> DEFINE new == [shell[c] EXCEPT !.late = TRUE, !.proc = "dying"]
  <2>1. shell' = [shell EXCEPT ![c] = new] /\ UNCHANGED <<dirty, shellTask, told>>
    BY <1>6 DEF Evidence!TimesOut
  <2>2. new \in Shells /\ new.proc = "dying" /\ new.call = shell[c].call
    BY <1>1 DEF Shells
  <2>3. shell[c].proc \in {"alive", "dying"}
    BY <1>6 DEF Evidence!TimesOut, Evidence!Listens
  <2> HIDE DEF new
  <2> QED
    BY <1>1, <2>1, <2>2, <2>3, OneCommand DEF ToldInv
<1>7. ASSUME Evidence!ShellChanges(c) PROVE EvidenceInv' /\ StaysOver
  <2> DEFINE new == [shell[c] EXCEPT !.look = FALSE, !.call = "answered"]
  <2>1. shell' = [shell EXCEPT ![c] = new] /\ UNCHANGED <<dirty, shellTask, told>>
    BY <1>7 DEF Evidence!ShellChanges
  <2>2. new \in Shells /\ new.proc = shell[c].proc /\ new.call = "answered"
    BY <1>1 DEF Shells
  <2> HIDE DEF new
  <2> QED
    BY <1>1, <2>1, <2>2, OneCommand DEF ToldInv
<1>8. ASSUME Evidence!TaskKill(c) PROVE EvidenceInv' /\ StaysOver
  <2> DEFINE new == [shell[c] EXCEPT !.proc = "dying"]
  <2>1. shell' = [shell EXCEPT ![c] = new] /\ UNCHANGED dirty
        /\ shellTask' = [shellTask EXCEPT ![c] = "killed"]
        /\ told' = [told EXCEPT ![c] = "killed"]
    BY <1>8 DEF Evidence!TaskKill
  <2>2. new \in Shells /\ new.proc = "dying" /\ new.call = shell[c].call
    BY <1>1 DEF Shells
  <2>3. told[c] = "running" /\ shell[c].call # "none" /\ shell[c].call # "waiting"
    BY <1>1, <1>8 DEF Evidence!TaskKill, Evidence!Listens, ToldInv
  <2> HIDE DEF new
  <2> QED
    BY <1>1, <2>1, <2>2, <2>3, OneCommand DEF TaskStates
<1>9. ASSUME Evidence!Stalled(c) PROVE EvidenceInv' /\ StaysOver
  <2>1. told' = [told EXCEPT ![c] = "running"] /\ told[c] = "running"
    BY <1>1, <1>9 DEF Evidence!Stalled, ToldInv
  <2>2. UNCHANGED <<shell, shellTask, dirty, told>>
    BY <1>1, <1>9, <2>1 DEF Evidence!Stalled
  <2> QED
    BY <2>2 DEF EvidenceInv, ShellTyped, ToldInv, StaysOver
<1> QED
  BY <1>2, <1>3, <1>4, <1>5, <1>6, <1>7, <1>8, <1>9

\* The steps that change every command: each command keeps its part of the invariant.
LEMMA EachCommand ==
    ASSUME EvidenceInv, dirty' \in BOOLEAN,
           shell' = [c \in ShellCommands |-> shell'[c]],
           shellTask' = [c \in ShellCommands |-> shellTask'[c]],
           told' = [c \in ShellCommands |-> told'[c]],
           \A c \in ShellCommands :
               /\ shell'[c] \in Shells /\ shellTask'[c] \in TaskStates /\ told'[c] \in TaskStates
               /\ ToldInv(c)'
               /\ told[c] \in {"completed", "failed", "killed"} =>
                      told'[c] \in {"completed", "failed", "killed"}
    PROVE  EvidenceInv' /\ StaysOver
BY DEF EvidenceInv, ShellTyped, StaysOver

LEMMA EvidenceNext ==
    ASSUME EvidenceInv, Evidence!Next \/ UNCHANGED EvidenceVars
    PROVE  EvidenceInv' /\ StaysOver
<1>1. ASSUME Evidence!Abort PROVE EvidenceInv' /\ StaysOver
  <2> DEFINE hit(c) == shell[c].proc \in {"alive", "dying"} /\ shell[c].turn
             tasks == {c \in ShellCommands : hit(c) /\ shellTask[c] # "none"}
  <2>1. /\ shell' = [c \in ShellCommands |->
                IF hit(c) THEN [shell[c] EXCEPT !.proc = "dying", !.call = "answered",
                                                !.turn = FALSE] ELSE shell[c]]
        /\ shellTask' = [c \in ShellCommands |-> IF c \in tasks THEN "failed" ELSE shellTask[c]]
        /\ told' = [c \in ShellCommands |-> IF c \in tasks THEN "failed" ELSE told[c]]
        /\ UNCHANGED dirty
    BY <1>1 DEF Evidence!Abort, Evidence!Aborts, Evidence!Listens
  <2>2. ASSUME NEW c \in ShellCommands
        PROVE  /\ shell'[c] \in Shells /\ shellTask'[c] \in TaskStates /\ told'[c] \in TaskStates
               /\ ToldInv(c)'
               /\ told[c] \in {"completed", "failed", "killed"} =>
                      told'[c] \in {"completed", "failed", "killed"}
    <3>1. /\ shell[c] \in Shells /\ shellTask[c] \in TaskStates /\ told[c] \in TaskStates
          /\ ToldInv(c)
      BY ShellFields
    <3>2. CASE hit(c)
      <4>1. shell'[c] = [shell[c] EXCEPT !.proc = "dying", !.call = "answered", !.turn = FALSE]
        BY <2>1, <3>2
      <4>2. shell'[c] \in Shells /\ shell'[c].proc = "dying" /\ shell'[c].call = "answered"
        BY <3>1, <4>1 DEF Shells
      <4>3. \/ shellTask[c] # "none" /\ shellTask'[c] = "failed" /\ told'[c] = "failed"
            \/ shellTask[c] = "none" /\ shellTask'[c] = "none" /\ told'[c] = told[c]
        BY <2>1, <3>2
      <4> QED
        BY <3>1, <4>2, <4>3 DEF ToldInv, TaskStates
    <3>3. CASE ~hit(c)
      <4>1. shell'[c] = shell[c] /\ shellTask'[c] = shellTask[c] /\ told'[c] = told[c]
        BY <2>1, <3>3
      <4> QED
        BY <3>1, <4>1 DEF ToldInv
    <3> QED
      BY <3>2, <3>3
  <2>3. dirty' \in BOOLEAN
    BY <2>1 DEF EvidenceInv, ShellTyped
  <2>4. /\ shell' = [c \in ShellCommands |-> shell'[c]]
        /\ shellTask' = [c \in ShellCommands |-> shellTask'[c]]
        /\ told' = [c \in ShellCommands |-> told'[c]]
    BY <2>1
  <2> QED
    BY <2>2, <2>3, <2>4, EachCommand
<1>2. ASSUME Evidence!TurnEnds \/ Evidence!Edit \/ \E c : Evidence!Write(c)
      PROVE  EvidenceInv' /\ StaysOver
  <2>1. /\ \/ shell' = [c \in ShellCommands |-> [shell[c] EXCEPT !.turn = FALSE]]
           \/ shell' = [c \in ShellCommands |-> [shell[c] EXCEPT !.fresh = FALSE]]
        /\ UNCHANGED <<shellTask, told>> /\ dirty' \in {TRUE, dirty}
    BY <1>2 DEF Evidence!TurnEnds, Evidence!Edit, Evidence!Write, Evidence!FilesChange
  <2>2. ASSUME NEW c \in ShellCommands
        PROVE  /\ shell'[c] \in Shells /\ shell'[c].proc = shell[c].proc
               /\ shell'[c].call = shell[c].call /\ shell'[c].look = shell[c].look
    <3>1. shell[c] \in Shells
      BY ShellFields
    <3>2. shell'[c] = [shell[c] EXCEPT !.turn = FALSE] \/ shell'[c] = [shell[c] EXCEPT !.fresh = FALSE]
      BY <2>1
    <3> QED
      BY <3>1, <3>2 DEF Shells
  <2>3. shell' = [c \in ShellCommands |-> shell'[c]]
    BY <2>1
  <2> QED
    BY <2>1, <2>2, <2>3 DEF EvidenceInv, ShellTyped, ToldInv, StaysOver
<1>3. ASSUME Evidence!Restart PROVE EvidenceInv' /\ StaysOver
  <2>1. /\ shell' = [c \in ShellCommands |->
               [shell[c] EXCEPT !.turn = FALSE, !.look = FALSE,
                    !.proc = IF shell[c].proc \in {"alive", "dying"} THEN "orphan"
                             ELSE shell[c].proc,
                    !.call = IF shell[c].call = "waiting" THEN "answered" ELSE shell[c].call]]
        /\ shellTask' = [c \in ShellCommands |-> "none"]
        /\ told' = [c \in ShellCommands |-> IF told[c] = "running" THEN "failed" ELSE told[c]]
        /\ UNCHANGED dirty
    BY <1>3 DEF Evidence!Restart, Evidence!Listens
  <2>2. ASSUME NEW c \in ShellCommands
        PROVE  /\ shell'[c] \in Shells /\ shellTask'[c] \in TaskStates /\ told'[c] \in TaskStates
               /\ ToldInv(c)'
               /\ told[c] \in {"completed", "failed", "killed"} =>
                      told'[c] \in {"completed", "failed", "killed"}
    <3>1. /\ shell[c] \in Shells /\ told[c] \in TaskStates /\ ToldInv(c)
      BY ShellFields
    <3>2. shell'[c] = [shell[c] EXCEPT !.turn = FALSE, !.look = FALSE,
                    !.proc = IF shell[c].proc \in {"alive", "dying"} THEN "orphan"
                             ELSE shell[c].proc,
                    !.call = IF shell[c].call = "waiting" THEN "answered" ELSE shell[c].call]
      BY <2>1
    <3>3. /\ shell'[c] \in Shells
          /\ shell'[c].proc = IF shell[c].proc \in {"alive", "dying"} THEN "orphan"
                              ELSE shell[c].proc
          /\ shell'[c].call = IF shell[c].call = "waiting" THEN "answered" ELSE shell[c].call
      BY <3>1, <3>2 DEF Shells
    <3>4. /\ shellTask'[c] = "none"
          /\ told'[c] = IF told[c] = "running" THEN "failed" ELSE told[c]
      BY <2>1
    <3>5. shell[c].proc \in {"none", "alive", "dying", "gone", "orphan"}
          /\ shell[c].call \in {"none", "waiting", "answered"}
      BY <3>1 DEF Shells
    <3>6. ToldInv(c)'
      BY <3>1, <3>3, <3>4, <3>5 DEF ToldInv
    <3> QED
      BY <3>1, <3>3, <3>4, <3>6 DEF TaskStates
  <2>3. dirty' \in BOOLEAN
    BY <2>1 DEF EvidenceInv, ShellTyped
  <2>4. /\ shell' = [c \in ShellCommands |-> shell'[c]]
        /\ shellTask' = [c \in ShellCommands |-> shellTask'[c]]
        /\ told' = [c \in ShellCommands |-> told'[c]]
    BY <2>1
  <2> QED
    BY <2>2, <2>3, <2>4, EachCommand
<1>4. ASSUME UNCHANGED EvidenceVars PROVE EvidenceInv' /\ StaysOver
  BY <1>4 DEF EvidenceVars, EvidenceInv, ShellTyped, ToldInv, StaysOver
<1> QED
  BY <1>1, <1>2, <1>3, <1>4, EvidenceSteps DEF Evidence!Next

\* A command that nobody hears any more is reported.
LEMMA EndIsTold == EvidenceInv => Evidence!EndedIsTold
BY DEF EvidenceInv, ToldInv, Evidence!EndedIsTold

-----------------------------------------------------------------------------
(* Subagents.                                                              *)

\* Status a in memory, f in the file, the ends e that were told, what the task does, and
\* whether it was cancelled (c).  A task that is not over has told at most the end that
\* runSubagent has given it; one that is over is known by an end that was told, which is
\* "cancelled" when that is one.
TaskOk(a, f, e, at, c) ==
    /\ e \subseteq {"completed", "cancelled"} \/ e \subseteq {"failed", "cancelled"}
    /\ \/ a \in {"none", "running"} /\ f \in {"none", "running"} /\ "cancelled" \notin e /\ ~c
       \/ /\ f \in e \cap {"completed", "failed", "cancelled"} /\ a \in {"none", f}
          /\ "cancelled" \in e \/ c => f = "cancelled"
    /\ at # "none" => /\ c => "cancelled" \in e
                      /\ ~c => a = "running"
                      /\ at \in {"completed", "failed"} => e \subseteq {at, "cancelled"}
                      /\ at \notin {"completed", "failed"} => e \subseteq {"cancelled"}
    /\ f = "none" => at = "none" /\ e = {}

TaskInv(k) == TaskOk(agent[k], taskFile[k], ends[k], work[k].at, k \in cancel)

AgentsTyped ==
    /\ agent = [k \in AgentTasks |-> agent[k]]
    /\ taskFile = [k \in AgentTasks |-> taskFile[k]]
    /\ ends = [k \in AgentTasks |-> ends[k]]
    /\ work = [k \in AgentTasks |-> [at |-> work[k].at, left |-> work[k].left,
                                     round |-> work[k].round]]

AgentsInv == AgentsTyped /\ \A k \in AgentTasks : TaskInv(k)

LEMMA AgentsInit == Agents!Init => AgentsInv
BY DEF Agents!Init, Agents!NotRunning, AgentsInv, AgentsTyped, TaskInv, TaskOk

\* A step about one task leaves the others alone.
LEMMA OneTask ==
    ASSUME AgentsInv, NEW k \in AgentTasks, NEW a, NEW f, NEW e, NEW at, NEW calls, NEW round,
           agent' = [agent EXCEPT ![k] = a], taskFile' = [taskFile EXCEPT ![k] = f],
           ends' = [ends EXCEPT ![k] = e],
           work' = [work EXCEPT ![k] = [at |-> at, left |-> calls, round |-> round]],
           cancel' = cancel \/ cancel' = cancel \cup {k},
           TaskOk(a, f, e, at, k \in cancel')
    PROVE  AgentsInv'
<1>1. /\ agent'[k] = a /\ taskFile'[k] = f /\ ends'[k] = e /\ work'[k].at = at
      /\ \A j \in AgentTasks \ {k} : /\ agent'[j] = agent[j] /\ taskFile'[j] = taskFile[j]
                                     /\ ends'[j] = ends[j] /\ work'[j] = work[j]
                                     /\ j \in cancel' <=> j \in cancel
  BY DEF AgentsInv, AgentsTyped
<1>2. AgentsTyped'
  BY DEF AgentsInv, AgentsTyped
<1>3. ASSUME NEW j \in AgentTasks PROVE TaskInv(j)'
  <2>1. CASE j = k
    BY <1>1, <2>1 DEF TaskInv, TaskOk
  <2>2. CASE j # k
    BY <1>1, <2>2 DEF AgentsInv, TaskInv, TaskOk
  <2> QED
    BY <2>1, <2>2
<1> QED
  BY <1>2, <1>3 DEF AgentsInv

\* What does not change, written like a change.
LEMMA TaskStays ==
    ASSUME AgentsInv, NEW k \in AgentTasks
    PROVE  /\ agent = [agent EXCEPT ![k] = agent[k]]
           /\ taskFile = [taskFile EXCEPT ![k] = taskFile[k]]
           /\ ends = [ends EXCEPT ![k] = ends[k]]
           /\ work = [work EXCEPT ![k] = [at |-> work[k].at, left |-> work[k].left,
                                          round |-> work[k].round]]
           /\ TaskInv(k)
BY DEF AgentsInv, AgentsTyped

\* A task's record with another count of tool calls, and where it is.
LEMMA OtherCount ==
    ASSUME AgentsInv, NEW k \in AgentTasks, NEW x
    PROVE  /\ work' = [work EXCEPT ![k].left = x] =>
                  work' = [work EXCEPT ![k] = [at |-> work[k].at, left |-> x,
                                               round |-> work[k].round]]
           /\ work' = [work EXCEPT ![k].at = x] =>
                  work' = [work EXCEPT ![k] = [at |-> x, left |-> work[k].left,
                                               round |-> work[k].round]]
           /\ work' = [work EXCEPT ![k].at = "tool", ![k].left = x] =>
                  work' = [work EXCEPT ![k] = [at |-> "tool", left |-> x,
                                               round |-> work[k].round]]
<1>1. /\ work[k] = [at |-> work[k].at, left |-> work[k].left, round |-> work[k].round]
      /\ work = [work EXCEPT ![k] = work[k]] /\ DOMAIN work = AgentTasks
  BY DEF AgentsInv, AgentsTyped
<1>2. /\ [work[k] EXCEPT !.left = x] = [at |-> work[k].at, left |-> x, round |-> work[k].round]
      /\ [work[k] EXCEPT !.at = x] = [at |-> x, left |-> work[k].left, round |-> work[k].round]
      /\ [work[k] EXCEPT !.at = "tool"] =
             [at |-> "tool", left |-> work[k].left, round |-> work[k].round]
  BY <1>1
<1>3. [[at |-> "tool", left |-> work[k].left, round |-> work[k].round] EXCEPT !.left = x]
          = [at |-> "tool", left |-> x, round |-> work[k].round]
  OBVIOUS
<1>4. /\ [work EXCEPT ![k].left = x] = [work EXCEPT ![k] = [work[k] EXCEPT !.left = x]]
      /\ [work EXCEPT ![k].at = x] = [work EXCEPT ![k] = [work[k] EXCEPT !.at = x]]
  BY <1>1
<1>5. [work EXCEPT ![k].at = "tool", ![k].left = x] =
          [work EXCEPT ![k] = [[work[k] EXCEPT !.at = "tool"] EXCEPT !.left = x]]
  BY <1>1
<1>6. /\ [work EXCEPT ![k].left = x] =
             [work EXCEPT ![k] = [at |-> work[k].at, left |-> x, round |-> work[k].round]]
      /\ [work EXCEPT ![k].at = x] =
             [work EXCEPT ![k] = [at |-> x, left |-> work[k].left, round |-> work[k].round]]
  BY <1>2, <1>4
<1>7. [work EXCEPT ![k].at = "tool", ![k].left = x] =
          [work EXCEPT ![k] = [at |-> "tool", left |-> x, round |-> work[k].round]]
  BY <1>2, <1>3, <1>5
<1> QED
  BY <1>6, <1>7

\* The same for a step that leaves the task's ends and its entry as they are.
LEMMA SameEnds ==
    ASSUME AgentsInv, NEW k \in AgentTasks, NEW f, NEW at, NEW calls, NEW round,
           agent' = agent, ends' = ends, cancel' = cancel,
           taskFile' = [taskFile EXCEPT ![k] = f],
           work' = [work EXCEPT ![k] = [at |-> at, left |-> calls, round |-> round]],
           TaskOk(agent[k], f, ends[k], at, k \in cancel)
    PROVE  AgentsInv'
<1>1. agent' = [agent EXCEPT ![k] = agent[k]] /\ ends' = [ends EXCEPT ![k] = ends[k]]
  BY TaskStays
<1>2. TaskOk(agent[k], f, ends[k], at, k \in cancel')
  BY DEF TaskOk
<1> QED
  BY <1>1, <1>2, OneTask

LEMMA StartKeeps ==
    ASSUME AgentsInv, NEW k \in AgentTasks, Agents!Start(k)
    PROVE  AgentsInv'
<1> DEFINE extended == [agent EXCEPT ![k] = "running"]
<1>1. PICK F \in Agents!Pruned(extended) :
          agent' = [j \in AgentTasks |-> IF j \in F THEN "none" ELSE extended[j]]
  BY DEF Agents!Start
<1>2. \A j \in F : extended[j] \notin {"none", "running"}
  BY <1>1 DEF Agents!Pruned
<1>3. /\ extended[k] = "running" /\ \A j \in AgentTasks \ {k} : extended[j] = agent[j]
  BY DEF AgentsInv, AgentsTyped
<1> HIDE DEF extended
<1>4. /\ taskFile[k] = "none" /\ taskFile' = [taskFile EXCEPT ![k] = "running"]
      /\ work' = [work EXCEPT ![k] = [at |-> "model", left |-> 0, round |-> 0]]
      /\ UNCHANGED <<cancel, ends>>
  BY DEF Agents!Start
<1>5. AgentsTyped'
  BY <1>1, <1>4 DEF AgentsInv, AgentsTyped
<1>6. TaskInv(k)'
  <2>1. ends[k] = {} /\ k \notin cancel
    BY <1>4 DEF AgentsInv, TaskInv, TaskOk
  <2>2. /\ agent'[k] = "running" /\ taskFile'[k] = "running" /\ ends'[k] = ends[k]
        /\ work'[k].at = "model"
    BY <1>1, <1>2, <1>3, <1>4 DEF AgentsInv, AgentsTyped
  <2> QED
    BY <1>4, <2>1, <2>2 DEF TaskInv, TaskOk
<1>7. ASSUME NEW j \in AgentTasks \ {k} PROVE TaskInv(j)'
  <2>1. /\ taskFile'[j] = taskFile[j] /\ ends'[j] = ends[j] /\ work'[j] = work[j]
        /\ j \in cancel' <=> j \in cancel
    BY <1>4 DEF AgentsInv, AgentsTyped
  <2>2. agent'[j] = agent[j] \/ (agent'[j] = "none" /\ agent[j] \notin {"none", "running"})
    BY <1>1, <1>2, <1>3
  <2> QED
    BY <2>1, <2>2 DEF AgentsInv, TaskInv, TaskOk
<1> QED
  BY <1>5, <1>6, <1>7 DEF AgentsInv

\* A task whose callback runs has its end now, or has been cancelled.
LEMMA ReturnsKeeps ==
    ASSUME AgentsInv, NEW k \in AgentTasks, Agents!Returns(k)
    PROVE  AgentsInv'
<1> DEFINE end == work[k].at
<1>1. TaskInv(k) /\ end \in {"completed", "failed"}
  BY DEF AgentsInv, Agents!Returns
<1>2. work' = [work EXCEPT ![k] = [at |-> "none", left |-> 0, round |-> 0]] /\ cancel' = cancel
  BY DEF Agents!Returns, Agents!NotRunning
<1>3. CASE k \in cancel
  <2>1. UNCHANGED <<agent, taskFile, ends>>
    BY <1>3 DEF Agents!Returns
  <2>2. taskFile' = [taskFile EXCEPT ![k] = taskFile[k]]
    BY <2>1, TaskStays
  <2>3. TaskOk(agent[k], taskFile[k], ends[k], "none", k \in cancel)
    BY <1>1 DEF TaskInv, TaskOk
  <2> QED
    BY <1>2, <2>1, <2>2, <2>3, SameEnds
<1>4. CASE k \notin cancel
  <2>1. agent[k] = "running" /\ ends[k] \cup {end} = {end}
    BY <1>1, <1>4 DEF TaskInv, TaskOk
  <2>2. /\ agent' = [agent EXCEPT ![k] = end]
        /\ taskFile' = [taskFile EXCEPT ![k] = end]
        /\ ends' = [ends EXCEPT ![k] = {end}]
    BY <1>4, <2>1 DEF Agents!Returns, Agents!Ends, AgentsInv, AgentsTyped
  <2>3. TaskOk(end, end, {end}, "none", k \in cancel')
    BY <1>1, <1>2, <1>4 DEF TaskOk
  <2> HIDE DEF end
  <2> QED
    BY <1>2, <2>2, <2>3, OneTask
<1> QED
  BY <1>3, <1>4

LEMMA ModelAnswersKeeps ==
    ASSUME AgentsInv, NEW k \in AgentTasks, Agents!ModelAnswers(k)
    PROVE  AgentsInv'
<1>1. /\ work[k].at = "model" /\ TaskInv(k) /\ UNCHANGED <<agent, taskFile, cancel>>
      /\ agent' = [agent EXCEPT ![k] = agent[k]]
      /\ taskFile' = [taskFile EXCEPT ![k] = taskFile[k]]
  BY TaskStays DEF Agents!ModelAnswers, AgentsInv
<1>2. CASE (\E n : work' = [work EXCEPT ![k].at = "tool", ![k].left = n]) /\ UNCHANGED ends
  <2>1. PICK n : work' = [work EXCEPT ![k].at = "tool", ![k].left = n]
    BY <1>2
  <2>2. work' = [work EXCEPT ![k] = [at |-> "tool", left |-> n, round |-> work[k].round]]
    BY <2>1, OtherCount
  <2>3. TaskOk(agent[k], taskFile[k], ends[k], "tool", k \in cancel)
    BY <1>1 DEF TaskInv, TaskOk
  <2> QED
    BY <1>1, <1>2, <2>2, <2>3, SameEnds
<1>3. CASE \E status \in {"completed", "failed"} :
               /\ work' = [work EXCEPT ![k].at = status]
               /\ ends' = [ends EXCEPT ![k] = @ \cup {status}] \/ (status = "failed" /\ ends' = ends)
  <2>1. PICK status \in {"completed", "failed"} :
            /\ work' = [work EXCEPT ![k].at = status]
            /\ ends' = [ends EXCEPT ![k] = @ \cup {status}] \/ (status = "failed" /\ ends' = ends)
    BY <1>3
  <2>2. PICK e : ends' = [ends EXCEPT ![k] = e] /\ e \in {ends[k], ends[k] \cup {status}}
    BY <2>1, TaskStays DEF AgentsInv, AgentsTyped
  <2>3. work' = [work EXCEPT ![k] = [at |-> status, left |-> work[k].left, round |-> work[k].round]]
    BY <2>1, OtherCount
  <2>4. TaskOk(agent[k], taskFile[k], e, status, k \in cancel')
    BY <1>1, <2>2 DEF TaskInv, TaskOk
  <2> QED
    BY <1>1, <2>2, <2>3, <2>4, OneTask
<1> QED
  BY <1>2, <1>3 DEF Agents!ModelAnswers

\* A tool call that ends writes the entry, with whatever status it has.
LEMMA ToolKeeps ==
    ASSUME AgentsInv, NEW k \in AgentTasks, NEW at \in {"model", "tool", "failed"},
           NEW calls, NEW round, work[k].at = "tool",
           work' = [work EXCEPT ![k] = [at |-> at, left |-> calls, round |-> round]],
           taskFile' = [taskFile EXCEPT ![k] = IF agent[k] = "none" THEN taskFile[k] ELSE agent[k]],
           UNCHANGED <<agent, cancel, ends>>
    PROVE  AgentsInv'
<1> DEFINE f == IF agent[k] = "none" THEN taskFile[k] ELSE agent[k]
<1>1. TaskOk(agent[k], f, ends[k], at, k \in cancel)
  BY DEF AgentsInv, TaskInv, TaskOk
<1>2. taskFile' = [taskFile EXCEPT ![k] = f]
  OBVIOUS
<1> HIDE DEF f
<1> QED
  BY <1>1, <1>2, SameEnds

LEMMA AgentsNext ==
    ASSUME AgentsInv, Agents!Next \/ UNCHANGED AgentsVars
    PROVE  AgentsInv'
<1>2. ASSUME NEW k \in AgentTasks, Agents!ModelThrows(k) PROVE AgentsInv'
  <2> DEFINE end == IF k \in cancel THEN "cancelled" ELSE "failed"
  <2>1. work[k].at # "none" /\ TaskInv(k) /\ cancel' = cancel
        /\ work' = [work EXCEPT ![k] = [at |-> "none", left |-> 0, round |-> 0]]
    BY <1>2 DEF Agents!ModelThrows, Agents!NotRunning, AgentsInv
  <2>2. /\ agent' = [agent EXCEPT ![k] = IF agent[k] = "none" THEN "none" ELSE end]
        /\ taskFile' = [taskFile EXCEPT ![k] = end]
        /\ ends' = [ends EXCEPT ![k] = ends[k] \cup {end}]
    BY <1>2 DEF Agents!ModelThrows, Agents!Ends, AgentsInv, AgentsTyped
  <2>3. TaskOk(IF agent[k] = "none" THEN "none" ELSE end, end, ends[k] \cup {end}, "none",
               k \in cancel')
    BY <1>2, <2>1 DEF TaskInv, TaskOk, Agents!ModelThrows
  <2> HIDE DEF end
  <2> QED
    BY <2>1, <2>2, <2>3, OneTask
<1>3. ASSUME NEW k \in AgentTasks, Agents!ToolEnds(k) PROVE AgentsInv'
  <2>1. /\ work[k].at = "tool" /\ TaskInv(k) /\ UNCHANGED <<agent, cancel, ends>>
        /\ taskFile' = [taskFile EXCEPT ![k] = IF agent[k] = "none" THEN taskFile[k] ELSE agent[k]]
    BY <1>3 DEF Agents!ToolEnds, AgentsInv, AgentsTyped
  <2>2. \/ work' = [work EXCEPT ![k] = [at |-> "tool", left |-> work[k].left - 1,
                                         round |-> work[k].round]]
        \/ work' = [work EXCEPT ![k] = [at |-> "model", left |-> 0,
                                         round |-> work[k].round + 1]]
    <3>1. ASSUME work' = [work EXCEPT ![k].left = work[k].left - 1]
          PROVE  work' = [work EXCEPT ![k] = [at |-> "tool", left |-> work[k].left - 1,
                                              round |-> work[k].round]]
      <4> DEFINE n == work[k].left - 1
      <4>1. work' = [work EXCEPT ![k].left = n]
        BY <3>1
      <4> HIDE DEF n
      <4>2. work' = [work EXCEPT ![k] = [at |-> work[k].at, left |-> n, round |-> work[k].round]]
        BY <4>1, OtherCount
      <4> QED
        BY <2>1, <4>2 DEF n
    <3>2. /\ [work EXCEPT ![k].left = @ - 1] = [work EXCEPT ![k].left = work[k].left - 1]
          /\ [work EXCEPT ![k] = [at |-> "model", left |-> 0, round |-> @.round + 1]] =
                 [work EXCEPT ![k] = [at |-> "model", left |-> 0, round |-> work[k].round + 1]]
      BY DEF AgentsInv, AgentsTyped
    <3> QED
      BY <1>3, <3>1, <3>2, Zenon DEF Agents!ToolEnds
  <2> QED
    BY <2>1, <2>2, ToolKeeps
<1>4. ASSUME NEW k \in AgentTasks, Agents!RoundsExhausted(k) PROVE AgentsInv'
  <2>1. /\ work[k].at = "tool" /\ UNCHANGED <<agent, cancel, ends>>
        /\ taskFile' = [taskFile EXCEPT ![k] = IF agent[k] = "none" THEN taskFile[k] ELSE agent[k]]
    BY <1>4 DEF Agents!RoundsExhausted, AgentsInv, AgentsTyped
  <2>2. work' = [work EXCEPT ![k] = [at |-> "failed", left |-> work[k].left,
                                     round |-> work[k].round]]
    BY <1>4, OtherCount DEF Agents!RoundsExhausted
  <2> QED
    BY <2>1, <2>2, ToolKeeps
<1>5. ASSUME NEW k \in AgentTasks, Agents!Cancel(k) PROVE AgentsInv'
  <2>1. /\ TaskInv(k) /\ UNCHANGED work
        /\ \/ agent[k] = "running" /\ cancel' = cancel \cup {k}
           \/ agent[k] = "none" /\ taskFile[k] = "running" /\ cancel' = cancel
    BY <1>5 DEF Agents!Cancel, Agents!Status, AgentsInv
  <2> DEFINE a == IF agent[k] = "none" THEN "none" ELSE "cancelled"
             e == ends[k] \cup {"cancelled"}
  <2>2. /\ agent' = [agent EXCEPT ![k] = a] /\ ends' = [ends EXCEPT ![k] = e]
        /\ taskFile' = [taskFile EXCEPT ![k] = "cancelled"]
    BY <1>5 DEF Agents!Cancel, Agents!Ends, AgentsInv, AgentsTyped
  <2>3. work' = [work EXCEPT ![k] = [at |-> work[k].at, left |-> work[k].left,
                                     round |-> work[k].round]]
    BY <2>1, TaskStays
  <2>4. TaskOk(a, "cancelled", e, work[k].at, k \in cancel')
    BY <2>1 DEF TaskInv, TaskOk
  <2>5. cancel' = cancel \/ cancel' = cancel \cup {k}
    BY <2>1
  <2> HIDE DEF a, e
  <2> QED
    BY <2>2, <2>3, <2>4, <2>5, OneTask
<1>6. ASSUME Agents!Restart PROVE AgentsInv'
  <2>1. /\ agent' = [k \in AgentTasks |-> "none"] /\ cancel' = {}
        /\ work' = [k \in AgentTasks |-> [at |-> "none", left |-> 0, round |-> 0]]
        /\ UNCHANGED <<taskFile, ends>>
    BY <1>6 DEF Agents!Restart, Agents!NotRunning
  <2>2. AgentsTyped'
    BY <2>1 DEF AgentsInv, AgentsTyped
  <2>3. ASSUME NEW k \in AgentTasks PROVE TaskInv(k)'
    BY <2>1 DEF AgentsInv, TaskInv, TaskOk
  <2> QED
    BY <2>2, <2>3 DEF AgentsInv
<1>7. ASSUME UNCHANGED AgentsVars PROVE AgentsInv'
  BY <1>7 DEF AgentsVars, AgentsInv, AgentsTyped, TaskInv, TaskOk
<1> QED
  BY <1>2, <1>3, <1>4, <1>5, <1>6, <1>7, StartKeeps, ModelAnswersKeeps, ReturnsKeeps
     DEF Agents!Next

\* What is known of a task is an end that was told.
LEMMA FirstEndEach == AgentsInv => Agents!FirstEndStands
<1>1. ASSUME AgentsInv, NEW k \in AgentTasks
      PROVE  /\ "cancelled" \in ends[k] => Agents!Status(k) = "cancelled"
             /\ Agents!Status(k) \in Agents!Terminal => Agents!Status(k) \in ends[k]
             /\ ~({"completed", "failed"} \subseteq ends[k])
  BY <1>1 DEF AgentsInv, TaskInv, TaskOk, Agents!Status, Agents!Terminal
<1> QED
  BY <1>1 DEF Agents!FirstEndStands

\* For any commands and any subagents: whatever exits, timeouts, aborts, cancellations
\* and restarts race, a command that nobody hears any more is reported; and a subagent that
\* the thread was told is cancelled stays cancelled for whoever asks, however late
\* runSubagent and its callback come, and an end that is told of a task was recorded
\* (shell-task-store.ts, subagents).
THEOREM EndsAreAlwaysTold == ServicesSpec => []EndsAreTold
<1>1. ServicesInit => EvidenceInv /\ AgentsInv
  BY EvidenceInit, AgentsInit DEF ServicesInit
<1>2. EvidenceInv /\ AgentsInv /\ [ServicesNext]_vars => (EvidenceInv /\ AgentsInv)'
  BY EvidenceNext, AgentsNext, Steps
<1>3. EvidenceInv /\ AgentsInv => EndsAreTold
  BY EndIsTold, FirstEndEach DEF EndsAreTold
<1> QED
  BY <1>1, <1>2, <1>3, PTL DEF ServicesSpec

-----------------------------------------------------------------------------
(* Webridge.                                                               *)

Below == {pair \in Nat \X Nat : pair[1] < pair[2]}

\* Some numbers have a smallest.
LEMMA Smallest ==
    ASSUME NEW S \in SUBSET Nat, S # {}
    PROVE  \E m \in S : \A k \in S : m <= k
<1>1. IsWellFoundedOn(Below, Nat)
  BY NatLessThanWellFounded DEF Below, OpToRel
<1>2. PICK m \in S : \A k \in S : <<k, m>> \notin Below
  BY <1>1, WFMin
<1>3. ASSUME NEW k \in S PROVE m <= k
  <2>1. k \in Nat /\ m \in Nat
    OBVIOUS
  <2>2. k < m => <<k, m>> \in Below
    BY <2>1 DEF Below
  <2> QED
    BY <1>2, <2>1, <2>2
<1> QED
  BY <1>3

BridgeTyped ==
    /\ commandQueue \in [WebClients -> Seq(WebCommands)]
    /\ ext \in [WebClients -> [at : {"idle", "poll", "run", "report", "again"}, poll : Nat,
                               cmd : WebCommands \cup {0}]]
    /\ done \in Seq(WebCommands)
    /\ outcome \in [WebCommands -> {"none", "ok", "failed", "timeout"}]
    /\ waiting \in SUBSET WebCommands
    /\ waiters \in Seq([client : WebClients, poll : Nat])
    /\ polls \in Nat

Distinct(s) == \A i, j \in DOMAIN s : s[i] = s[j] => i = j

Apart(s, t) == \A i \in DOMAIN s, j \in DOMAIN t : s[i] # t[j]

Executed(c) == \E j \in DOMAIN done : done[j] = c

Runs(e) == ext[e].at = "run"

\* A command is in one queue, run by one extension or executed, and once there.
OnePlace ==
    /\ \A e \in WebClients : Distinct(commandQueue[e]) /\ Apart(commandQueue[e], done)
    /\ \A e, f \in WebClients : e # f => Apart(commandQueue[e], commandQueue[f])
    /\ \A e, f \in WebClients :
           Runs(e) => \A i \in DOMAIN commandQueue[f] : commandQueue[f][i] # ext[e].cmd
    /\ \A e, f \in WebClients : Runs(e) /\ Runs(f) /\ e # f => ext[e].cmd # ext[f].cmd
    /\ \A e \in WebClients : Runs(e) => ~Executed(ext[e].cmd)
    /\ Distinct(done)

\* Its sender waits for it or knows the outcome, so that it is not sent again.
Accepted(c) == c \in waiting \/ outcome[c] # "none"

Placed ==
    /\ \A e \in WebClients : \A i \in DOMAIN commandQueue[e] : Accepted(commandQueue[e][i])
    /\ \A e \in WebClients : Runs(e) => ext[e].cmd \in WebCommands /\ Accepted(ext[e].cmd)
    /\ \A j \in DOMAIN done : Accepted(done[j])

\* Whoever waits knows nothing yet, and a result is one of a command that was executed.
Told ==
    /\ \A c \in waiting : outcome[c] = "none"
    /\ \A c \in WebCommands : outcome[c] = "ok" => Executed(c)
    /\ \A e \in WebClients : ext[e].at \in {"report", "again"} => Executed(ext[e].cmd)

PollsAreEmpty ==
    \A i \in DOMAIN waiters : commandQueue[waiters[i].client] = <<>>

BridgeInv == BridgeTyped /\ OnePlace /\ Placed /\ Told /\ PollsAreEmpty

\* What a step may do to outcomes and executions.
SettlesOnce ==
    /\ \A c \in WebCommands : outcome[c] # "none" => outcome'[c] = outcome[c]
    /\ \A c \in WebCommands : outcome'[c] = "ok" => Executed(c)
    /\ Distinct(done')

\* What it does to the senders.
SendersKnow ==
    /\ \A c \in WebCommands : /\ outcome[c] # "none" => outcome'[c] = outcome[c]
                              /\ Accepted(c) => Accepted(c)'
                              /\ outcome'[c] = "ok" => outcome[c] = "ok" \/ Executed(c)
    /\ \A c \in waiting' : outcome'[c] = "none"

LEMMA BridgeInit == Bridge!Init => BridgeInv
BY DEF Bridge!Init, Bridge!Idle, BridgeInv, BridgeTyped, OnePlace, Placed, Told, PollsAreEmpty,
       Distinct, Apart, Executed, Runs

\* A step that moves no command but for those that are lost.
LEMMA NothingMoves ==
    ASSUME BridgeInv, BridgeTyped', PollsAreEmpty', SendersKnow, done' = done,
           \A e \in WebClients :
               /\ commandQueue'[e] = commandQueue[e] \/ commandQueue'[e] = <<>>
               /\ ext'[e].at = "run" => ext[e].at = "run" /\ ext'[e].cmd = ext[e].cmd
               /\ ext'[e].at \in {"report", "again"} =>
                      ext[e].at \in {"report", "again"} /\ ext'[e].cmd = ext[e].cmd
    PROVE  BridgeInv' /\ SettlesOnce
<1>1. OnePlace'
  BY DEF BridgeInv, OnePlace, Distinct, Apart, Executed, Runs
<1>2. ASSUME NEW e \in WebClients
      PROVE  /\ \A i \in DOMAIN commandQueue[e] : commandQueue[e][i] \in WebCommands
             /\ \A j \in DOMAIN done : done[j] \in WebCommands
  BY DEF BridgeInv, BridgeTyped
<1>3. Placed'
  <2>1. ASSUME NEW e \in WebClients, NEW i \in DOMAIN commandQueue'[e]
        PROVE  Accepted(commandQueue[e][i])' /\ i \in DOMAIN commandQueue[e]
    <3>1. commandQueue'[e] = commandQueue[e]
      BY <2>1
    <3> QED
      BY <1>2, <3>1 DEF BridgeInv, Placed, SendersKnow
  <2>2. ASSUME NEW e \in WebClients, Runs(e)'
        PROVE  ext'[e].cmd \in WebCommands /\ Accepted(ext[e].cmd)'
    BY <2>2 DEF BridgeInv, Placed, SendersKnow, Runs
  <2>3. ASSUME NEW j \in DOMAIN done' PROVE Accepted(done[j])'
    <3>1. Accepted(done[j]) /\ done[j] \in WebCommands
      BY DEF BridgeInv, BridgeTyped, Placed
    <3> QED
      BY <3>1 DEF SendersKnow
  <2> QED
    BY <2>1, <2>2, <2>3 DEF Placed
<1>4. Told'
  BY DEF BridgeInv, Told, SendersKnow, Executed
<1>5. SettlesOnce
  BY DEF BridgeInv, Told, OnePlace, SendersKnow, SettlesOnce, Executed
<1> QED
  BY <1>1, <1>3, <1>4, <1>5 DEF BridgeInv

\* What is left of a sequence when one of its elements is taken out.
LEMMA TakenOut ==
    ASSUME NEW S, NEW s \in Seq(S), NEW i \in DOMAIN s
    PROVE  /\ Bridge!RemoveAt(s, i) \in Seq(S)
           /\ \A k \in DOMAIN Bridge!RemoveAt(s, i) :
                  \E j \in DOMAIN s : Bridge!RemoveAt(s, i)[k] = s[j]
<1> DEFINE front == SubSeq(s, 1, i - 1)
           back == SubSeq(s, i + 1, Len(s))
<1>1. i \in 1..Len(s) /\ Len(s) \in Nat /\ \A j \in 1..Len(s) : s[j] \in S
  OBVIOUS
<1>2. front \in Seq(S) /\ \A k \in DOMAIN front : \E j \in DOMAIN s : front[k] = s[j]
  BY <1>1
<1>3. back \in Seq(S) /\ \A k \in DOMAIN back : \E j \in DOMAIN s : back[k] = s[j]
  BY <1>1
<1> HIDE DEF front, back
<1>4. front \o back \in Seq(S)
  BY <1>2, <1>3
<1>5. ASSUME NEW k \in DOMAIN (front \o back)
      PROVE  \E j \in DOMAIN s : (front \o back)[k] = s[j]
  <2>1. k \in 1..(Len(front) + Len(back)) /\ Len(front) \in Nat /\ Len(back) \in Nat
    BY <1>2, <1>3
  <2>2. CASE k <= Len(front)
    BY <1>2, <1>3, <2>1, <2>2
  <2>3. CASE k > Len(front)
    <3>1. k - Len(front) \in DOMAIN back /\ (front \o back)[k] = back[k - Len(front)]
      BY <1>2, <1>3, <2>1, <2>3
    <3> QED
      BY <1>3, <3>1
  <2> QED
    BY <2>1, <2>2, <2>3
<1>6. Bridge!RemoveAt(s, i) = front \o back
  BY DEF Bridge!RemoveAt, front, back
<1> QED
  BY <1>4, <1>5, <1>6

\* The poll that is answered.
LEMMA PollOf ==
    ASSUME BridgeInv, NEW i \in DOMAIN waiters
    PROVE  waiters[i].client \in WebClients
<1> DEFINE S == [client : WebClients, poll : Nat]
<1>1. waiters \in Seq(S)
  BY DEF BridgeInv, BridgeTyped
<1> HIDE DEF S
<1>2. waiters[i] \in S
  BY <1>1
<1> QED
  BY <1>2 DEF S

LEMMA PollIsTaken ==
    ASSUME BridgeInv, NEW i \in DOMAIN waiters, waiters' = Bridge!RemoveAt(waiters, i)
    PROVE  /\ waiters' \in Seq([client : WebClients, poll : Nat])
           /\ \A k \in DOMAIN waiters' : \E j \in DOMAIN waiters : waiters'[k] = waiters[j]
           /\ waiters[i].client \in WebClients
<1> DEFINE S == [client : WebClients, poll : Nat]
<1>1. waiters \in Seq(S)
  BY DEF BridgeInv, BridgeTyped
<1> HIDE DEF S
<1>2. /\ waiters' \in Seq(S)
      /\ \A k \in DOMAIN waiters' : \E j \in DOMAIN waiters : waiters'[k] = waiters[j]
  BY <1>1, TakenOut
<1> QED
  BY <1>2, PollOf DEF S

\* The settling of one command leaves what other senders know.
LEMMA SettleKeeps ==
    ASSUME BridgeInv, NEW c, NEW result \in {"ok", "failed", "timeout"},
           Bridge!Settle(c, result), result = "ok" => Executed(c)
    PROVE  /\ SendersKnow
           /\ outcome' \in [WebCommands -> {"none", "ok", "failed", "timeout"}]
           /\ waiting' \in SUBSET WebCommands
<1>1. /\ waiting' = waiting \ {c}
      /\ outcome' = IF c \in waiting THEN [outcome EXCEPT ![c] = result] ELSE outcome
  BY DEF Bridge!Settle
<1>2. outcome' \in [WebCommands -> {"none", "ok", "failed", "timeout"}]
  BY <1>1 DEF BridgeInv, BridgeTyped
<1>3. ASSUME NEW k \in WebCommands
      PROVE  /\ outcome[k] # "none" => outcome'[k] = outcome[k]
             /\ Accepted(k) => Accepted(k)'
             /\ outcome'[k] = "ok" => outcome[k] = "ok" \/ Executed(k)
  BY <1>1 DEF BridgeInv, BridgeTyped, Told, Accepted
<1>4. \A k \in waiting' : outcome'[k] = "none"
  BY <1>1 DEF BridgeInv, BridgeTyped, Told
<1> QED
  BY <1>1, <1>2, <1>3, <1>4 DEF SendersKnow, BridgeInv, BridgeTyped

Extensions == [at : {"idle", "poll", "run", "report", "again"}, poll : Nat,
               cmd : WebCommands \cup {0}]

\* A step about one extension, in which no command moves.
LEMMA OneExtension ==
    ASSUME BridgeInv, SendersKnow, NEW e, NEW new \in Extensions,
           outcome' \in [WebCommands -> {"none", "ok", "failed", "timeout"}],
           waiting' \in SUBSET WebCommands,
           ext' = [ext EXCEPT ![e] = new],
           e \in WebClients /\ new.at = "run" => ext[e].at = "run" /\ new.cmd = ext[e].cmd,
           e \in WebClients /\ new.at \in {"report", "again"} =>
               ext[e].at \in {"report", "again"} /\ new.cmd = ext[e].cmd,
           UNCHANGED <<commandQueue, done, polls>>,
           waiters' \in Seq([client : WebClients, poll : Nat]),
           \A k \in DOMAIN waiters' : \E j \in DOMAIN waiters : waiters'[k] = waiters[j]
    PROVE  BridgeInv' /\ SettlesOnce
<1>1. ext' \in [WebClients -> Extensions]
  BY DEF BridgeInv, BridgeTyped, Extensions
<1>2. BridgeTyped'
  BY <1>1 DEF BridgeInv, BridgeTyped, Extensions
<1>3. PollsAreEmpty'
  BY DEF BridgeInv, PollsAreEmpty
<1>4. \A f \in WebClients : IF f = e THEN ext'[f] = new ELSE ext'[f] = ext[f]
  BY DEF BridgeInv, BridgeTyped
<1> QED
  BY <1>2, <1>3, <1>4, NothingMoves

\* A step of which the senders hear nothing.
LEMMA SendersRest ==
    ASSUME BridgeInv, UNCHANGED <<waiting, outcome>>
    PROVE  /\ SendersKnow
           /\ outcome' \in [WebCommands -> {"none", "ok", "failed", "timeout"}]
           /\ waiting' \in SUBSET WebCommands
BY DEF BridgeInv, BridgeTyped, Told, SendersKnow, Accepted

LEMMA PollTimesOutKeeps ==
    ASSUME BridgeInv, NEW i, Bridge!PollTimesOut(i)
    PROVE  BridgeInv' /\ SettlesOnce
<1> DEFINE e == waiters[i].client
<1>1. /\ i \in DOMAIN waiters /\ waiters' = Bridge!RemoveAt(waiters, i)
      /\ ext' = Bridge!Hand(waiters[i].client, waiters[i].poll, 0)
      /\ UNCHANGED <<commandQueue, done, polls, waiting, outcome>>
  BY DEF Bridge!PollTimesOut
<1>2. /\ waiters' \in Seq([client : WebClients, poll : Nat])
      /\ \A k \in DOMAIN waiters' : \E j \in DOMAIN waiters : waiters'[k] = waiters[j]
      /\ e \in WebClients
  BY <1>1, PollIsTaken
<1>3. ext' = ext \/ ext' = [ext EXCEPT ![e] = Bridge!Idle]
  BY <1>1 DEF Bridge!Hand
<1>4. ext = [ext EXCEPT ![e] = ext[e]] /\ ext[e] \in Extensions
  BY <1>2 DEF BridgeInv, BridgeTyped, Extensions
<1>5. Bridge!Idle \in Extensions /\ Bridge!Idle.at = "idle"
  BY DEF Bridge!Idle, Extensions
<1> HIDE DEF e
<1>6. CASE ext' = ext
  <2>1. ext' = [ext EXCEPT ![e] = ext[e]]
    BY <1>4, <1>6
  <2> QED
    BY <1>1, <1>2, <1>4, <2>1, SendersRest, OneExtension
<1>7. CASE ext' = [ext EXCEPT ![e] = Bridge!Idle]
  BY <1>1, <1>2, <1>5, <1>7, SendersRest, OneExtension
<1> QED
  BY <1>3, <1>6, <1>7

LEMMA DropKeeps ==
    ASSUME BridgeInv, NEW e, Bridge!Drop(e)
    PROVE  BridgeInv' /\ SettlesOnce
<1>1. /\ ext' = [ext EXCEPT ![e] = Bridge!Idle]
      /\ UNCHANGED <<commandQueue, done, polls, waiting, outcome, waiters>>
  BY DEF Bridge!Drop
<1>2. Bridge!Idle \in Extensions /\ Bridge!Idle.at = "idle"
  BY DEF Bridge!Idle, Extensions
<1>3. waiters' \in Seq([client : WebClients, poll : Nat])
  BY <1>1 DEF BridgeInv, BridgeTyped
<1> QED
  BY <1>1, <1>2, <1>3, SendersRest, OneExtension

LEMMA SubmitKeeps ==
    ASSUME BridgeInv, NEW e \in WebClients, Bridge!Submit(e)
    PROVE  BridgeInv' /\ SettlesOnce
<1> DEFINE again == [at |-> "again", poll |-> ext[e].poll, cmd |-> ext[e].cmd]
<1>1. /\ ext[e].at \in {"report", "again"} /\ Executed(ext[e].cmd)
      /\ UNCHANGED <<commandQueue, done, polls, waiters>>
  BY DEF Bridge!Submit, BridgeInv, Told
<1>2. /\ [ext[e] EXCEPT !.at = "again"] = again /\ again \in Extensions
      /\ again.at = "again" /\ again.cmd = ext[e].cmd
  <2>1. ext[e] \in Extensions
    BY DEF BridgeInv, BridgeTyped, Extensions
  <2>2. ext[e] = [at |-> ext[e].at, poll |-> ext[e].poll, cmd |-> ext[e].cmd]
    BY <2>1 DEF Extensions
  <2>3. ext[e].poll \in Nat /\ ext[e].cmd \in WebCommands \cup {0}
    BY <2>1 DEF Extensions
  <2> QED
    BY <2>2, <2>3 DEF Extensions
<1>3. ext' = [ext EXCEPT ![e] = Bridge!Idle] \/ ext' = [ext EXCEPT ![e] = again]
  <2>1. [ext EXCEPT ![e].at = "again"] = [ext EXCEPT ![e] = [ext[e] EXCEPT !.at = "again"]]
    BY DEF BridgeInv, BridgeTyped
  <2> QED
    BY <1>2, <2>1 DEF Bridge!Submit
<1>4. /\ SendersKnow
      /\ outcome' \in [WebCommands -> {"none", "ok", "failed", "timeout"}]
      /\ waiting' \in SUBSET WebCommands
  <2>1. \/ \E result \in {"ok", "failed"} : Bridge!Settle(ext[e].cmd, result)
        \/ UNCHANGED <<waiting, outcome>>
    BY DEF Bridge!Submit
  <2> QED
    BY <1>1, <2>1, SettleKeeps, SendersRest
<1>5. Bridge!Idle \in Extensions /\ Bridge!Idle.at = "idle"
  BY DEF Bridge!Idle, Extensions
<1>6. waiters' \in Seq([client : WebClients, poll : Nat])
  BY <1>1 DEF BridgeInv, BridgeTyped
<1> HIDE DEF again
<1> QED
  BY <1>1, <1>2, <1>3, <1>4, <1>5, <1>6, OneExtension

\* The steps of the runtime in which no command moves.
LEMMA RuntimeRests ==
    ASSUME BridgeInv, SendersKnow, UNCHANGED <<commandQueue, done, polls, waiters, ext>>,
           outcome' \in [WebCommands -> {"none", "ok", "failed", "timeout"}],
           waiting' \in SUBSET WebCommands
    PROVE  BridgeInv' /\ SettlesOnce
<1>1. BridgeTyped' /\ PollsAreEmpty'
  BY DEF BridgeInv, BridgeTyped, PollsAreEmpty
<1> QED
  BY <1>1, NothingMoves

LEMMA ShutdownKeeps ==
    ASSUME BridgeInv, Bridge!Shutdown
    PROVE  BridgeInv' /\ SettlesOnce
<1>1. /\ waiters' = <<>> /\ waiting' = {} /\ UNCHANGED <<done, polls>>
      /\ commandQueue' = [e \in WebClients |-> <<>>]
      /\ outcome' = [c \in WebCommands |-> IF c \in waiting THEN "failed" ELSE outcome[c]]
      /\ ext' = [e \in WebClients |-> IF ext[e].at = "poll" THEN Bridge!Idle ELSE ext[e]]
  BY DEF Bridge!Shutdown
<1>2. Bridge!Idle \in Extensions /\ Bridge!Idle.at = "idle"
  BY DEF Bridge!Idle, Extensions
<1>3. \A e \in WebClients : ext[e] \in Extensions
  BY DEF BridgeInv, BridgeTyped, Extensions
<1>4. BridgeTyped'
  <2>1. ext' \in [WebClients -> Extensions]
    BY <1>1, <1>2, <1>3
  <2>2. outcome' \in [WebCommands -> {"none", "ok", "failed", "timeout"}]
    BY <1>1 DEF BridgeInv, BridgeTyped
  <2>3. commandQueue' \in [WebClients -> Seq(WebCommands)]
    BY <1>1
  <2> QED
    BY <1>1, <2>1, <2>2, <2>3 DEF BridgeInv, BridgeTyped, Extensions
<1>5. PollsAreEmpty'
  BY <1>1 DEF PollsAreEmpty
<1>6. SendersKnow
  BY <1>1 DEF BridgeInv, BridgeTyped, Told, SendersKnow, Accepted
<1>7. ASSUME NEW e \in WebClients
      PROVE  /\ commandQueue'[e] = <<>>
             /\ ext'[e] = ext[e] \/ ext'[e].at = "idle"
  BY <1>1, <1>2
<1> QED
  BY <1>1, <1>4, <1>5, <1>6, <1>7, NothingMoves

\* executeCommand(): what an extension ran is executed.
LEMMA ExecuteKeeps ==
    ASSUME BridgeInv, NEW e \in WebClients, Bridge!Execute(e)
    PROVE  BridgeInv' /\ SettlesOnce
<1>0. PICK c : c = ext[e].cmd
  OBVIOUS
<1> DEFINE report == [at |-> "report", poll |-> ext[e].poll, cmd |-> c]
<1>1. /\ Runs(e) /\ done' = Append(done, c) /\ c \in WebCommands /\ Accepted(c) /\ ~Executed(c)
      /\ UNCHANGED <<commandQueue, waiters, waiting, outcome, polls>>
  BY <1>0 DEF Bridge!Execute, Runs, BridgeInv, Placed, OnePlace
<1>2. ext' = [ext EXCEPT ![e] = report] /\ report \in Extensions
  <2>1. ext[e] \in Extensions
    BY DEF BridgeInv, BridgeTyped, Extensions
  <2>2. ext[e] = [at |-> ext[e].at, poll |-> ext[e].poll, cmd |-> ext[e].cmd]
    BY <2>1 DEF Extensions
  <2>3. ext[e].poll \in Nat /\ ext[e].cmd \in WebCommands \cup {0}
    BY <2>1 DEF Extensions
  <2>4. [ext EXCEPT ![e].at = "report"] = [ext EXCEPT ![e] = [ext[e] EXCEPT !.at = "report"]]
    BY DEF BridgeInv, BridgeTyped
  <2>5. [ext[e] EXCEPT !.at = "report"] = report
    BY <1>0, <2>2
  <2> QED
    BY <1>0, <2>3, <2>4, <2>5 DEF Bridge!Execute, Extensions
<1>3. report.at = "report" /\ report.cmd = c
  OBVIOUS
<1> HIDE DEF report
<1>4. /\ ext'[e] = report /\ \A f \in WebClients \ {e} : ext'[f] = ext[f]
      /\ ext' \in [WebClients -> Extensions]
  BY <1>2 DEF BridgeInv, BridgeTyped, Extensions
<1>5. done \in Seq(WebCommands) /\ done' \in Seq(WebCommands)
  BY <1>1 DEF BridgeInv, BridgeTyped
<1>6. /\ Len(done) \in Nat /\ DOMAIN done = 1..Len(done) /\ DOMAIN done' = 1..(Len(done) + 1)
      /\ done'[Len(done) + 1] = c /\ \A j \in DOMAIN done : done'[j] = done[j]
  BY <1>1, <1>5
<1>7. \A j \in DOMAIN done' : j = Len(done) + 1 \/ j \in DOMAIN done
  BY <1>6
<1>8. Executed(c)' /\ \A k : Executed(k) => Executed(k)'
  BY <1>6 DEF Executed
<1>9. \A k : Executed(k)' => k = c \/ Executed(k)
  BY <1>6, <1>7 DEF Executed
<1>10. \A f \in WebClients : Runs(f)' => f # e /\ Runs(f) /\ ext'[f].cmd = ext[f].cmd
  BY <1>3, <1>4 DEF Runs
<1>11. BridgeTyped'
  BY <1>1, <1>4, <1>5 DEF BridgeInv, BridgeTyped, Extensions
<1>12. Distinct(done')
  BY <1>1, <1>6, <1>7 DEF BridgeInv, OnePlace, Distinct, Executed
<1>13. ASSUME NEW f \in WebClients PROVE Apart(commandQueue[f], done')
  <2>1. \A i \in DOMAIN commandQueue[f] : commandQueue[f][i] # c
    BY <1>0, <1>1 DEF BridgeInv, OnePlace
  <2> QED
    BY <2>1, <1>6, <1>7 DEF BridgeInv, OnePlace, Apart
<1>14. \A f \in WebClients : Runs(f)' => ~Executed(ext[f].cmd)'
  <2>1. ASSUME NEW f \in WebClients, Runs(f)' PROVE ~Executed(ext[f].cmd)'
    <3>1. f # e /\ Runs(f) /\ ext'[f].cmd = ext[f].cmd
      BY <1>10, <2>1
    <3>2. ext[f].cmd # c /\ ~Executed(ext[f].cmd)
      BY <1>0, <1>1, <3>1 DEF BridgeInv, OnePlace
    <3> QED
      BY <1>9, <3>1, <3>2 DEF Executed
  <2> QED
    BY <2>1
<1>15. OnePlace'
  <2>1. \A f \in WebClients : Distinct(commandQueue'[f]) /\ Apart(commandQueue'[f], done')
    BY <1>1, <1>13 DEF BridgeInv, OnePlace
  <2>2. \A f, g \in WebClients : f # g => Apart(commandQueue'[f], commandQueue'[g])
    BY <1>1 DEF BridgeInv, OnePlace
  <2>3. \A f, g \in WebClients :
            Runs(f)' => \A i \in DOMAIN commandQueue'[g] : commandQueue'[g][i] # ext'[f].cmd
    BY <1>1, <1>10 DEF BridgeInv, OnePlace
  <2>4. \A f, g \in WebClients : Runs(f)' /\ Runs(g)' /\ f # g => ext'[f].cmd # ext'[g].cmd
    BY <1>10 DEF BridgeInv, OnePlace
  <2> QED
    BY <1>12, <1>14, <2>1, <2>2, <2>3, <2>4 DEF OnePlace
<1>16. Placed'
  <2>1. \A j \in DOMAIN done' : Accepted(done[j])'
    BY <1>1, <1>6, <1>7 DEF BridgeInv, Placed, Accepted
  <2>2. \A f \in WebClients : Runs(f)' => ext'[f].cmd \in WebCommands /\ Accepted(ext[f].cmd)'
    BY <1>1, <1>10 DEF BridgeInv, Placed, Accepted
  <2>3. \A f \in WebClients : \A i \in DOMAIN commandQueue'[f] : Accepted(commandQueue[f][i])'
    BY <1>1 DEF BridgeInv, Placed, Accepted
  <2> QED
    BY <2>1, <2>2, <2>3 DEF Placed
<1>17. Told'
  <2>1. \A f \in WebClients : ext'[f].at \in {"report", "again"} => Executed(ext[f].cmd)'
    BY <1>3, <1>4, <1>8 DEF BridgeInv, Told
  <2>2. \A k \in WebCommands : outcome'[k] = "ok" => Executed(k)'
    BY <1>1, <1>8 DEF BridgeInv, Told
  <2> QED
    BY <1>1, <2>1, <2>2 DEF BridgeInv, Told
<1>18. PollsAreEmpty'
  BY <1>1 DEF BridgeInv, PollsAreEmpty
<1>19. SettlesOnce
  BY <1>1, <1>12 DEF BridgeInv, Told, SettlesOnce
<1> QED
  BY <1>11, <1>15, <1>16, <1>17, <1>18, <1>19 DEF BridgeInv

\* An extension begins to run a command that is nowhere else.
LEMMA RunStarts ==
    ASSUME BridgeInv, NEW e \in WebClients, NEW c \in WebCommands, BridgeTyped',
           PollsAreEmpty', SendersKnow, done' = done,
           ext' = [ext EXCEPT ![e] = [at |-> "run", poll |-> 0, cmd |-> c]],
           ~Executed(c), Accepted(c)',
           \A f \in WebClients : f # e /\ Runs(f) => ext[f].cmd # c,
           \A f \in WebClients :
               /\ Distinct(commandQueue'[f])
               /\ \A i \in DOMAIN commandQueue'[f] :
                      /\ commandQueue'[f][i] # c
                      /\ \E j \in DOMAIN commandQueue[f] : commandQueue'[f][i] = commandQueue[f][j]
    PROVE  BridgeInv' /\ SettlesOnce
<1>1. /\ ext'[e].at = "run" /\ ext'[e].cmd = c
      /\ \A f \in WebClients \ {e} : ext'[f] = ext[f]
  BY DEF BridgeInv, BridgeTyped
<1>2. \A k : Executed(k)' <=> Executed(k)
  BY DEF Executed
<1>3. ASSUME NEW f \in WebClients, NEW i \in DOMAIN commandQueue'[f]
      PROVE  /\ Accepted(commandQueue[f][i])'
             /\ \A j \in DOMAIN done : commandQueue'[f][i] # done[j]
  <2>1. PICK j \in DOMAIN commandQueue[f] : commandQueue'[f][i] = commandQueue[f][j]
    OBVIOUS
  <2>2. commandQueue[f][j] \in WebCommands /\ Accepted(commandQueue[f][j])
    BY DEF BridgeInv, BridgeTyped, Placed
  <2>3. PICK k : k = commandQueue[f][j]
    OBVIOUS
  <2>4. Accepted(k)' /\ commandQueue'[f][i] = k
    BY <2>1, <2>2, <2>3 DEF SendersKnow
  <2>5. \A m \in DOMAIN done : commandQueue[f][j] # done[m]
    BY DEF BridgeInv, OnePlace, Apart
  <2> QED
    BY <2>1, <2>4, <2>5
<1>4. \A f, g \in WebClients : f # g => Apart(commandQueue'[f], commandQueue'[g])
  <2>1. ASSUME NEW f \in WebClients, NEW g \in WebClients, f # g,
               NEW i \in DOMAIN commandQueue'[f], NEW j \in DOMAIN commandQueue'[g]
        PROVE  commandQueue'[f][i] # commandQueue'[g][j]
    <3>1. PICK m \in DOMAIN commandQueue[f] : commandQueue'[f][i] = commandQueue[f][m]
      OBVIOUS
    <3>2. PICK n \in DOMAIN commandQueue[g] : commandQueue'[g][j] = commandQueue[g][n]
      OBVIOUS
    <3>3. commandQueue[f][m] # commandQueue[g][n]
      BY <2>1 DEF BridgeInv, OnePlace, Apart
    <3> QED
      BY <3>1, <3>2, <3>3
  <2> QED
    BY <2>1 DEF Apart
<1>5. \A f, g \in WebClients :
          Runs(f)' => \A i \in DOMAIN commandQueue'[g] : commandQueue'[g][i] # ext'[f].cmd
  <2>1. ASSUME NEW f \in WebClients, NEW g \in WebClients, Runs(f)', f # e,
               NEW i \in DOMAIN commandQueue'[g]
        PROVE  commandQueue'[g][i] # ext'[f].cmd
    <3>1. PICK m \in DOMAIN commandQueue[g] : commandQueue'[g][i] = commandQueue[g][m]
      OBVIOUS
    <3>2. Runs(f) /\ ext'[f] = ext[f]
      BY <1>1, <2>1 DEF Runs
    <3> QED
      BY <3>1, <3>2 DEF BridgeInv, OnePlace
  <2> QED
    BY <1>1, <2>1
<1>6. \A f, g \in WebClients : Runs(f)' /\ Runs(g)' /\ f # g => ext'[f].cmd # ext'[g].cmd
  BY <1>1 DEF BridgeInv, OnePlace, Runs
<1>7. \A f \in WebClients : Runs(f)' => ~Executed(ext[f].cmd)'
  <2>1. ASSUME NEW f \in WebClients, Runs(f)', f # e PROVE ~Executed(ext[f].cmd)'
    BY <1>1, <2>1 DEF BridgeInv, OnePlace, Runs, Executed
  <2>2. ~Executed(ext[e].cmd)'
    BY <1>1 DEF Executed
  <2> QED
    BY <2>1, <2>2
<1>8. OnePlace'
  <2>1. \A f \in WebClients : Distinct(commandQueue'[f]) /\ Apart(commandQueue'[f], done')
    BY <1>3 DEF Apart
  <2>2. Distinct(done')
    BY DEF BridgeInv, OnePlace
  <2> QED
    BY <1>4, <1>5, <1>6, <1>7, <2>1, <2>2 DEF OnePlace
<1>9. Placed'
  <2>1. ASSUME NEW j \in DOMAIN done PROVE Accepted(done[j])'
    <3>1. Accepted(done[j]) /\ done[j] \in WebCommands
      BY DEF BridgeInv, BridgeTyped, Placed
    <3> QED
      BY <3>1 DEF SendersKnow
  <2>2. ASSUME NEW f \in WebClients, Runs(f)', f # e
        PROVE  ext'[f].cmd \in WebCommands /\ Accepted(ext[f].cmd)'
    <3>1. Runs(f) /\ ext'[f] = ext[f]
      BY <1>1, <2>2 DEF Runs
    <3>2. ext[f].cmd \in WebCommands /\ Accepted(ext[f].cmd)
      BY <3>1 DEF BridgeInv, Placed
    <3> QED
      BY <3>1, <3>2 DEF SendersKnow
  <2>3. ext'[e].cmd \in WebCommands /\ Accepted(ext[e].cmd)'
    BY <1>1
  <2> QED
    BY <1>3, <2>1, <2>2, <2>3 DEF Placed
<1>10. Told'
  BY <1>1, <1>2 DEF BridgeInv, Told, SendersKnow, Executed
<1>11. SettlesOnce
  BY DEF BridgeInv, Told, OnePlace, SendersKnow, SettlesOnce, Executed
<1> QED
  BY <1>8, <1>9, <1>10, <1>11 DEF BridgeInv

\* A poll that finds a command takes it, else it waits.
LEMMA PollKeeps ==
    ASSUME BridgeInv, NEW e \in WebClients, Bridge!Poll(e)
    PROVE  BridgeInv' /\ SettlesOnce
<1>1. /\ ext[e].at = "idle" /\ done' = done /\ UNCHANGED <<waiting, outcome>>
      /\ polls \in Nat /\ polls' = polls + 1
  BY DEF Bridge!Poll, BridgeInv, BridgeTyped
<1>2. /\ SendersKnow
      /\ outcome' \in [WebCommands -> {"none", "ok", "failed", "timeout"}]
      /\ waiting' \in SUBSET WebCommands
  BY <1>1, SendersRest
<1>3. CASE commandQueue[e] # <<>>
  <2>1. PICK q : q = commandQueue[e]
    OBVIOUS
  <2>2. PICK c : c = Head(q)
    OBVIOUS
  <2>3. /\ q \in Seq(WebCommands) /\ q # <<>> /\ c \in WebCommands /\ Tail(q) \in Seq(WebCommands)
        /\ 1 \in DOMAIN q /\ q[1] = c /\ Len(q) \in Nat /\ DOMAIN q = 1..Len(q)
        /\ DOMAIN Tail(q) = 1..(Len(q) - 1)
        /\ \A i \in DOMAIN Tail(q) : i + 1 \in DOMAIN q /\ Tail(q)[i] = q[i + 1] /\ i + 1 # 1
    BY <1>3, <2>1, <2>2 DEF BridgeInv, BridgeTyped
  <2>4. /\ commandQueue' = [commandQueue EXCEPT ![e] = Tail(q)] /\ waiters' = waiters
        /\ ext' = [ext EXCEPT ![e] = [at |-> "run", poll |-> 0, cmd |-> c]]
    BY <1>3, <2>1, <2>2 DEF Bridge!Poll
  <2>5. /\ commandQueue'[e] = Tail(q)
        /\ \A f \in WebClients \ {e} : commandQueue'[f] = commandQueue[f]
        /\ commandQueue' \in [WebClients -> Seq(WebCommands)]
    BY <2>3, <2>4 DEF BridgeInv, BridgeTyped
  <2>6. Distinct(q)
    BY <2>1 DEF BridgeInv, OnePlace
  <2>7. Distinct(Tail(q)) /\ \A i \in DOMAIN Tail(q) : Tail(q)[i] # c
    BY <2>3, <2>6 DEF Distinct
  <2>8. ~Executed(c) /\ Accepted(c)'
    BY <1>1, <2>1, <2>3 DEF BridgeInv, OnePlace, Apart, Executed, Placed, Accepted
  <2>9. \A f \in WebClients : f # e /\ Runs(f) => ext[f].cmd # c
    BY <2>1, <2>3 DEF BridgeInv, OnePlace
  <2>10. ASSUME NEW f \in WebClients
         PROVE  /\ Distinct(commandQueue'[f])
                /\ \A i \in DOMAIN commandQueue'[f] :
                      /\ commandQueue'[f][i] # c
                      /\ \E j \in DOMAIN commandQueue[f] : commandQueue'[f][i] = commandQueue[f][j]
    <3>1. CASE f = e
      <4>1. \A i \in DOMAIN Tail(q) : \E j \in DOMAIN q : Tail(q)[i] = q[j]
        BY <2>3
      <4>2. commandQueue'[f] = Tail(q) /\ commandQueue[f] = q
        BY <2>1, <2>5, <3>1
      <4>3. Distinct(commandQueue'[f])
        BY <2>7, <4>2 DEF Distinct
      <4>4. \A i \in DOMAIN commandQueue'[f] : commandQueue'[f][i] # c
        BY <2>7, <4>2
      <4>5. \A i \in DOMAIN commandQueue'[f] :
                \E j \in DOMAIN commandQueue[f] : commandQueue'[f][i] = commandQueue[f][j]
        BY <4>1, <4>2
      <4> QED
        BY <4>3, <4>4, <4>5
    <3>2. CASE f # e
      BY <2>1, <2>3, <2>5, <3>2 DEF BridgeInv, OnePlace, Apart
    <3> QED
      BY <3>1, <3>2
  <2>11. PollsAreEmpty'
    <3>1. ASSUME NEW i \in DOMAIN waiters' PROVE commandQueue'[waiters'[i].client] = <<>>
      <4>1. i \in DOMAIN waiters /\ waiters'[i] = waiters[i]
        BY <2>4
      <4>2. waiters[i].client # e /\ commandQueue[waiters[i].client] = <<>>
        BY <1>3, <4>1 DEF BridgeInv, PollsAreEmpty
      <4>3. waiters[i].client \in WebClients
        BY <4>1, PollOf
      <4> QED
        BY <2>5, <4>1, <4>2, <4>3
    <3> QED
      BY <3>1 DEF PollsAreEmpty
  <2>12. BridgeTyped'
    <3>1. ext' \in [WebClients -> Extensions]
      BY <2>3, <2>4 DEF BridgeInv, BridgeTyped, Extensions
    <3> QED
      BY <1>1, <1>2, <2>4, <2>5, <3>1 DEF BridgeInv, BridgeTyped, Extensions
  <2>13. c \in WebCommands /\ done' = done
    BY <1>1, <2>3
  <2>14. ext' = [ext EXCEPT ![e] = [at |-> "run", poll |-> 0, cmd |-> c]]
    BY <2>4
  <2>15. \A f \in WebClients :
             /\ Distinct(commandQueue'[f])
             /\ \A i \in DOMAIN commandQueue'[f] :
                    /\ commandQueue'[f][i] # c
                    /\ \E j \in DOMAIN commandQueue[f] : commandQueue'[f][i] = commandQueue[f][j]
    BY <2>10
  <2>16. SendersKnow
    BY <1>2
  <2> QED
    BY <2>8, <2>9, <2>11, <2>12, <2>13, <2>14, <2>15, <2>16, RunStarts
<1>4. CASE commandQueue[e] = <<>>
  <2> DEFINE new == [at |-> "poll", poll |-> polls + 1, cmd |-> 0]
             mine == [client |-> e, poll |-> polls + 1]
  <2>1. /\ waiters' = Append(waiters, mine) /\ commandQueue' = commandQueue
        /\ ext' = [ext EXCEPT ![e] = new]
    BY <1>4 DEF Bridge!Poll
  <2>2. /\ new \in Extensions /\ new.at = "poll" /\ mine \in [client : WebClients, poll : Nat]
        /\ mine.client = e
    BY <1>1 DEF Extensions
  <2> HIDE DEF new, mine
  <2>3. /\ waiters \in Seq([client : WebClients, poll : Nat])
        /\ waiters' \in Seq([client : WebClients, poll : Nat])
        /\ \A i \in DOMAIN waiters' : waiters'[i] = mine
                                      \/ (i \in DOMAIN waiters /\ waiters'[i] = waiters[i])
    BY <2>1, <2>2 DEF BridgeInv, BridgeTyped
  <2>4. ext' \in [WebClients -> Extensions]
    BY <2>1, <2>2 DEF BridgeInv, BridgeTyped, Extensions
  <2>5. BridgeTyped'
    BY <1>1, <1>2, <2>1, <2>3, <2>4 DEF BridgeInv, BridgeTyped, Extensions
  <2>6. PollsAreEmpty'
    BY <1>4, <2>1, <2>2, <2>3 DEF BridgeInv, PollsAreEmpty
  <2>7. \A f \in WebClients : ext'[f] = ext[f] \/ ext'[f].at = "poll"
    BY <2>1, <2>2 DEF BridgeInv, BridgeTyped
  <2> QED
    BY <1>1, <1>2, <2>1, <2>5, <2>6, <2>7, NothingMoves
<1> QED
  BY <1>3, <1>4

\* A new command waits in a queue whose client has no poll open.
LEMMA QueueGrows ==
    ASSUME BridgeInv, NEW e \in WebClients, NEW c \in WebCommands, ~Accepted(c),
           waiting' = waiting \cup {c}, UNCHANGED <<outcome, done, polls, waiters, ext>>,
           commandQueue' = [commandQueue EXCEPT ![e] = Append(commandQueue[e], c)],
           \A i \in DOMAIN waiters : waiters[i].client # e
    PROVE  BridgeInv' /\ SettlesOnce
<1>1. PICK q : q = commandQueue[e]
  OBVIOUS
<1>2. q \in Seq(WebCommands)
  BY <1>1 DEF BridgeInv, BridgeTyped
<1>3. PICK r : r = Append(q, c)
  OBVIOUS
<1>4. /\ r \in Seq(WebCommands) /\ DOMAIN q = 1..Len(q) /\ DOMAIN r = 1..(Len(q) + 1)
      /\ Len(q) \in Nat /\ r[Len(q) + 1] = c /\ \A i \in DOMAIN q : r[i] = q[i]
  BY <1>2, <1>3
<1>5. \A i \in DOMAIN r : r[i] = c \/ (i \in DOMAIN q /\ r[i] = q[i])
  BY <1>4
<1>6. /\ commandQueue'[e] = r
      /\ \A f \in WebClients \ {e} : commandQueue'[f] = commandQueue[f]
      /\ commandQueue' \in [WebClients -> Seq(WebCommands)]
  BY <1>1, <1>3, <1>4 DEF BridgeInv, BridgeTyped
<1>7. /\ \A f \in WebClients : \A i \in DOMAIN commandQueue[f] : commandQueue[f][i] # c
      /\ \A f \in WebClients : Runs(f) => ext[f].cmd # c
      /\ \A j \in DOMAIN done : done[j] # c
  BY DEF BridgeInv, Placed
<1>8. Distinct(r)
  <2>1. Distinct(q) /\ \A i \in DOMAIN q : q[i] # c
    BY <1>1, <1>7 DEF BridgeInv, OnePlace
  <2>2. ASSUME NEW i \in DOMAIN r, NEW j \in DOMAIN r, r[i] = r[j] PROVE i = j
    <3>1. (i = Len(q) + 1 /\ r[i] = c) \/ (i \in DOMAIN q /\ r[i] = q[i])
      BY <1>4
    <3>2. (j = Len(q) + 1 /\ r[j] = c) \/ (j \in DOMAIN q /\ r[j] = q[j])
      BY <1>4
    <3> QED
      BY <2>1, <2>2, <3>1, <3>2 DEF Distinct
  <2> QED
    BY <2>2 DEF Distinct
<1>9. ASSUME NEW f \in WebClients, NEW i \in DOMAIN commandQueue'[f]
      PROVE  \/ f = e /\ commandQueue'[f][i] = c
             \/ \E j \in DOMAIN commandQueue[f] : commandQueue'[f][i] = commandQueue[f][j]
  BY <1>1, <1>5, <1>6
<1>10. \A k : Accepted(k) => Accepted(k)'
  BY DEF Accepted
<1>11. Accepted(c)'
  BY DEF Accepted
<1>12. OnePlace'
  <2>1. \A f \in WebClients : Distinct(commandQueue'[f])
    BY <1>6, <1>8 DEF BridgeInv, OnePlace, Distinct
  <2>2. \A f \in WebClients : Apart(commandQueue'[f], done')
    <3>1. ASSUME NEW f \in WebClients, NEW i \in DOMAIN commandQueue'[f], NEW m \in DOMAIN done
          PROVE  commandQueue'[f][i] # done[m]
      BY <1>7, <1>9 DEF BridgeInv, OnePlace, Apart
    <3> QED
      BY <3>1 DEF Apart
  <2>3. ASSUME NEW f \in WebClients, NEW g \in WebClients, f # g,
               NEW i \in DOMAIN commandQueue'[f], NEW j \in DOMAIN commandQueue'[g]
        PROVE  commandQueue'[f][i] # commandQueue'[g][j]
    <3>1. \/ f = e /\ commandQueue'[f][i] = c
          \/ \E m \in DOMAIN commandQueue[f] : commandQueue'[f][i] = commandQueue[f][m]
      BY <1>9
    <3>2. \/ g = e /\ commandQueue'[g][j] = c
          \/ \E m \in DOMAIN commandQueue[g] : commandQueue'[g][j] = commandQueue[g][m]
      BY <1>9
    <3>3. \A m \in DOMAIN commandQueue[f], n \in DOMAIN commandQueue[g] :
              commandQueue[f][m] # commandQueue[g][n]
      BY <2>3 DEF BridgeInv, OnePlace, Apart
    <3> QED
      BY <1>7, <2>3, <3>1, <3>2, <3>3
  <2>4. ASSUME NEW f \in WebClients, NEW g \in WebClients, Runs(f), NEW i \in DOMAIN commandQueue'[g]
        PROVE  commandQueue'[g][i] # ext[f].cmd
    BY <1>7, <1>9, <2>4 DEF BridgeInv, OnePlace
  <2>5. Distinct(done')
    BY DEF BridgeInv, OnePlace
  <2> QED
    BY <2>1, <2>2, <2>3, <2>4, <2>5 DEF BridgeInv, OnePlace, Apart, Runs, Executed
<1>13. Placed'
  <2>1. ASSUME NEW f \in WebClients, NEW i \in DOMAIN commandQueue'[f]
        PROVE  Accepted(commandQueue[f][i])'
    <3>1. PICK k : k = commandQueue'[f][i]
      OBVIOUS
    <3>2. k = c \/ Accepted(k)
      BY <1>9, <3>1 DEF BridgeInv, Placed
    <3> QED
      BY <1>10, <1>11, <3>1, <3>2
  <2>2. \A f \in WebClients : Runs(f) => ext[f].cmd \in WebCommands /\ Accepted(ext[f].cmd)'
    BY <1>10 DEF BridgeInv, Placed, Accepted
  <2>3. \A j \in DOMAIN done : Accepted(done[j])'
    BY <1>10 DEF BridgeInv, Placed, Accepted
  <2> QED
    BY <2>1, <2>2, <2>3 DEF Placed, Runs
<1>14. Told'
  BY DEF BridgeInv, Told, Accepted, Executed
<1>15. PollsAreEmpty'
  <2>1. ASSUME NEW i \in DOMAIN waiters PROVE commandQueue'[waiters[i].client] = <<>>
    BY <1>6, PollOf DEF BridgeInv, PollsAreEmpty
  <2> QED
    BY <2>1 DEF PollsAreEmpty
<1>16. BridgeTyped'
  BY <1>6 DEF BridgeInv, BridgeTyped
<1>17. SettlesOnce
  BY DEF BridgeInv, Told, OnePlace, SettlesOnce
<1> QED
  BY <1>12, <1>13, <1>14, <1>15, <1>16, <1>17 DEF BridgeInv

\* #send(): it fails at once, finds a poll or waits in the queue.
LEMMA SendKeeps ==
    ASSUME BridgeInv, NEW c \in WebCommands, Bridge!Send(c)
    PROVE  BridgeInv' /\ SettlesOnce
<1> DEFINE e == Head(Bridge!SelectClient)
           mine == {i \in DOMAIN waiters : waiters[i].client = e}
           i == CHOOSE k \in mine : \A m \in mine : k <= m
           q == Append(commandQueue[e], c)
<1>1. outcome[c] = "none" /\ c \notin waiting /\ done' = done /\ polls' = polls
  BY DEF Bridge!Send
<1>2. ~Accepted(c)
  BY <1>1 DEF Accepted
<1>3. CASE /\ outcome' = [outcome EXCEPT ![c] = "failed"]
           /\ UNCHANGED <<commandQueue, waiters, ext, waiting>>
  <2>1. SendersKnow
    BY <1>1, <1>3 DEF BridgeInv, BridgeTyped, Told, SendersKnow, Accepted
  <2>2. /\ outcome' \in [WebCommands -> {"none", "ok", "failed", "timeout"}]
        /\ waiting' \in SUBSET WebCommands
    BY <1>3 DEF BridgeInv, BridgeTyped
  <2> QED
    BY <1>1, <1>3, <2>1, <2>2, RuntimeRests
<1>4. CASE waiting' = waiting \cup {c} /\ outcome' = outcome /\ Bridge!NotifyWaiter(e, q)
  <2>1. SendersKnow
    BY <1>1, <1>4 DEF BridgeInv, BridgeTyped, Told, SendersKnow, Accepted
  <2>2. /\ outcome' \in [WebCommands -> {"none", "ok", "failed", "timeout"}]
        /\ waiting' \in SUBSET WebCommands
    BY <1>4 DEF BridgeInv, BridgeTyped
  <2>3. CASE mine = {}
    <3>1. /\ commandQueue' = [commandQueue EXCEPT ![e] = Append(commandQueue[e], c)]
          /\ UNCHANGED <<waiters, ext>>
      BY <1>4, <2>3 DEF Bridge!NotifyWaiter
    <3>2. \A k \in DOMAIN waiters : waiters[k].client # e
      BY <2>3
    <3> HIDE DEF e, mine, i, q
    <3>3. CASE e \in WebClients
      BY <1>1, <1>2, <1>4, <3>1, <3>2, <3>3, QueueGrows
    <3>4. CASE e \notin WebClients
      <4>1. commandQueue' = commandQueue
        BY <3>1, <3>4 DEF BridgeInv, BridgeTyped
      <4> QED
        BY <1>1, <2>1, <2>2, <3>1, <4>1, RuntimeRests
    <3> QED
      BY <3>3, <3>4
  <2>4. CASE mine # {}
    <3>1. i \in mine
      <4>1. mine \in SUBSET Nat
        BY DEF BridgeInv, BridgeTyped
      <4> HIDE DEF e, mine
      <4>2. \E k \in mine : \A m \in mine : k <= m
        BY <2>4, <4>1, Smallest
      <4> QED
        BY <4>2
    <3>2. /\ commandQueue' = [commandQueue EXCEPT ![e] = Tail(q)]
          /\ waiters' = Bridge!RemoveAt(waiters, i)
          /\ ext' = Bridge!Hand(e, waiters[i].poll, Head(q))
      BY <1>4, <2>4 DEF Bridge!NotifyWaiter
    <3>3. i \in DOMAIN waiters /\ e = waiters[i].client
      BY <3>1
    <3> HIDE DEF e, mine, i
    <3>4. e \in WebClients /\ commandQueue[e] = <<>>
      BY <3>3, PollOf DEF BridgeInv, PollsAreEmpty
    <3>5. Tail(q) = <<>> /\ Head(q) = c
      BY <3>4
    <3> HIDE DEF q
    <3>6. commandQueue' = commandQueue
      BY <3>2, <3>4, <3>5 DEF BridgeInv, BridgeTyped
    <3>7. /\ waiters' \in Seq([client : WebClients, poll : Nat])
          /\ \A k \in DOMAIN waiters' : \E j \in DOMAIN waiters : waiters'[k] = waiters[j]
      BY <3>2, <3>3, PollIsTaken
    <3>8. \/ ext' = ext
          \/ ext' = [ext EXCEPT ![e] = Bridge!Idle]
          \/ ext' = [ext EXCEPT ![e] = [at |-> "run", poll |-> 0, cmd |-> c]]
      BY <3>2, <3>5 DEF Bridge!Hand
    <3>9. CASE ext' = ext
      <4>1. ext' = [ext EXCEPT ![e] = ext[e]] /\ ext[e] \in Extensions
        BY <3>4, <3>9 DEF BridgeInv, BridgeTyped, Extensions
      <4> QED
        BY <1>1, <2>1, <2>2, <3>4, <3>6, <3>7, <4>1, OneExtension
    <3>10. CASE ext' = [ext EXCEPT ![e] = Bridge!Idle]
      <4>1. Bridge!Idle \in Extensions /\ Bridge!Idle.at = "idle"
        BY DEF Bridge!Idle, Extensions
      <4> QED
        BY <1>1, <2>1, <2>2, <3>4, <3>6, <3>7, <3>10, <4>1, OneExtension
    <3>11. CASE ext' = [ext EXCEPT ![e] = [at |-> "run", poll |-> 0, cmd |-> c]]
      <4>1. BridgeTyped'
        <5>1. ext' \in [WebClients -> Extensions]
          BY <3>4, <3>11 DEF BridgeInv, BridgeTyped, Extensions
        <5> QED
          BY <1>1, <2>2, <3>6, <3>7, <5>1 DEF BridgeInv, BridgeTyped, Extensions
      <4>2. PollsAreEmpty'
        BY <3>6, <3>7 DEF BridgeInv, PollsAreEmpty
      <4>3. ~Executed(c) /\ Accepted(c)'
        BY <1>2, <1>4 DEF BridgeInv, Placed, Executed, Accepted
      <4>4. \A f \in WebClients : f # e /\ Runs(f) => ext[f].cmd # c
        BY <1>2 DEF BridgeInv, Placed
      <4>5. \A f \in WebClients :
                /\ Distinct(commandQueue'[f])
                /\ \A k \in DOMAIN commandQueue'[f] :
                       /\ commandQueue'[f][k] # c
                       /\ \E j \in DOMAIN commandQueue[f] : commandQueue'[f][k] = commandQueue[f][j]
        BY <1>2, <3>6 DEF BridgeInv, OnePlace, Placed
      <4>6. done' = done
        BY <1>1
      <4> QED
        BY <2>1, <3>4, <3>11, <4>1, <4>2, <4>3, <4>4, <4>5, <4>6, RunStarts
    <3> QED
      BY <3>8, <3>9, <3>10, <3>11
  <2> QED
    BY <2>3, <2>4
<1> QED
  BY <1>3, <1>4 DEF Bridge!Send

\* Every step, the pure changes of what is known of the clients included.
LEMMA BridgeNext ==
    ASSUME BridgeInv, Bridge!Next \/ UNCHANGED BridgeVars
    PROVE  BridgeInv' /\ SettlesOnce
<1>1. ASSUME NEW c \in WebCommands, Bridge!CommandTimesOut(c) PROVE BridgeInv' /\ SettlesOnce
  BY <1>1, SettleKeeps, RuntimeRests DEF Bridge!CommandTimesOut
<1>2. ASSUME \/ Bridge!GatewayRestarts
             \/ \E e \in WebClients : Bridge!ClientAges(e)
             \/ UNCHANGED BridgeVars
      PROVE  BridgeInv' /\ SettlesOnce
  <2>1. UNCHANGED <<commandQueue, done, polls, waiters, ext, waiting, outcome>>
    BY <1>2 DEF Bridge!GatewayRestarts, Bridge!ClientAges, BridgeVars
  <2> QED
    BY <2>1, SendersRest, RuntimeRests
<1> QED
  BY <1>1, <1>2, SendKeeps, PollTimesOutKeeps, ShutdownKeeps, PollKeeps, ExecuteKeeps,
     SubmitKeeps, DropKeeps DEF Bridge!Next

LEMMA PollsFindNothing == BridgeInv => Bridge!NobodyWaitsInVain
BY DEF BridgeInv, PollsAreEmpty, Bridge!NobodyWaitsInVain, Bridge!HasLongPoll

-----------------------------------------------------------------------------
(* Browser.                                                                *)

TabOps == [at : {"none", "create", "attach", "restore", "close", "page"},
           via : 0..MaxConnections]

WebTyped ==
    /\ conn \in [1..MaxConnections -> {"none", "open", "closing", "closed"}]
    /\ client \in 0..MaxConnections
    /\ tabOp \in [TabSessions -> TabOps]

\* A connection that is not closed, or whose event is still to come.
Answers(c) == c = 0 \/ conn[c] \in {"open", "closing"}

WebInv == WebTyped /\ Answers(client) /\ \A s \in TabSessions : Answers(tabOp[s].via)

LEMMA WebInit == Web!Init => WebInv
BY ServicesAssumptions
   DEF Web!Init, Web!Idle, Web!Clients, ServicesAssumptions, WebInv, WebTyped, TabOps, Answers

\* A new connection is one that was not there.
LEMMA NewIsFree ==
    ASSUME Web!Free # {}
    PROVE  Web!NewClient \in 1..MaxConnections /\ conn[Web!NewClient] = "none"
<1> DEFINE F == Web!Free
<1>1. F \in SUBSET Nat /\ F # {}
  BY ServicesAssumptions DEF Web!Free, Web!Clients, ServicesAssumptions
<1>2. Web!NewClient = CHOOSE c \in F : \A d \in F : c <= d
  BY DEF Web!NewClient
<1> HIDE DEF F
<1>3. \E c \in F : \A d \in F : c <= d
  BY <1>1, Smallest
<1>4. Web!NewClient \in F
  BY <1>2, <1>3
<1> QED
  BY <1>4 DEF F, Web!Free, Web!Clients

\* A connection is made.
LEMMA ConnectionKeeps ==
    ASSUME WebInv, Web!Free # {}, client' = Web!NewClient,
           conn' = [conn EXCEPT ![Web!NewClient] = "open"], tabOp' = tabOp
    PROVE  WebInv'
<1> DEFINE new == Web!NewClient
<1>1. new \in 1..MaxConnections /\ new \in 0..MaxConnections
  BY NewIsFree, ServicesAssumptions DEF ServicesAssumptions
<1>2. client' = new /\ conn' = [conn EXCEPT ![new] = "open"]
  OBVIOUS
<1> HIDE DEF new
<1> QED
  BY <1>1, <1>2 DEF WebInv, WebTyped, Answers

\* A connection changes from which no command goes on.
LEMMA ConnectionGoes ==
    ASSUME WebInv, NEW c \in 1..MaxConnections, client' = 0 \/ (client' = client /\ client # c),
           tabOp' = Web!OpsAfter(c),
           conn' = conn \/ \E how \in {"closing", "closed"} : conn' = [conn EXCEPT ![c] = how]
    PROVE  WebInv'
<1>1. /\ tabOp' \in [TabSessions -> TabOps]
      /\ \A s \in TabSessions : tabOp'[s].via = 0
                                \/ (tabOp'[s].via = tabOp[s].via /\ tabOp[s].via # c)
  <2>1. Web!Idle \in TabOps /\ Web!Idle.via = 0
    BY ServicesAssumptions DEF Web!Idle, TabOps, ServicesAssumptions
  <2>2. tabOp' = [s \in TabSessions |-> IF tabOp[s].via = c THEN Web!Idle ELSE tabOp[s]]
    BY DEF Web!OpsAfter
  <2> QED
    BY <2>1, <2>2 DEF WebInv, WebTyped
<1>2. \A d \in 1..MaxConnections : d # c => conn'[d] = conn[d]
  BY DEF WebInv, WebTyped
<1>3. conn' \in [1..MaxConnections -> {"none", "open", "closing", "closed"}]
  BY DEF WebInv, WebTyped
<1>4. \A s \in TabSessions : tabOp[s].via \in 0..MaxConnections
  BY DEF WebInv, WebTyped, TabOps
<1>5. client' \in 0..MaxConnections
  BY ServicesAssumptions DEF WebInv, WebTyped, ServicesAssumptions
<1>6. \A s \in TabSessions : Answers(tabOp[s].via)'
  BY <1>1, <1>2, <1>4 DEF WebInv, Answers
<1>7. Answers(client)'
  BY <1>2 DEF WebInv, WebTyped, Answers
<1> QED
  BY <1>1, <1>3, <1>5, <1>6, <1>7 DEF WebInv, WebTyped

\* A command begins, goes on by the client there is, or is over.
LEMMA CommandKeeps ==
    ASSUME WebInv, NEW s \in TabSessions, UNCHANGED <<client, conn>>,
           NEW at \in {"none", "create", "attach", "restore", "close", "page"},
           NEW via \in {0, client}, tabOp' = [tabOp EXCEPT ![s] = [at |-> at, via |-> via]]
    PROVE  WebInv'
<1>1. [at |-> at, via |-> via] \in TabOps
  BY ServicesAssumptions DEF TabOps, WebInv, WebTyped, ServicesAssumptions
<1> QED
  BY <1>1 DEF WebInv, WebTyped, Answers

LEMMA WebNext ==
    ASSUME WebInv, Web!Next \/ UNCHANGED WebVars
    PROVE  WebInv'
<1>1. ASSUME UNCHANGED <<client, conn, tabOp>> PROVE WebInv'
  BY <1>1 DEF WebInv, WebTyped, Answers
<1>2. ASSUME Web!ConnectDone PROVE WebInv'
  BY <1>2, ConnectionKeeps DEF Web!ConnectDone
<1>3. ASSUME Web!ReconnectDone PROVE WebInv'
  BY <1>3, ConnectionKeeps DEF Web!ReconnectDone
<1>4. ASSUME NEW c \in 1..MaxConnections, Web!Drop(c) PROVE WebInv'
  BY <1>4 DEF Web!Drop, WebInv, WebTyped, Answers
<1>5. ASSUME NEW c \in 1..MaxConnections, Web!OnClose(c) PROVE WebInv'
  BY <1>5, ConnectionGoes DEF Web!OnClose
<1>6. ASSUME Web!DelayEnds PROVE WebInv'
  <2>1. CASE UNCHANGED <<client, conn, tabOp>>
    BY <1>1, <2>1
  <2>2. CASE client # 0 /\ Web!CloseClient
    <3>1. client \in 1..MaxConnections
      BY <2>2, ServicesAssumptions DEF WebInv, WebTyped, ServicesAssumptions
    <3>2. client' = 0 /\ tabOp' = Web!OpsAfter(client)
      BY <2>2 DEF Web!CloseClient
    <3>3. conn' = [conn EXCEPT ![client] = IF conn[client] = "open" THEN "closing"
                                                                    ELSE conn[client]]
      BY <2>2 DEF Web!CloseClient
    <3>4. conn' = conn \/ conn' = [conn EXCEPT ![client] = "closing"]
      BY <3>1, <3>3 DEF WebInv, WebTyped
    <3> QED
      BY <3>1, <3>2, <3>4, ConnectionGoes
  <2> QED
    BY <1>6, <2>1, <2>2 DEF Web!DelayEnds, Web!CloseClient
<1>7. ASSUME NEW s \in TabSessions, Web!CreateTab(s) \/ Web!CloseTab(s) \/ Web!RestoreAttachment(s)
                                    \/ Web!PageCommand(s)
      PROVE  WebInv'
  <2>1. UNCHANGED <<client, conn>>
    BY <1>7 DEF Web!CreateTab, Web!CloseTab, Web!RestoreAttachment, Web!PageCommand
  <2>2. \/ tabOp' = tabOp
        \/ \E at \in {"create", "close", "restore", "page"} :
               tabOp' = [tabOp EXCEPT ![s] = [at |-> at, via |-> client]]
    BY <1>7 DEF Web!CreateTab, Web!CloseTab, Web!RestoreAttachment, Web!PageCommand, Web!StartOp
  <2> QED
    BY <1>1, <2>1, <2>2, CommandKeeps
<1>8. ASSUME NEW s \in TabSessions, Web!TargetMade(s) \/ Web!TabAttached(s) \/ Web!TabClosed(s)
                                    \/ Web!TabForgotten(s) \/ Web!PageAnswers(s)
      PROVE  WebInv'
  <2>1. UNCHANGED <<client, conn>>
    BY <1>8 DEF Web!TargetMade, Web!TabAttached, Web!TabClosed, Web!TabForgotten, Web!PageAnswers
  <2>2. Web!Idle = [at |-> "none", via |-> 0]
    BY DEF Web!Idle
  <2>3. [tabOp EXCEPT ![s].via = client] = [tabOp EXCEPT ![s] = [at |-> tabOp[s].at, via |-> client]]
    <3>1. tabOp[s] \in TabOps /\ tabOp = [tabOp EXCEPT ![s] = tabOp[s]]
      BY DEF WebInv, WebTyped
    <3>2. [tabOp[s] EXCEPT !.via = client] = [at |-> tabOp[s].at, via |-> client]
      BY <3>1 DEF TabOps
    <3> QED
      BY <3>1, <3>2
  <2>4. \E at \in {"none", "attach", "page"}, via \in {0, client} :
            tabOp' = [tabOp EXCEPT ![s] = [at |-> at, via |-> via]]
    BY <1>8, <2>2, <2>3
       DEF Web!TargetMade, Web!TabAttached, Web!TabClosed, Web!TabForgotten, Web!PageAnswers
  <2> QED
    BY <2>1, <2>4, CommandKeeps
<1>9. ASSUME Web!Connect \/ Web!ConnectFails \/ Web!HealthCheckFails \/ Web!ReconnectFails
             \/ \E s \in TabSessions : Web!ReattachDone(s)
      PROVE  UNCHANGED <<client, conn, tabOp>>
  BY <1>9 DEF Web!Connect, Web!ConnectFails, Web!HealthCheckFails, Web!ReconnectFails,
              Web!ReattachDone
<1>10. ASSUME UNCHANGED WebVars PROVE UNCHANGED <<client, conn, tabOp>>
  BY <1>10 DEF WebVars
<1> QED
  BY <1>1, <1>2, <1>3, <1>4, <1>5, <1>6, <1>7, <1>8, <1>9, <1>10 DEF Web!Next, Web!Clients

LEMMA NoneStranded == WebInv => Web!NoCommandIsStranded
BY DEF WebInv, Answers, Web!NoCommandIsStranded

\* For any extensions, commands, polls, connections and sessions: an open poll finds no
\* command of its client in the queue, whatever polls were broken, answered late or
\* overtaken by restarts (WebridgeRuntime); and a browser command waits only for a
\* connection that can still answer or fail, whatever connections drop and are replaced
\* under it (BrowserRuntime).
THEOREM NobodyIsLeftWaiting == ServicesSpec => []NobodyWaitsInVain
<1>1. ServicesInit => BridgeInv /\ WebInv
  BY BridgeInit, WebInit DEF ServicesInit
<1>2. BridgeInv /\ WebInv /\ [ServicesNext]_vars => (BridgeInv /\ WebInv)'
  BY BridgeNext, WebNext, Steps
<1>3. BridgeInv /\ WebInv => NobodyWaitsInVain
  BY PollsFindNothing, NoneStranded DEF NobodyWaitsInVain
<1> QED
  BY <1>1, <1>2, <1>3, PTL DEF ServicesSpec

\* For any extensions, commands and polls, through broken polls, repeated results,
\* time-outs and restarts: a command is executed at most once, its sender gets one
\* outcome, and "ok" only of one that was executed (WebridgeRuntime); and for any shell
\* commands: a task that the thread calls over is never running again
\* (shell-task-store.ts).
THEOREM WhatIsOverStaysOver == ServicesSpec => OverStaysOver
<1>1. ServicesInit => BridgeInv /\ EvidenceInv
  BY BridgeInit, EvidenceInit DEF ServicesInit
<1>2. BridgeInv /\ EvidenceInv /\ [ServicesNext]_vars => (BridgeInv /\ EvidenceInv)'
  BY BridgeNext, EvidenceNext, Steps
<1> DEFINE Once == /\ \A c \in WebCommands : outcome[c] # "none" => outcome'[c] = outcome[c]
                   /\ \A c \in WebCommands : outcome'[c] = "ok" => c \in Bridge!Range(done)
                   /\ Bridge!IsInjective(done')
           Over == \A c \in ShellCommands : told[c] \in Evidence!Over => told'[c] \in Evidence!Over
<1>3. BridgeInv /\ EvidenceInv /\ [ServicesNext]_vars => Once /\ Over
  <2>1. SettlesOnce => Once
    BY DEF SettlesOnce, Executed, Distinct, Bridge!Range, Bridge!IsInjective
  <2>2. StaysOver => Over
    BY DEF StaysOver, Evidence!Over
  <2> QED
    BY <2>1, <2>2, BridgeNext, EvidenceNext, Steps
<1> HIDE DEF Once, Over
<1>4. ServicesSpec => [][Once]_(Bridge!vars) /\ [][Over]_(Evidence!evidenceVars)
  BY <1>1, <1>2, <1>3, PTL DEF ServicesSpec
<1> QED
  BY <1>4 DEF OverStaysOver, Bridge!CommandsSettleOnce, Evidence!OverStaysOver, Once, Over
=============================================================================
