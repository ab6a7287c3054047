--------------------------- MODULE PermissionBroker ---------------------------
(***************************************************************************)
(* ToolPolicyManager and PermissionBroker for one session: every tool call *)
(* is authorized before its handler runs; what the policy neither allows   *)
(* nor denies becomes a request that a user answers, that times out, that  *)
(* an interrupt or a shutdown aborts, or that free mode approves.          *)
(*                                                                         *)
(* A call asks for one input; what the policy asks of an input (is it      *)
(* read-only, does its command parse as safe, is its path sensitive) is    *)
(* the class of the input.                                                 *)
(***************************************************************************)
EXTENDS Naturals, FiniteSets

CONSTANTS Calls,  \* tool calls, each made once
          Inputs, \* which of the classes below the calls use
          MaxGrants, \* bound on the grants at a time
          Rules   \* the configured rule for a class: "none", "allow", "ask" or "deny"

VARIABLES
    call,     \* each call: its input and how far it is
    pending,  \* #pending, the calls whose request is open
    answers,  \* how many permission_response events each call has
    allowed,  \* #sessionAllowances
    grants,   \* #grants (kind and scope)
    plan,     \* #planModeSessions
    free      \* #dangerouslyAllowedSessions

vars == <<call, pending, answers, allowed, grants, plan, free>>

\* The classes of inputs the policy tells apart.
Classes == {"read", "edit", "outside", "sensitive", "safe", "shell", "install",
            "destroy", "task", "mcp"}
GrantKinds == {"workspace_edits", "safe_commands", "package_install"}

\* Scopes: the whole session, or the branch the turn is on (or another one).
Scopes == {"session", "here", "elsewhere"}

Init ==
    /\ call = [c \in Calls |-> [input |-> "read", at |-> "new", interactive |-> TRUE]]
    /\ pending = {} /\ answers = [c \in Calls |-> 0]
    /\ allowed = {} /\ grants = {}
    /\ plan = FALSE /\ free = FALSE

-----------------------------------------------------------------------------
(* The policy.                                                             *)

\* readOnlyInPlanMode() and the tools of the plan itself.
ReadOnlyInPlanMode == {"read"}

\* #hasGrant(): a grant of the whole session or of the branch of the call.
HasGrant(kind) == \E s \in {"session", "here"} : <<kind, s>> \in grants

\* The grants an input can be allowed by; an edit must be inside the sandbox.
Covered(x) ==
    \/ x = "edit" /\ HasGrant("workspace_edits")
    \/ x = "safe" /\ HasGrant("safe_commands")
    \/ x = "install" /\ HasGrant("package_install")

\* What no mode and no grant opens: the plan, a deny rule, destructive commands.
Forbidden(x) ==
    \/ plan /\ x \notin ReadOnlyInPlanMode
    \/ Rules[x] = "deny"
    \/ x = "destroy"

\* What the default policy allows when nothing before it decides.
AllowedByDefault == {"read", "edit", "safe", "task"}

\* Mutant: free mode is looked at first.
evaluateFreeFirst(x) ==
    IF free \/ x \in allowed THEN "allow" ELSE IF Forbidden(x) THEN "deny" ELSE "ask"

\* evaluate(): the first rule that applies decides.
evaluate(x) ==
    IF Forbidden(x) THEN "deny"
    ELSE IF x = "sensitive" THEN "ask"
    ELSE IF x \in allowed \/ Covered(x) \/ x = "task" \/ free THEN "allow"
    ELSE IF Rules[x] # "none" THEN Rules[x]
    ELSE IF x \in AllowedByDefault THEN "allow" ELSE "ask"

-----------------------------------------------------------------------------
(* Requests.                                                               *)

\* Mutant: a request that is no longer pending is resolved again.
ResolveAlways(cs, decision) ==
    LET go == decision \in {"allow_once", "allow_session"}
    IN  /\ pending' = pending \ cs
        /\ answers' = [c \in Calls |-> IF c \in cs THEN answers[c] + 1 ELSE answers[c]]
        /\ call' = [c \in Calls |-> IF c \in cs
                        THEN [call[c] EXCEPT !.at = IF go THEN "ran" ELSE "refused"] ELSE call[c]]
        /\ UNCHANGED allowed

\* #resolveRequest() and what the waiting authorize() does next: only a
\* request that is pending is resolved; the handler runs, or the call is refused.
Resolve(cs, decision) ==
    LET open == cs \cap pending
        go   == decision \in {"allow_once", "allow_session"}
    IN  /\ pending' = pending \ open
        /\ answers' = [c \in Calls |-> IF c \in open THEN answers[c] + 1 ELSE answers[c]]
        /\ call' = [c \in Calls |-> IF c \in open
                        THEN [call[c] EXCEPT !.at = IF go THEN "ran" ELSE "refused"] ELSE call[c]]
        /\ allowed' = IF decision = "allow_session"
                      THEN allowed \cup {call[c].input : c \in open} ELSE allowed

\* authorize(): a request of a turn nobody watches is refused at once.
Authorize(c, x, interactive) ==
    LET ask == evaluate(x) = "ask"
    IN  /\ call[c].at = "new"
        /\ call' = [call EXCEPT ![c] =
             [input |-> x, interactive |-> interactive,
              at |-> IF ask THEN IF interactive THEN "asked" ELSE "refused"
                     ELSE IF evaluate(x) = "allow" THEN "ran" ELSE "refused"]]
        /\ pending' = IF ask /\ interactive THEN pending \cup {c} ELSE pending
        /\ answers' = IF ask /\ ~interactive THEN [answers EXCEPT ![c] = @ + 1] ELSE answers
        /\ UNCHANGED <<allowed, grants, plan, free>>

Asked(c) == call[c].at \notin {"new"} /\ call[c].interactive

\* respondToPermissionRequest(), from any of the user's devices: it throws for
\* a request that is not pending.
Respond(c, decision) ==
    /\ c \in pending
    /\ Resolve({c}, decision)
    /\ UNCHANGED <<grants, plan, free>>

\* Mutant: the timer is set only when nobody watches the turn.
TimesOutUnwatched(c) ==
    /\ c \in pending /\ ~call[c].interactive
    /\ Resolve({c}, "timeout")
    /\ UNCHANGED <<grants, plan, free>>

\* The timer of the request, which an answer clears.
TimesOut(c) ==
    /\ c \in pending
    /\ Resolve({c}, "timeout")
    /\ UNCHANGED <<grants, plan, free>>

\* The abort listener of a call, when its turn is interrupted (the calls of a
\* turn share the signal); abortAll() does the same at a shutdown.
Abort(cs) ==
    /\ cs # {} /\ \A c \in cs : Asked(c)
    /\ Resolve(cs, "aborted")
    /\ UNCHANGED <<grants, plan, free>>

\* setSessionDangerousToolApproval(): what is pending is approved for the session.
SetFreeMode(on) ==
    /\ free' = on
    /\ IF on THEN Resolve(pending, "allow_session")
             ELSE UNCHANGED <<call, pending, answers, allowed>>
    /\ UNCHANGED <<grants, plan>>

SetPlanMode(on) ==
    /\ plan' = on
    /\ UNCHANGED <<call, pending, answers, allowed, grants, free>>

\* createPermissionGrant()
CreateGrant(kind, scope) ==
    /\ Cardinality(grants) < MaxGrants
    /\ grants' = grants \cup {<<kind, scope>>}
    /\ UNCHANGED <<call, pending, answers, allowed, plan, free>>

\* revokePermissionGrant(), or the grant's time is over (#expireOldGrants).
EndGrant(g) ==
    /\ grants' = grants \ {g}
    /\ UNCHANGED <<call, pending, answers, allowed, plan, free>>

Next ==
    \/ \E c \in Calls, x \in Inputs, i \in BOOLEAN : Authorize(c, x, i)
    \/ \E c \in Calls, d \in {"allow_once", "allow_session", "deny"} : Respond(c, d)
    \/ \E c \in Calls : TimesOut(c)
    \/ \E cs \in SUBSET Calls : Abort(cs)
    \/ \E on \in BOOLEAN : SetFreeMode(on)
    \/ \E on \in BOOLEAN : SetPlanMode(on)
    \/ \E k \in GrantKinds, s \in Scopes : CreateGrant(k, s)
    \/ \E g \in grants : EndGrant(g)

Spec == Init /\ [][Next]_vars

\* The event loop fires the timer of a request that nobody answers.
Progress == \E c \in Calls : TimesOut(c)

BrokerFairness == WF_vars(Progress)

-----------------------------------------------------------------------------
(* Properties.                                                             *)

\* PermissionBroker: answers, timeouts, interrupts and free mode race for a
\* request.  It gets one answer, and what its call did then never changes.
ResolvedOnce ==
    [][\A c \in Calls :
        /\ answers'[c] <= 1
        /\ call[c].at \in {"ran", "refused"} => call'[c] = call[c]]_vars

\* ToolPolicyManager: hard-denied commands and denied rules hold in every
\* mode, and nothing new that writes runs in plan mode, whatever was allowed,
\* granted or set free before.  A request asked before plan mode may be
\* answered in it.
HardDenied ==
    [][\A c \in Calls : call[c].at # "ran" /\ call'[c].at = "ran" =>
         /\ call'[c].input # "destroy" /\ Rules[call'[c].input] # "deny"
         /\ plan /\ call[c].at = "new" => call'[c].input \in ReadOnlyInPlanMode]_vars

\* No call waits for a permission.  With []<>: a call that waits goes on some day;
\* the user may never answer, the timer does.  Each call is made once.
NoRequestWaits == pending = {}
=============================================================================
