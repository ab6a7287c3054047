----------------------------- MODULE MCOwnership -----------------------------
(***************************************************************************)
(* SessionCore with a history variable: what blocked each session last.    *)
(***************************************************************************)
EXTENDS MCSessionCore

VARIABLE cause   \* the runtime that blocked the session last, or "other"

ownershipVars == <<vars, cause>>

\* The runtime whose loop blocks s in this step, if one does.
BlockedBy(s) ==
    LET rs == {r \in Runtimes : <<s, r>> \in todo \ todo'}
    IN  IF sweep = "block" /\ rs # {} THEN CHOOSE r \in rs : TRUE ELSE "other"

OwnershipInit == Init /\ cause = [s \in Sessions |-> "other"]

OwnershipNext ==
    /\ Next
    /\ cause' = [s \in Sessions |-> IF status[s] # "blocked" /\ status'[s] = "blocked"
                                    THEN BlockedBy(s) ELSE cause[s]]

OwnershipSpec == OwnershipInit /\ [][OwnershipNext]_ownershipVars

\* forge_agent_v_2_architecture_spec.md: the core re-dispatches the sessions a
\* runtime blocked when that runtime recovers; any other blocked session waits
\* for the user (runtime-manager.ts, #recoverAffectedSessions).
RecoversOnlyWhatItBlocked ==
    [][\A s \in Sessions :
          (sweep = "recover" /\ status[s] = "blocked" /\ status'[s] = "running")
              => <<s, cause[s]>> \in todo]_ownershipVars

=============================================================================
