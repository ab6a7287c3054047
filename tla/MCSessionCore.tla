---------------------------- MODULE MCSessionCore ----------------------------
(***************************************************************************)
(* SessionCore for TLC: the owners of the triggers, and the symmetry of    *)
(* sessions that have no triggers.                                         *)
(***************************************************************************)
EXTENDS SessionCore, TLC

CONSTANTS s1, t1, t2

\* No trigger at all.
NoOwner == <<>>

\* All triggers belong to one session.
OwnerIsS1 == [t \in Triggers |-> s1]

SessionSymmetry == Permutations(Sessions)

=============================================================================
