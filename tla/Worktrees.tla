------------------------------ MODULE Worktrees ------------------------------
(***************************************************************************)
(* The worktree tools: enter_worktree, commit_worktree, merge_worktree and *)
(* exit_worktree.  Every git command is a step of its own, between which   *)
(* the tools of other sessions, background subagents and the user change   *)
(* the same trees; an abort kills the tool between two commands.           *)
(*                                                                         *)
(* Git is modelled by what the tools rely on: remove without --force       *)
(* refuses a tree with changes, merge may leave conflicts in the tree, and *)
(* branches outlive their trees.  A tag or a hash that is checked out      *)
(* detaches HEAD; what is committed there is on no branch, and is lost     *)
(* when HEAD moves on or the tree goes.  Files that git ignores do not     *)
(* count, and target_branch is taken for a ref, not for a path, whose      *)
(* changes git checkout would drop.                                        *)
(***************************************************************************)
EXTENDS Naturals, FiniteSets

CONSTANTS WorkSessions, \* the sessions that call the tools
          Places,       \* the paths of worktrees; "main" is the repository
          MaxWork       \* bound on the changes that are made

VARIABLES
    tree,     \* what is at each path: the branch or Detached, what is committed on a
              \* detached HEAD, and the changes not committed
    branches, \* the changes that are committed on each branch; the absent are not there
    treeTool, \* what each session's tool does
    made,     \* the changes made so far
    given,    \* the changes whose loss the user has agreed to
    left      \* the changes on no branch that a detached HEAD has left behind

treeVars == <<tree, branches, treeTool, made, given, left>>

Paths == Places \cup {"main"}
Branches == Places \cup {"main"}   \* the branch that is made for a path has its name
Detached == "detached"
At(b) == [on |-> b, head |-> {}, work |-> {}]
Gone == At("none")
Free == [tool |-> "none", step |-> "none", path |-> "main", into |-> "main", from |-> "main"]
There(p) == tree[p].on # "none"
Clean(p) == tree[p].work = {}
Committed == UNION {branches[b] : b \in DOMAIN branches}
HeadOf(p) == IF tree[p].on = Detached THEN tree[p].head ELSE branches[tree[p].on]
LeavesHead(p, head) == left' = left \cup (tree[p].head \ (Committed \cup head))

Init ==
    /\ tree = [p \in Paths |-> IF p = "main" THEN At("main") ELSE Gone]
    /\ branches = [b \in {"main"} |-> {}]
    /\ treeTool = [s \in WorkSessions |-> Free]
    /\ made = {} /\ given = {} /\ left = {}

\* The tool has returned, whether it succeeded or recorded its failure.
Return(s) == treeTool' = [treeTool EXCEPT ![s] = Free]
Next1(s, step) == treeTool' = [treeTool EXCEPT ![s].step = step]
Call(s, call) == treeTool[s] = Free /\ treeTool' = [treeTool EXCEPT ![s] = call]

-----------------------------------------------------------------------------
\* A tree that is there is resumed, whatever branch it is on; otherwise it is added, on
\* its branch if that is left from before.  git runs in r, the root of the session's turn:
\* its project, or whatever tree the turn has entered, so that any tree may be one; without
\* its root, which exit_worktree may have removed, the session enters nothing.
EnterWorktree(s, p, r) ==
    /\ treeTool[s] = Free /\ There(r) /\ ~There(p)
    /\ \A q \in Paths : tree[q].on # p   \* git: a branch has one tree
    /\ tree' = [tree EXCEPT ![p] = At(p)]
    /\ branches' = IF p \in DOMAIN branches THEN branches
                   ELSE [b \in DOMAIN branches \cup {p} |->
                            IF b = p THEN HeadOf(r) ELSE branches[b]]
    /\ UNCHANGED <<treeTool, made, given, left>>

\* A tool or the user changes files of a tree.
Edit(p) ==
    /\ There(p) /\ Cardinality(made) < MaxWork
    /\ LET c == Cardinality(made) + 1
       IN  made' = made \cup {c} /\ tree' = [tree EXCEPT ![p].work = @ \cup {c}]
    /\ UNCHANGED <<branches, treeTool, given, left>>

-----------------------------------------------------------------------------
(* commit_worktree                                                         *)

\* git status; a clean tree is refused.
CommitCall(s, p) ==
    /\ There(p) /\ ~Clean(p)
    /\ Call(s, [Free EXCEPT !.tool = "commit", !.step = "commit", !.path = p])
    /\ UNCHANGED <<tree, branches, made, given, left>>

\* git add -A and git commit take what is there by then, conflicts included, onto the
\* branch or a detached HEAD.
CommitWorktree(s) ==
    LET p == treeTool[s].path
        b == tree[p].on
    IN  /\ treeTool[s].tool = "commit" /\ Return(s)
        /\ \/ /\ There(p) /\ ~Clean(p) /\ b # Detached
              /\ branches' = [branches EXCEPT ![b] = @ \cup tree[p].work]
              /\ tree' = [tree EXCEPT ![p].work = {}]
           \/ /\ There(p) /\ ~Clean(p) /\ b = Detached
              /\ tree' = [tree EXCEPT ![p].head = @ \cup tree[p].work, ![p].work = {}]
              /\ UNCHANGED branches
           \/ (There(p) => Clean(p)) /\ UNCHANGED <<tree, branches>>
        /\ UNCHANGED <<made, given, left>>

-----------------------------------------------------------------------------
(* exit_worktree                                                           *)

\* checkWorktreeCanBeRemoved(): a tree that is not clean is kept, unless the user
\* has agreed to discard its changes.  With keep = true nothing happens to it.
ExitCall(s, p, discard) ==
    /\ There(p) /\ p # "main" /\ (Clean(p) \/ discard)
    /\ Call(s, [Free EXCEPT !.tool = IF discard THEN "discard" ELSE "exit", !.step = "remove", !.path = p])
    /\ UNCHANGED <<tree, branches, made, given, left>>

\* Mutant: every tree is removed with --force.
RemoveForced(p, force) == tree' = [tree EXCEPT ![p] = Gone] /\ LeavesHead(p, {})

\* git worktree remove, with --force or without; rmSync finds nothing left then.
\* What is written to the path between the two, of no tree any more, is not modelled.
Remove(p, force) ==
    \/ /\ force \/ Clean(p)
       /\ tree' = [tree EXCEPT ![p] = Gone] /\ LeavesHead(p, {})
    \/ /\ ~force /\ ~Clean(p)
       /\ UNCHANGED <<tree, left>>

ExitWorktree(s) ==
    LET p == treeTool[s].path
        force == treeTool[s].tool = "discard"
    IN  /\ treeTool[s].tool \in {"exit", "discard"}
        /\ IF There(p) THEN Remove(p, force) ELSE UNCHANGED <<tree, left>>
        /\ given' = IF force THEN given \cup tree[p].work ELSE given
        /\ Return(s)
        /\ UNCHANGED <<branches, made>>

-----------------------------------------------------------------------------
(* merge_worktree                                                          *)

\* Both trees have to be clean; the source, which must have a branch, is looked at first.
SourceClean(p) == There(p) /\ Clean(p)
TargetClean(p) == There(p) /\ Clean(p)

MergeCall(s, p, q) ==
    /\ p # q /\ SourceClean(p) /\ tree[p].on # Detached
    /\ Call(s, [tool |-> "merge", step |-> "target", path |-> p, into |-> q, from |-> tree[p].on])
    /\ UNCHANGED <<tree, branches, made, given, left>>

MergeTarget(s) ==
    /\ treeTool[s].step = "target"
    /\ IF TargetClean(treeTool[s].into) THEN Next1(s, "checkout") ELSE Return(s)
    /\ UNCHANGED <<tree, branches, made, given, left>>

\* HEAD of a tree moves, and changes that came since move with it.
HeadMoves(q, on, head) ==
    tree' = [tree EXCEPT ![q].on = on, ![q].head = head] /\ LeavesHead(q, head)

\* git checkout of target_branch: a branch that no other tree is on; a tag or a hash, which
\* detaches HEAD; refused, which ends the tool; or not called at all, when the target
\* has no branch and none was asked for.
MergeCheckout(s) ==
    LET q == treeTool[s].into
    IN  /\ treeTool[s].step = "checkout"
        /\ \/ /\ There(q) /\ Next1(s, "merge")
              /\ \/ \E b \in DOMAIN branches :
                       (\A r \in Paths \ {q} : tree[r].on # b) /\ HeadMoves(q, b, {})
                 \/ \E b \in DOMAIN branches : HeadMoves(q, Detached, branches[b])
                 \/ \E r \in Paths : HeadMoves(q, Detached, tree[r].head)
                 \/ tree[q].on = Detached /\ UNCHANGED <<tree, left>>
           \/ Return(s) /\ UNCHANGED <<tree, left>>
        /\ UNCHANGED <<branches, made, given>>

\* git merge of the branch the source was on: done, refused, or stopped at a conflict, which
\* leaves the target with the source's changes, not committed.
MergeBranch(s) ==
    LET t == treeTool[s]
        b == tree[t.into].on
    IN  /\ t.step = "merge"
        /\ \/ /\ There(t.into)
              /\ \/ /\ b # Detached /\ UNCHANGED tree
                    /\ branches' = [branches EXCEPT ![b] = @ \cup branches[t.from]]
                 \/ /\ b = Detached /\ UNCHANGED branches
                    /\ tree' = [tree EXCEPT ![t.into].head = @ \cup branches[t.from]]
              /\ Next1(s, "remove") \/ Return(s)   \* with remove_after_merge or without
           \/ /\ There(t.into)
              /\ tree' = [tree EXCEPT ![t.into].work = @ \cup (branches[t.from] \ HeadOf(t.into))]
              /\ Return(s) /\ UNCHANGED branches
           \/ Return(s) /\ UNCHANGED <<tree, branches>>
        /\ UNCHANGED <<made, given, left>>

\* What remove_after_merge adds.
MergeRemove(s) ==
    LET p == treeTool[s].path
    IN  /\ treeTool[s].tool = "merge" /\ treeTool[s].step = "remove"
        /\ IF There(p) /\ p # "main" THEN Remove(p, FALSE) ELSE UNCHANGED <<tree, left>>
        /\ Return(s)
        /\ UNCHANGED <<branches, made, given>>

-----------------------------------------------------------------------------
\* The signal kills the git command, and the tool with it.
ToolAborted(s) ==
    /\ treeTool[s] # Free /\ Return(s)
    /\ UNCHANGED <<tree, branches, made, given, left>>

Next ==
    \/ \E s \in WorkSessions, p \in Places, r \in Paths : EnterWorktree(s, p, r)
    \/ \E s \in WorkSessions : CommitWorktree(s) \/ ExitWorktree(s)
    \/ \E p \in Paths : Edit(p)
    \/ \E s \in WorkSessions, p \in Paths : CommitCall(s, p)
    \/ \E s \in WorkSessions, p \in Places, discard \in BOOLEAN : ExitCall(s, p, discard)
    \/ \E s \in WorkSessions, p, q \in Paths : MergeCall(s, p, q)
    \/ \E s \in WorkSessions :
           MergeTarget(s) \/ MergeCheckout(s) \/ MergeBranch(s) \/ MergeRemove(s) \/ ToolAborted(s)

TreeSpec == Init /\ [][Next]_treeVars

-----------------------------------------------------------------------------
Kept == Committed \cup UNION {tree[p].head \cup tree[p].work : p \in Paths}

\* exit_worktree "is fail-closed" and merge_worktree takes clean trees only: whatever
\* other sessions do between the check and the removal, no change is gone from every
\* tree and every branch, unless the user has agreed to it or it was committed on a
\* detached HEAD that was left behind.
NoWorkIsLost == made \ (given \cup left) \subseteq Kept

\* What commit_worktree has committed is not lost.  The code does not satisfy it, and no
\* run checks it: README, Deviations.
NoCommitIsLost == left \ given \subseteq Kept
=============================================================================
