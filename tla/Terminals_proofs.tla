--------------------------- MODULE Terminals_proofs ---------------------------
(***************************************************************************)
(* Why the tabs of the console show what their terminals have put out: the *)
(* inductive invariant of Terminals; and, with those of Console_proofs,    *)
(* the theorem that the console is faithful.                               *)
(***************************************************************************)
EXTENDS Console_proofs

-----------------------------------------------------------------------------
(* The console: Terminals.                                                 *)

TermStates == [process : {"none", "running", "exited"}, known : BOOLEAN, next : Nat \ {0}]
FeedStates == [of : Terms, after : Nat, state : {"connecting", "open", "silent", "gone"},
               wire : Seq(Nat)]
TargetedSteps == {"snapshot", "merge", "created", "token", "delete", "deleted", "write", "stop"}
ShellSteps == TargetedSteps \cup {"none", "create", "list", "listed"}
ShellTasks == {"none", "activate", "create", "close", "send", "restart"}
OpStates == [does : ShellTasks, on : Terms \cup {"none"}, at : ShellSteps, after : Nat,
             old : Terms \cup {"none"}, slot : Nat \ {0}, events : [Terms -> SUBSET Nat]]

TermOK(x) == (x.known => x.process # "none") /\ (x.process = "none" <=> x.next = 1)
\* An operation is about a terminal that was started; its events are of it.
OpTyped(c, T) ==
    /\ \A t \in Terms : c.events[t] \subseteq 1..(T[t].next - 1)
    /\ c.at \in TargetedSteps => c.on \in Terms
    /\ c.at = "listed" => \E t \in Terms : c.events[t] # {}
    /\ c.on \in Terms => T[c.on].process # "none"
FeedTyped(f, T) ==
    /\ T[f.of].process # "none"
    /\ \A i \in 1..Len(f.wire) : f.wire[i] \in 1..(T[f.of].next - 1)
TabsTyped ==
    /\ tabStrip \in Seq(Terms) /\ \A i \in 1..Len(tabStrip) : terminal[tabStrip[i]].process # "none"
    /\ output \in [Terms -> SUBSET Nat]
    /\ \A t \in Terms : output[t] \subseteq 1..(terminal[t].next - 1)
    /\ front \in Terms \cup {"none"} /\ (front \in Terms => terminal[front].process # "none")
TermsTyped ==
    /\ terminal \in [Terms -> TermStates] /\ \A t \in Terms : TermOK(terminal[t])
ShellTyped ==
    /\ TermsTyped /\ TabsTyped
    /\ termOp \in [TermOps -> OpStates] /\ \A o \in TermOps : OpTyped(termOp[o], terminal)
    /\ feeds \in Seq(FeedStates) /\ \A n \in 1..Len(feeds) : FeedTyped(feeds[n], terminal)
    /\ replaced \in BOOLEAN

\* What the tab of a terminal shows, if it has one.
ShownNow == [t \in Terms |-> IF Shells!HasTab(t) THEN output[t] ELSE {}]
NotDeleted(T, t) == T[t].process = "none" \/ T[t].known
\* Of the events before p, S has all that the server still keeps.
CoveredTo(S, next, p) == \A s \in 1..(p - 1) : s \in S \/ s + MaxKept < next
\* S with E added to it has no hole in E.
FillsIn(S, next, E) == \A e \in E : \A s \in 1..e : s \in E \/ s \in S \/ s + MaxKept < next

TabFits(t, S, T) == NotDeleted(T, t) => \A e \in S[t] : CoveredTo(S[t], T[t].next, e)
\* An operation asks for what comes after events that are shown, and brings what follows
\* them; what it has deleted is not there.
OpFits(c, S, T) ==
    /\ c.on \in Terms /\ NotDeleted(T, c.on) => CoveredTo(S[c.on], T[c.on].next, c.after + 1)
    /\ \A t \in Terms : NotDeleted(T, t) => FillsIn(S[t], T[t].next, c.events[t])
    /\ c.at = "deleted" => ~NotDeleted(T, c.on)
    /\ c.old \in Terms => ~NotDeleted(T, c.old)
\* A stream will bring what follows the events that are shown; an open one has all of it
\* on its way.
FeedFits(f, S, T) ==
    NotDeleted(T, f.of) =>
        /\ f.state # "silent"
        /\ f.state = "connecting" => CoveredTo(S[f.of], T[f.of].next, f.after + 1)
        /\ f.state = "open" =>
              /\ Len(f.wire) < T[f.of].next
              /\ \A i \in 1..Len(f.wire) : f.wire[i] = T[f.of].next - Len(f.wire) - 1 + i
              /\ CoveredTo(S[f.of], T[f.of].next, T[f.of].next - Len(f.wire))
ShellSafe ==
    /\ \A t \in Terms : TabFits(t, ShownNow, terminal)
    /\ \A o \in TermOps : OpFits(termOp[o], ShownNow, terminal)
    /\ \A n \in 1..Len(feeds) : FeedFits(feeds[n], ShownNow, terminal)

ShellInv == ShellTyped /\ (replaced \/ ShellSafe)

LEMMA ShownTyped == TabsTyped => ShownNow \in [Terms -> SUBSET Nat]
BY DEF TabsTyped, ShownNow

LEMMA ShellInit == Shells!Init => ShellInv
<1> SUFFICES ASSUME Shells!Init PROVE ShellInv
  OBVIOUS
<1>1. TermsTyped /\ TabsTyped
  <2>1. terminal = [t \in Terms |-> [process |-> "none", known |-> FALSE, next |-> 1]]
        /\ tabStrip = <<>> /\ output = [t \in Terms |-> {}] /\ front = "none"
    BY DEF Shells!Init, Shells!None
  <2> QED
    BY <2>1, EdgesAssumptions DEF TermsTyped, TabsTyped, TermStates, TermOK, EdgesAssumptions
<1>2. feeds = <<>> /\ replaced = FALSE
  BY DEF Shells!Init
<1>3. \A o \in TermOps : /\ termOp[o] \in OpStates /\ OpTyped(termOp[o], terminal)
                         /\ OpFits(termOp[o], ShownNow, terminal)
  <2> SUFFICES ASSUME NEW o \in TermOps
               PROVE  /\ termOp[o] \in OpStates /\ OpTyped(termOp[o], terminal)
                      /\ OpFits(termOp[o], ShownNow, terminal)
    OBVIOUS
  <2>1. termOp[o] = [does |-> "none", on |-> "none", at |-> "none", after |-> 0, old |-> "none",
                     slot |-> 1, events |-> [t \in Terms |-> {}]]
    BY DEF Shells!Init, Shells!Free, Shells!None
  <2>2. termOp[o] \in OpStates
    BY <2>1 DEF OpStates, ShellTasks, ShellSteps
  <2>3. /\ termOp[o].at = "none" /\ termOp[o].on = "none" /\ termOp[o].old = "none"
        /\ \A t \in Terms : termOp[o].events[t] = {}
    BY <2>1
  <2> QED
    BY <2>2, <2>3, EdgesAssumptions
    DEF OpTyped, OpFits, FillsIn, TargetedSteps, EdgesAssumptions
<1>4. termOp \in [TermOps -> OpStates]
  BY <1>3 DEF Shells!Init
<1>5. feeds \in Seq(FeedStates) /\ Len(feeds) = 0
  BY <1>2
<1>6. \A t \in Terms : TabFits(t, ShownNow, terminal)
  BY DEF TabFits, ShownNow, Shells!Init
<1>7. \A n \in 1..Len(feeds) : FALSE
  BY <1>5
<1>8. ShellSafe
  BY <1>3, <1>6, <1>7 DEF ShellSafe
<1>9. ShellTyped
  BY <1>1, <1>2, <1>3, <1>4, <1>5, <1>7 DEF ShellTyped
<1> QED
  BY <1>8, <1>9 DEF ShellInv

LEMMA ShellRests == [EdgesNext]_<<focus, vars, edges>> => [Shells!Next]_TerminalsVars
BY DEF EdgesNext, edges, OthersRest

LEMMA TopIs ==
    ASSUME NEW m \in Nat, NEW E \in SUBSET (1..m)
    PROVE  /\ Shells!Latest(E) \in 0..m /\ \A e \in E : e <= Shells!Latest(E)
           /\ Shells!Latest(E) \in E \/ (Shells!Latest(E) = 0 /\ E = {})
<1>1. CASE E = {}
  <2>1. Shells!Latest(E) \in {0}
    BY <1>1 DEF Shells!Latest
  <2> QED
    BY <1>1, <2>1
<1>2. CASE E # {}
  <2>1. Work!Latest(E) \in E /\ \A k \in E : k <= Work!Latest(E)
    <3> QED
      BY <1>2, LatestIs
  <2>2. \E x \in E : \A y \in E : x >= y
    BY <2>1
  <2>3. Shells!Latest(E) \in E /\ \A y \in E : Shells!Latest(E) >= y
    BY <1>2, <2>2, Zenon DEF Shells!Latest, Shells!Max
  <2>4. Shells!Latest(E) \in 1..m
    BY <2>3
  <2> QED
    BY <2>3, <2>4
<1> QED
  BY <1>1, <1>2

\* The newest events are all but those the server does not keep.
LEMMA NewestIs ==
    ASSUME NEW m \in Nat, NEW E \in SUBSET (1..m)
    PROVE  /\ Shells!Newest(E) \subseteq E
           /\ \A s \in E : s \in Shells!Newest(E) \/ s + MaxKept <= m
<1>1. MaxKept \in Nat
  BY EdgesAssumptions DEF EdgesAssumptions
<1>2. ASSUME NEW s \in E, s + MaxKept > m PROVE s \in Shells!Newest(E)
  <2> DEFINE later == {r \in E : r > s}
  <2>1. later \subseteq (s + 1)..m
    <3>1. ASSUME NEW r \in E, r > s PROVE r \in (s + 1)..m
      <4>1. r \in 1..m /\ s \in 1..m
        OBVIOUS
      <4>2. r \in Int /\ s \in Int
        BY <4>1
      <4>3. r <= m /\ s + 1 <= r
        BY <3>1, <4>1, <4>2
      <4> QED
        BY <4>2, <4>3
    <3> QED
      BY <3>1
  <2>2. s \in 1..m /\ s + 1 \in Int /\ m \in Int
    OBVIOUS
  <2>3. /\ IsFiniteSet((s + 1)..m)
        /\ Cardinality((s + 1)..m) = IF s + 1 > m THEN 0 ELSE m - (s + 1) + 1
    BY <2>2, FS_Interval
  <2>4. Cardinality(later) <= Cardinality((s + 1)..m) /\ Cardinality(later) \in Nat
    <3> HIDE DEF later
    <3> QED
      BY <2>1, <2>3, FS_Subset, FS_CardinalityType
  <2>5. Cardinality((s + 1)..m) <= m - s
    BY <2>2, <2>3
  <2>6. Cardinality(later) < MaxKept
    <3> HIDE DEF later
    <3> QED
      BY <1>1, <1>2, <2>2, <2>3, <2>4, <2>5
  <2>7. Shells!Cardinality(later) = Cardinality(later)
    BY DEF Shells!Cardinality, Cardinality
  <2> QED
    BY <2>6, <2>7 DEF Shells!Newest
<1>3. Shells!Newest(E) \subseteq E
  BY DEF Shells!Newest
<1>4. \A s \in E : s + MaxKept \in Int
  BY <1>1
<1> QED
  BY <1>2, <1>3, <1>4

\* Terminals go on, and what is shown stays, but for what the server no longer keeps.
TermsGrow(T, T2) ==
    \A t \in Terms : T[t].next <= T2[t].next /\ (T[t].process # "none" => T2[t].process # "none")
ShownStays(S, T, S2, T2) ==
    \A t \in Terms : NotDeleted(T2, t) =>
        /\ NotDeleted(T, t) /\ T[t].next <= T2[t].next
        /\ \A s \in S[t] : s \in S2[t] \/ s + MaxKept < T2[t].next

LEMMA CoveredStays ==
    ASSUME NEW S \in SUBSET Nat, NEW S2 \in SUBSET Nat, NEW n \in Nat, NEW n2 \in Nat, n <= n2,
           \A s \in S : s \in S2 \/ s + MaxKept < n2
    PROVE  /\ \A p \in Int : CoveredTo(S, n, p) => CoveredTo(S2, n2, p)
           /\ \A E \in SUBSET Nat : FillsIn(S, n, E) => FillsIn(S2, n2, E)
<1>1. MaxKept \in Nat
  BY EdgesAssumptions DEF EdgesAssumptions
<1>2. ASSUME NEW p \in Int, CoveredTo(S, n, p) PROVE CoveredTo(S2, n2, p)
  BY <1>1, <1>2 DEF CoveredTo
<1>3. ASSUME NEW E \in SUBSET Nat, FillsIn(S, n, E) PROVE FillsIn(S2, n2, E)
  BY <1>1, <1>3 DEF FillsIn
<1> QED
  BY <1>2, <1>3

LEMMA OpFitsStays ==
    ASSUME NEW S \in [Terms -> SUBSET Nat], NEW S2 \in [Terms -> SUBSET Nat],
           NEW T \in [Terms -> TermStates], NEW T2 \in [Terms -> TermStates],
           ShownStays(S, T, S2, T2), NEW c \in OpStates, OpFits(c, S, T),
           c.at \in TargetedSteps => c.on \in Terms
    PROVE  OpFits(c, S2, T2)
<1>1. /\ c.on \in Terms \cup {"none"} /\ c.after + 1 \in Int
      /\ \A t \in Terms : c.events[t] \in SUBSET Nat
  BY DEF OpStates
<1>2. ASSUME NEW t \in Terms, NotDeleted(T2, t)
      PROVE  /\ NotDeleted(T, t)
             /\ \A p \in Int : CoveredTo(S[t], T[t].next, p) => CoveredTo(S2[t], T2[t].next, p)
             /\ \A E \in SUBSET Nat : FillsIn(S[t], T[t].next, E) => FillsIn(S2[t], T2[t].next, E)
  <2>1. T[t].next \in Nat /\ T2[t].next \in Nat
    BY DEF TermStates
  <2>2. /\ NotDeleted(T, t) /\ T[t].next <= T2[t].next
        /\ \A s \in S[t] : s \in S2[t] \/ s + MaxKept < T2[t].next
    BY <1>2 DEF ShownStays
  <2>3. S[t] \in SUBSET Nat /\ S2[t] \in SUBSET Nat
    OBVIOUS
  <2> QED
    BY <2>1, <2>2, <2>3, CoveredStays
<1> QED
  BY <1>1, <1>2 DEF OpFits, TargetedSteps

LEMMA FeedFitsStays ==
    ASSUME NEW S \in [Terms -> SUBSET Nat], NEW S2 \in [Terms -> SUBSET Nat],
           NEW T \in [Terms -> TermStates], NEW T2 \in [Terms -> TermStates],
           ShownStays(S, T, S2, T2), NEW f \in FeedStates, FeedFits(f, S, T),
           f.state = "open" => T2[f.of].next = T[f.of].next
    PROVE  FeedFits(f, S2, T2)
<1> SUFFICES ASSUME NotDeleted(T2, f.of) PROVE FeedFits(f, S2, T2)
  BY DEF FeedFits
<1> DEFINE t == f.of
<1>1. t \in Terms /\ f.after + 1 \in Int /\ Len(f.wire) \in Nat
  BY DEF FeedStates
<1>2. T[t].next \in Nat /\ T2[t].next \in Nat
  BY <1>1 DEF TermStates
<1>3. /\ NotDeleted(T, t) /\ T[t].next <= T2[t].next
      /\ \A s \in S[t] : s \in S2[t] \/ s + MaxKept < T2[t].next
  BY <1>1 DEF ShownStays
<1>4. S[t] \in SUBSET Nat /\ S2[t] \in SUBSET Nat
  BY <1>1
<1>5. \A p \in Int : CoveredTo(S[t], T[t].next, p) => CoveredTo(S2[t], T2[t].next, p)
  <2> DEFINE m == T[t].next
             m2 == T2[t].next
             R == S[t]
             R2 == S2[t]
  <2>1. /\ m \in Nat /\ m2 \in Nat /\ m <= m2 /\ R \in SUBSET Nat /\ R2 \in SUBSET Nat
        /\ \A s \in R : s \in R2 \/ s + MaxKept < m2
    BY <1>2, <1>3, <1>4
  <2> HIDE DEF m, m2, R, R2
  <2>2. \A p \in Int : CoveredTo(R, m, p) => CoveredTo(R2, m2, p)
    BY <2>1, CoveredStays
  <2> QED
    BY <2>2 DEF m, m2, R, R2
<1>6. T[t].next - Len(f.wire) \in Int
  BY <1>1, <1>2
<1> QED
  BY <1>1, <1>3, <1>5, <1>6 DEF FeedFits

\* What a step has to show: of terminals and tabs their types, and of each operation and
\* each stream that it changes what is said above.
LEMMA ShellKeeps ==
    ASSUME ShellInv, TermsTyped', TabsTyped', TermsGrow(terminal, terminal'),
           termOp' \in [TermOps -> OpStates],
           \A o \in TermOps : \/ termOp'[o] = termOp[o]
                              \/ /\ OpTyped(termOp'[o], terminal')
                                 /\ replaced' \/ OpFits(termOp'[o], ShownNow', terminal'),
           feeds' \in Seq(FeedStates),
           \A n \in 1..Len(feeds') :
              \/ /\ n \in 1..Len(feeds) /\ feeds'[n] = feeds[n]
                 /\ feeds[n].state = "open" =>
                       terminal'[feeds[n].of].next = terminal[feeds[n].of].next
              \/ /\ FeedTyped(feeds'[n], terminal')
                 /\ replaced' \/ FeedFits(feeds'[n], ShownNow', terminal'),
           replaced' \in BOOLEAN, replaced => replaced',
           replaced' \/ (/\ ShownStays(ShownNow, terminal, ShownNow', terminal')
                         /\ \A t \in Terms : TabFits(t, ShownNow', terminal'))
    PROVE  ShellInv'
<1>1. /\ terminal \in [Terms -> TermStates] /\ terminal' \in [Terms -> TermStates]
      /\ ShownNow \in [Terms -> SUBSET Nat] /\ ShownNow' \in [Terms -> SUBSET Nat]
      /\ termOp \in [TermOps -> OpStates] /\ feeds \in Seq(FeedStates)
  <2>1. ShownNow' \in [Terms -> SUBSET Nat]
    BY DEF TabsTyped, ShownNow
  <2> QED
    BY <2>1, ShownTyped DEF ShellInv, ShellTyped, TermsTyped
<1>2. \A t \in Terms : terminal[t].next \in Nat /\ terminal'[t].next \in Nat
  BY <1>1 DEF TermStates
<1>3. ASSUME NEW c \in OpStates, OpTyped(c, terminal) PROVE OpTyped(c, terminal')
  <2>1. c.on \in Terms => terminal'[c.on].process # "none"
    BY <1>3 DEF OpTyped, TermsGrow
  <2>2. \A t \in Terms : c.events[t] \subseteq 1..(terminal'[t].next - 1)
    <3> SUFFICES ASSUME NEW t \in Terms, NEW e \in c.events[t]
                 PROVE  e \in 1..(terminal'[t].next - 1)
      OBVIOUS
    <3>1. e \in 1..(terminal[t].next - 1) /\ terminal[t].next <= terminal'[t].next
      BY <1>3 DEF OpTyped, TermsGrow
    <3> QED
      BY <1>2, <3>1
  <2> QED
    BY <1>3, <2>1, <2>2 DEF OpTyped
<1>4. ASSUME NEW f \in FeedStates, FeedTyped(f, terminal) PROVE FeedTyped(f, terminal')
  <2>1. f.of \in Terms /\ terminal[f.of].next <= terminal'[f.of].next
    BY DEF FeedStates, TermsGrow
  <2>2. \A e \in 1..(terminal[f.of].next - 1) : e \in 1..(terminal'[f.of].next - 1)
    BY <1>2, <2>1
  <2> QED
    BY <1>4, <2>1, <2>2 DEF FeedTyped, TermsGrow
<1>5. \A o \in TermOps : OpTyped(termOp'[o], terminal')
  BY <1>1, <1>3 DEF ShellInv, ShellTyped
<1>6. \A n \in 1..Len(feeds) : feeds[n] \in FeedStates
  BY <1>1
<1>7. \A n \in 1..Len(feeds') : FeedTyped(feeds'[n], terminal')
  BY <1>4, <1>6 DEF ShellInv, ShellTyped
<1>8. ShellTyped'
  BY <1>5, <1>7 DEF ShellTyped
<1>9. CASE replaced'
  BY <1>8, <1>9 DEF ShellInv
<1>10. CASE ~replaced'
  <2>1. ShellSafe /\ ShownStays(ShownNow, terminal, ShownNow', terminal')
    BY <1>10 DEF ShellInv
  <2>2. \A o \in TermOps : OpFits(termOp'[o], ShownNow', terminal')
    <3> SUFFICES ASSUME NEW o \in TermOps PROVE OpFits(termOp'[o], ShownNow', terminal')
      OBVIOUS
    <3>1. CASE termOp'[o] = termOp[o]
      <4>1. /\ termOp[o] \in OpStates /\ OpFits(termOp[o], ShownNow, terminal)
            /\ termOp[o].at \in TargetedSteps => termOp[o].on \in Terms
        BY <1>1, <2>1 DEF ShellSafe, ShellInv, ShellTyped, OpTyped
      <4>2. OpFits(termOp[o], ShownNow', terminal')
        BY <1>1, <2>1, <4>1, OpFitsStays
      <4> QED
        BY <3>1, <4>2
    <3> QED
      BY <1>10, <3>1
  <2>3. \A n \in 1..Len(feeds') : FeedFits(feeds'[n], ShownNow', terminal')
    <3> SUFFICES ASSUME NEW n \in 1..Len(feeds')
                 PROVE  FeedFits(feeds'[n], ShownNow', terminal')
      OBVIOUS
    <3>1. CASE /\ n \in 1..Len(feeds) /\ feeds'[n] = feeds[n]
               /\ feeds[n].state = "open" =>
                     terminal'[feeds[n].of].next = terminal[feeds[n].of].next
      <4>1. feeds[n] \in FeedStates /\ FeedFits(feeds[n], ShownNow, terminal)
        BY <1>6, <2>1, <3>1 DEF ShellSafe
      <4>2. FeedFits(feeds[n], ShownNow', terminal')
        BY <1>1, <2>1, <3>1, <4>1, FeedFitsStays
      <4> QED
        BY <3>1, <4>2
    <3> QED
      BY <1>10, <3>1
  <2>4. ShellSafe'
    BY <1>10, <2>2, <2>3 DEF ShellSafe
  <2> QED
    BY <1>8, <2>4 DEF ShellInv
<1> QED
  BY <1>9, <1>10

LEMMA ShellTypes ==
    ASSUME ShellInv
    PROVE  /\ terminal \in [Terms -> TermStates] /\ \A t \in Terms : TermOK(terminal[t])
           /\ \A t \in Terms : terminal[t].next \in Nat \ {0}
           /\ ShownNow \in [Terms -> SUBSET Nat]
           /\ termOp \in [TermOps -> OpStates] /\ \A o \in TermOps : OpTyped(termOp[o], terminal)
           /\ feeds \in Seq(FeedStates) /\ \A n \in 1..Len(feeds) : FeedTyped(feeds[n], terminal)
           /\ TermsTyped /\ TabsTyped /\ replaced \in BOOLEAN /\ (replaced \/ ShellSafe)
<1>1. TermsTyped /\ TabsTyped /\ terminal \in [Terms -> TermStates]
  BY DEF ShellInv, ShellTyped, TermsTyped
<1>2. \A t \in Terms : terminal[t].next \in Nat \ {0}
  BY <1>1 DEF TermStates
<1> QED
  BY <1>1, <1>2, ShownTyped DEF ShellInv, ShellTyped, TermsTyped

LEMMA FreeIs ==
    ASSUME NEW S, NEW T
    PROVE  Shells!Free \in OpStates /\ OpTyped(Shells!Free, T) /\ OpFits(Shells!Free, S, T)
<1>1. Shells!Free = [does |-> "none", on |-> "none", at |-> "none", after |-> 0, old |-> "none",
                     slot |-> 1, events |-> [t \in Terms |-> {}]]
  BY DEF Shells!Free, Shells!None
<1>2. Shells!Free \in OpStates
  BY <1>1 DEF OpStates, ShellTasks, ShellSteps
<1>3. /\ Shells!Free.at = "none" /\ Shells!Free.on = "none" /\ Shells!Free.old = "none"
      /\ \A t \in Terms : Shells!Free.events[t] = {}
  BY <1>1
<1> QED
  BY <1>2, <1>3, EdgesAssumptions
  DEF OpTyped, OpFits, FillsIn, TargetedSteps, EdgesAssumptions

LEMMA SameShown == ASSUME UNCHANGED <<tabStrip, output>> PROVE ShownNow' = ShownNow
BY DEF ShownNow, Shells!HasTab

LEMMA StaysSame ==
    ASSUME ShellInv
    PROVE  /\ TermsGrow(terminal, terminal) /\ ShownStays(ShownNow, terminal, ShownNow, terminal)
BY ShellTypes DEF TermsGrow, ShownStays

\* One operation goes on, and nothing else does but the tab in front.
LEMMA OpKeeps ==
    ASSUME ShellInv, NEW o \in TermOps, NEW c \in OpStates, OpTyped(c, terminal),
           replaced \/ OpFits(c, ShownNow, terminal), termOp' = [termOp EXCEPT ![o] = c],
           UNCHANGED <<terminal, feeds, tabStrip, output, replaced>>,
           front' = front \/ (front' \in Terms /\ terminal[front'].process # "none")
    PROVE  ShellInv'
<1>1. TermsTyped' /\ TabsTyped'
  BY ShellTypes DEF TermsTyped, TabsTyped
<1>2. ShownNow' = ShownNow
  BY SameShown
<1>3. termOp' \in [TermOps -> OpStates] /\ \A p \in TermOps : termOp'[p] = termOp[p] \/ termOp'[p] = c
  BY ShellTypes
<1>4. replaced \/ \A t \in Terms : TabFits(t, ShownNow', terminal')
  BY <1>2 DEF ShellInv, ShellSafe
<1>5. \A n \in 1..Len(feeds') : /\ n \in 1..Len(feeds) /\ feeds'[n] = feeds[n]
                               /\ terminal'[feeds[n].of].next = terminal[feeds[n].of].next
  OBVIOUS
<1>6. /\ TermsGrow(terminal, terminal') /\ ShownStays(ShownNow, terminal, ShownNow', terminal')
      /\ feeds' \in Seq(FeedStates) /\ replaced' \in BOOLEAN
  BY <1>2, StaysSame, ShellTypes
<1>7. \A p \in TermOps : \/ termOp'[p] = termOp[p]
                         \/ /\ OpTyped(termOp'[p], terminal')
                            /\ replaced' \/ OpFits(termOp'[p], ShownNow', terminal')
  BY <1>2, <1>3
<1> QED
  BY <1>1, <1>3, <1>4, <1>5, <1>6, <1>7, ShellKeeps

LEMMA WireIs ==
    ASSUME NEW f \in FeedStates, NEW w \in Seq(Nat), f.state = "open"
    PROVE  /\ [f EXCEPT !.wire = w] \in FeedStates /\ [f EXCEPT !.wire = w].wire = w
           /\ [f EXCEPT !.wire = w].of = f.of /\ [f EXCEPT !.wire = w].state = "open"
BY DEF FeedStates

\* An event is numbered, and all open streams of its terminal get it.
LEMMA PushedIs ==
    ASSUME NEW f \in FeedStates, NEW S \in [Terms -> SUBSET Nat],
           NEW T \in [Terms -> TermStates], NEW T2 \in [Terms -> TermStates],
           ShownStays(S, T, S, T2), FeedTyped(f, T), f.state = "open",
           T2[f.of].process # "none", T2[f.of].next = T[f.of].next + 1,
           NEW f2 \in FeedStates, f2.of = f.of, f2.state = "open",
           f2.wire = Append(f.wire, T[f.of].next)
    PROVE  /\ FeedTyped(f2, T2)
           /\ FeedFits(f, S, T) => FeedFits(f2, S, T2)
<1> DEFINE n == T[f.of].next
           n2 == T2[f.of].next
           w == f.wire
           w2 == Append(w, n)
<1>1. f.of \in Terms /\ n \in Nat \ {0} /\ w \in Seq(Nat) /\ n2 = n + 1
  BY DEF FeedStates, TermStates
<1>2. /\ w2 \in Seq(Nat) /\ Len(w2) = Len(w) + 1 /\ w2[Len(w) + 1] = n /\ Len(w) \in Nat
      /\ \A i \in 1..Len(w) : w2[i] = w[i]
  <2> HIDE DEF n, w
  <2> QED
    BY <1>1
<1>3. f2.wire = w2
  OBVIOUS
<1> HIDE DEF w, w2, n2, n
<1>4. \A i \in 1..Len(w) : w[i] \in 1..(n - 1)
  BY DEF FeedTyped, w, n
<1>5. \A i \in 1..Len(w2) : i \in 1..Len(w) \/ i = Len(w) + 1
  BY <1>2
<1>6. \A i \in 1..Len(w2) : w2[i] \in 1..(n2 - 1)
  <2>1. \A i \in 1..Len(w) : w2[i] \in 1..(n2 - 1)
    <3>1. \A k \in 1..(n - 1) : k \in 1..(n2 - 1)
      BY <1>1
    <3>2. \A i \in 1..Len(w) : w2[i] = w[i]
      BY <1>2
    <3> QED
      BY <1>4, <3>1, <3>2
  <2>2. w2[Len(w) + 1] \in 1..(n2 - 1)
    BY <1>1, <1>2
  <2> QED
    BY <1>5, <2>1, <2>2
<1>7. FeedTyped(f2, T2)
  BY <1>3, <1>6 DEF FeedTyped, n2
<1>8. ASSUME FeedFits(f, S, T) PROVE FeedFits(f2, S, T2)
  <2> SUFFICES ASSUME NotDeleted(T2, f.of) PROVE FeedFits(f2, S, T2)
    BY <1>3 DEF FeedFits
  <2>1. NotDeleted(T, f.of)
    BY <1>1 DEF ShownStays
  <2>2. /\ Len(w) < n /\ \A i \in 1..Len(w) : w[i] = n - Len(w) - 1 + i
        /\ CoveredTo(S[f.of], n, n - Len(w))
    BY <1>8, <2>1 DEF FeedFits, w, n
  <2>3. Len(w2) < n2 /\ n2 - Len(w2) = n - Len(w)
    BY <1>1, <1>2, <2>2
  <2>4. \A i \in 1..Len(w2) : w2[i] = n2 - Len(w2) - 1 + i
    <3> SUFFICES ASSUME NEW i \in 1..Len(w2) PROVE w2[i] = n2 - Len(w2) - 1 + i
      OBVIOUS
    <3>1. CASE i \in 1..Len(w)
      BY <1>1, <1>2, <2>2, <3>1
    <3>2. CASE i = Len(w) + 1
      BY <1>1, <1>2, <3>2
    <3> QED
      BY <1>5, <3>1, <3>2
  <2>5. CoveredTo(S[f.of], n2, n2 - Len(w2))
    <3> DEFINE R == S[f.of]
    <3>1. R \in SUBSET Nat
      BY <1>1
    <3>2. \A s \in R : s \in R \/ s + MaxKept < n2
      OBVIOUS
    <3> HIDE DEF R
    <3>3. CoveredTo(R, n2, n - Len(w))
      <4>1. n <= n2 /\ n \in Nat /\ n2 \in Nat /\ n - Len(w) \in Int
        BY <1>1, <1>2
      <4>2. CoveredTo(R, n, n - Len(w))
        BY <2>2 DEF R
      <4> QED
        BY <3>1, <3>2, <4>1, <4>2, CoveredStays
    <3> QED
      BY <2>3, <3>3 DEF R
  <2> QED
    BY <1>3, <2>3, <2>4, <2>5 DEF FeedFits, n2
<1> QED
  BY <1>3, <1>7, <1>8

LEMMA AppendKeeps ==
    ASSUME ShellInv, NEW t \in Terms, terminal[t].process # "none", NEW x \in TermStates,
           x.process # "none", x.known = terminal[t].known, x.next = terminal[t].next + 1,
           terminal' = [terminal EXCEPT ![t] = x], Shells!Push(t),
           UNCHANGED <<tabStrip, output, front, replaced>>,
           termOp' \in [TermOps -> OpStates],
           \A o \in TermOps : \/ termOp'[o] = termOp[o]
                              \/ /\ OpTyped(termOp'[o], terminal')
                                 /\ replaced \/ OpFits(termOp'[o], ShownNow, terminal')
    PROVE  ShellInv'
<1>1. /\ terminal \in [Terms -> TermStates] /\ \A u \in Terms : terminal[u].next \in Nat \ {0}
      /\ feeds \in Seq(FeedStates) /\ TermsTyped /\ TabsTyped
  BY ShellTypes
<1>2. /\ terminal' \in [Terms -> TermStates] /\ terminal'[t] = x
      /\ \A u \in Terms \ {t} : terminal'[u] = terminal[u]
  BY <1>1
<1>3. \A u \in Terms : /\ terminal'[u].known = terminal[u].known
                       /\ terminal'[u].process = "none" <=> terminal[u].process = "none"
                       /\ terminal[u].next <= terminal'[u].next
                       /\ terminal'[u].next \in Nat
  <2> SUFFICES ASSUME NEW u \in Terms
               PROVE  /\ terminal'[u].known = terminal[u].known
                      /\ terminal'[u].process = "none" <=> terminal[u].process = "none"
                      /\ terminal[u].next <= terminal'[u].next
                      /\ terminal'[u].next \in Nat
    OBVIOUS
  <2>1. CASE u = t
    BY <1>1, <1>2, <2>1
  <2>2. CASE u # t
    BY <1>1, <1>2, <2>2
  <2> QED
    BY <2>1, <2>2
<1>4. TermsTyped'
  <2> SUFFICES ASSUME NEW u \in Terms PROVE TermOK(terminal'[u])
    BY <1>2 DEF TermsTyped
  <2>1. TermOK(terminal[u])
    BY <1>1 DEF TermsTyped
  <2>2. CASE u = t
    <3>1. terminal[t].next + 1 # 1 /\ terminal[t].process # "none"
      BY <1>1
    <3> QED
      BY <1>2, <2>1, <2>2, <3>1 DEF TermOK
  <2>3. CASE u # t
    BY <1>2, <2>1, <2>3
  <2> QED
    BY <2>2, <2>3
<1>5. TabsTyped'
  <2>1. \A u \in Terms : output'[u] \subseteq 1..(terminal'[u].next - 1)
    <3> SUFFICES ASSUME NEW u \in Terms, NEW e \in output[u]
                 PROVE  e \in 1..(terminal'[u].next - 1)
      OBVIOUS
    <3>1. e \in 1..(terminal[u].next - 1)
      BY <1>1 DEF TabsTyped
    <3> QED
      BY <1>1, <1>3, <3>1
  <2>2. \A i \in 1..Len(tabStrip) : tabStrip[i] \in Terms
    BY <1>1 DEF TabsTyped
  <2> QED
    BY <1>1, <1>3, <2>1, <2>2 DEF TabsTyped
<1>6. ShownNow' = ShownNow
  BY SameShown
<1>7. TermsGrow(terminal, terminal') /\ ShownStays(ShownNow, terminal, ShownNow, terminal')
  BY <1>3 DEF TermsGrow, ShownStays, NotDeleted
<1>8. replaced \/ \A u \in Terms : TabFits(u, ShownNow, terminal')
  <2> SUFFICES ASSUME ~replaced, NEW u \in Terms, NotDeleted(terminal', u), NEW e \in ShownNow[u]
               PROVE  CoveredTo(ShownNow[u], terminal'[u].next, e)
    BY DEF TabFits
  <2>1. CoveredTo(ShownNow[u], terminal[u].next, e)
    BY <1>3 DEF ShellInv, ShellSafe, TabFits, NotDeleted
  <2> DEFINE R == ShownNow[u]
             m == terminal[u].next
             m2 == terminal'[u].next
  <2>2. R \in SUBSET Nat /\ m \in Nat /\ m2 \in Nat /\ m <= m2 /\ e \in Int
    BY <1>1, <1>3, ShellTypes
  <2> HIDE DEF R, m, m2
  <2>3. CoveredTo(R, m2, e)
    BY <2>1, <2>2, CoveredStays DEF R, m
  <2> QED
    BY <2>3 DEF R, m2
<1>9. DOMAIN feeds' = 1..Len(feeds) /\ Len(feeds') = Len(feeds)
      /\ \A n \in 1..Len(feeds) :
            feeds'[n] = IF feeds[n].of = t /\ feeds[n].state = "open"
                        THEN [feeds[n] EXCEPT !.wire = Append(feeds[n].wire, terminal[t].next)]
                        ELSE feeds[n]
  <2>1. Len(feeds) \in Nat /\ DOMAIN feeds = 1..Len(feeds)
    BY <1>1
  <2>2. feeds' = [n \in 1..Len(feeds) |->
                    IF feeds[n].of = t /\ feeds[n].state = "open"
                    THEN [feeds[n] EXCEPT !.wire = Append(feeds[n].wire, terminal[t].next)]
                    ELSE feeds[n]]
    BY <2>1 DEF Shells!Push
  <2>3. DOMAIN feeds' = 1..Len(feeds)
    BY <2>2
  <2>4. Len(feeds') = Len(feeds)
    BY <2>1, <2>2
  <2> QED
    BY <2>2, <2>3, <2>4
<1>10. \A n \in 1..Len(feeds) :
          \/ /\ feeds'[n] = feeds[n]
             /\ feeds[n].state = "open" =>
                   terminal'[feeds[n].of].next = terminal[feeds[n].of].next
          \/ /\ feeds'[n] \in FeedStates /\ FeedTyped(feeds'[n], terminal')
             /\ replaced \/ FeedFits(feeds'[n], ShownNow, terminal')
  <2> SUFFICES ASSUME NEW n \in 1..Len(feeds)
               PROVE \/ /\ feeds'[n] = feeds[n]
                        /\ feeds[n].state = "open" =>
                              terminal'[feeds[n].of].next = terminal[feeds[n].of].next
                     \/ /\ feeds'[n] \in FeedStates /\ FeedTyped(feeds'[n], terminal')
                        /\ replaced \/ FeedFits(feeds'[n], ShownNow, terminal')
    OBVIOUS
  <2> DEFINE f == feeds[n]
             g == feeds'[n]
  <2>1. f \in FeedStates /\ f.of \in Terms /\ FeedTyped(f, terminal) /\ f.wire \in Seq(Nat)
    <3>1. f \in FeedStates /\ FeedTyped(f, terminal)
      BY <1>1, ShellTypes
    <3> HIDE DEF f
    <3> QED
      BY <3>1 DEF FeedStates
  <2>2. CASE feeds[n].of = t /\ feeds[n].state = "open"
    <3>1. feeds'[n] = [feeds[n] EXCEPT !.wire = Append(feeds[n].wire, terminal[t].next)]
      BY <1>9, <2>2
    <3>2. Append(feeds[n].wire, terminal[t].next) \in Seq(Nat)
      <4>1. terminal[t].next \in Nat
        BY <1>1
      <4> QED
        BY <2>1, <4>1
    <3>3. /\ g \in FeedStates /\ g.of = f.of /\ g.state = "open"
          /\ g.wire = Append(f.wire, terminal[f.of].next)
      <4> DEFINE w == Append(f.wire, terminal[t].next)
      <4>1. g = [f EXCEPT !.wire = w] /\ w \in Seq(Nat) /\ f.state = "open" /\ f.of = t
        BY <2>2, <3>1, <3>2
      <4> HIDE DEF w, f, g
      <4>2. g \in FeedStates /\ g.of = f.of /\ g.state = "open" /\ g.wire = w
        BY <2>1, <4>1, WireIs
      <4> QED
        BY <4>1, <4>2 DEF w
    <3>4. /\ terminal'[feeds[n].of].process # "none"
          /\ terminal'[feeds[n].of].next = terminal[feeds[n].of].next + 1
      BY <1>2, <2>2
    <3>5. /\ FeedTyped(g, terminal')
          /\ FeedFits(f, ShownNow, terminal) => FeedFits(g, ShownNow, terminal')
      <4>1. f.state = "open" /\ ShownNow \in [Terms -> SUBSET Nat]
            /\ terminal'[f.of].process # "none"
            /\ terminal'[f.of].next = terminal[f.of].next + 1
        BY <2>2, <3>4, ShellTypes
      <4> DEFINE S == ShownNow
                 T == terminal
                 T2 == terminal'
      <4>2. /\ f \in FeedStates /\ S \in [Terms -> SUBSET Nat] /\ T \in [Terms -> TermStates]
            /\ T2 \in [Terms -> TermStates] /\ ShownStays(S, T, S, T2) /\ FeedTyped(f, T)
            /\ f.state = "open" /\ T2[f.of].process # "none" /\ T2[f.of].next = T[f.of].next + 1
            /\ g \in FeedStates /\ g.of = f.of /\ g.state = "open"
            /\ g.wire = Append(f.wire, T[f.of].next)
        BY <1>1, <1>2, <1>7, <2>1, <3>3, <4>1
      <4> HIDE DEF f, g, S, T, T2
      <4>3. FeedTyped(g, T2) /\ (FeedFits(f, S, T) => FeedFits(g, S, T2))
        BY <4>2, PushedIs
      <4> QED
        BY <4>3 DEF S, T, T2
    <3>6. replaced \/ FeedFits(feeds[n], ShownNow, terminal)
      BY DEF ShellInv, ShellSafe
    <3> QED
      BY <3>3, <3>5, <3>6
  <2>3. CASE ~(feeds[n].of = t /\ feeds[n].state = "open")
    BY <1>2, <1>9, <2>1, <2>3
  <2> QED
    BY <2>2, <2>3
<1>11. feeds' \in Seq(FeedStates)
  <2>1. \A n \in 1..Len(feeds) : feeds'[n] \in FeedStates
    BY <1>1, <1>10
  <2>2. feeds' \in [1..Len(feeds) -> FeedStates]
    BY <1>1, <1>9, <2>1 DEF Shells!Push
  <2>3. Len(feeds) \in Nat
    BY <1>1
  <2> QED
    BY <2>2, <2>3, SeqDef
<1>12. \A o \in TermOps : \/ termOp'[o] = termOp[o]
                          \/ /\ OpTyped(termOp'[o], terminal')
                             /\ replaced' \/ OpFits(termOp'[o], ShownNow', terminal')
  BY <1>6
<1>13. replaced' \in BOOLEAN
  BY ShellTypes
<1>14. \A n \in 1..Len(feeds') :
          \/ /\ n \in 1..Len(feeds) /\ feeds'[n] = feeds[n]
             /\ feeds[n].state = "open" =>
                   terminal'[feeds[n].of].next = terminal[feeds[n].of].next
          \/ /\ FeedTyped(feeds'[n], terminal')
             /\ replaced' \/ FeedFits(feeds'[n], ShownNow', terminal')
  BY <1>6, <1>9, <1>10
<1>15. replaced' \/ (/\ ShownStays(ShownNow, terminal, ShownNow', terminal')
                     /\ \A u \in Terms : TabFits(u, ShownNow', terminal'))
  BY <1>6, <1>7, <1>8
<1> QED
  BY <1>4, <1>5, <1>7, <1>11, <1>12, <1>13, <1>14, <1>15, ShellKeeps

LEMMA ExitIs ==
    ASSUME NEW b \in TermStates, NEW m \in Nat \ {0}
    PROVE  /\ [b EXCEPT !.process = "exited", !.next = m] \in TermStates
           /\ [b EXCEPT !.process = "exited", !.next = m].process = "exited"
           /\ [b EXCEPT !.process = "exited", !.next = m].known = b.known
           /\ [b EXCEPT !.process = "exited", !.next = m].next = m
BY DEF TermStates

LEMMA OutputKeeps ==
    ASSUME ShellInv, NEW t \in Terms, Shells!Output(t) \/ Shells!Exit(t) PROVE ShellInv'
<1>1. /\ terminal[t] \in TermStates /\ terminal[t].next \in Nat \ {0}
      /\ terminal \in [Terms -> TermStates]
  BY ShellTypes
<1>2. terminal[t].process = "running"
  BY DEF Shells!Output, Shells!Exit
<1>3. PICK x \in TermStates : /\ x.process # "none" /\ x.known = terminal[t].known
                              /\ x.next = terminal[t].next + 1
                              /\ terminal' = [terminal EXCEPT ![t] = x]
  <2>1. CASE Shells!Output(t)
    <3> DEFINE x == [terminal[t] EXCEPT !.next = terminal[t].next + 1]
    <3>1. /\ x \in TermStates /\ x.process # "none" /\ x.known = terminal[t].known
          /\ x.next = terminal[t].next + 1
      BY <1>1, <1>2 DEF TermStates
    <3>2. terminal' = [terminal EXCEPT ![t] = x]
      BY <1>1, <2>1 DEF Shells!Output, Shells!AppendEvent
    <3> QED
      BY <3>1, <3>2
  <2>2. CASE Shells!Exit(t)
    <3> DEFINE x == [terminal[t] EXCEPT !.process = "exited", !.next = terminal[t].next + 1]
    <3>1. /\ x \in TermStates /\ x.process # "none" /\ x.known = terminal[t].known
          /\ x.next = terminal[t].next + 1
      <4> DEFINE b == terminal[t]
                 m == terminal[t].next + 1
      <4>1. b \in TermStates /\ m \in Nat \ {0}
        BY <1>1
      <4>2. x = [b EXCEPT !.process = "exited", !.next = m]
        OBVIOUS
      <4> HIDE DEF b, m, x
      <4>3. x \in TermStates /\ x.process = "exited" /\ x.known = b.known /\ x.next = m
        BY <4>1, <4>2, ExitIs
      <4> QED
        BY <4>3 DEF b, m
    <3>2. terminal' = [terminal EXCEPT ![t] = x]
      BY <1>1, <2>2 DEF Shells!Exit
    <3> QED
      BY <3>1, <3>2
  <2> QED
    BY <2>1, <2>2
<1>4. /\ Shells!Push(t) /\ UNCHANGED <<tabStrip, output, front, replaced, termOp>>
  BY DEF Shells!Output, Shells!Exit, Shells!AppendEvent, Shells!Console
<1>5. termOp' \in [TermOps -> OpStates] /\ \A o \in TermOps : termOp'[o] = termOp[o]
  BY <1>4, ShellTypes
<1> QED
  BY <1>2, <1>3, <1>4, <1>5, AppendKeeps

\* An operation goes on with an answer.
LEMMA OpAnswerIs ==
    ASSUME NEW S, NEW T, NEW c \in OpStates, OpTyped(c, T), NEW at \in ShellSteps,
           NEW ev \in [Terms -> SUBSET Nat],
           \A u \in Terms : ev[u] \subseteq 1..(T[u].next - 1),
           at \in TargetedSteps => c.on \in Terms,
           at = "listed" => \E u \in Terms : ev[u] # {}
    PROVE  /\ [c EXCEPT !.at = at, !.events = ev] \in OpStates
           /\ OpTyped([c EXCEPT !.at = at, !.events = ev], T)
           /\ (/\ OpFits(c, S, T)
               /\ \A u \in Terms : NotDeleted(T, u) => FillsIn(S[u], T[u].next, ev[u])
               /\ at = "deleted" => ~NotDeleted(T, c.on))
              => OpFits([c EXCEPT !.at = at, !.events = ev], S, T)
<1> DEFINE d == [c EXCEPT !.at = at, !.events = ev]
<1>1. /\ d \in OpStates /\ d.at = at /\ d.on = c.on /\ d.after = c.after /\ d.old = c.old
      /\ d.events = ev
  <2> HIDE DEF d
  <2>1. d = [c EXCEPT !.at = at, !.events = ev]
    BY DEF d
  <2> QED
    BY <2>1 DEF OpStates
<1> HIDE DEF d
<1>2. OpTyped(d, T)
  BY <1>1 DEF OpTyped
<1>3. ASSUME OpFits(c, S, T), at = "deleted" => ~NotDeleted(T, c.on),
             \A u \in Terms : NotDeleted(T, u) => FillsIn(S[u], T[u].next, ev[u])
      PROVE  OpFits(d, S, T)
  BY <1>1, <1>3 DEF OpFits
<1>4. (/\ OpFits(c, S, T)
       /\ \A u \in Terms : NotDeleted(T, u) => FillsIn(S[u], T[u].next, ev[u])
       /\ at = "deleted" => ~NotDeleted(T, c.on))
      => OpFits(d, S, T)
  BY <1>3
<1> QED
  BY <1>1, <1>2, <1>4, Zenon DEF d

\* What the server keeps fills what is shown; what it keeps after events that are shown, too.
LEMMA KeptFills ==
    ASSUME NEW n \in Nat \ {0}, NEW S \in SUBSET Nat, NEW after \in Nat
    PROVE  LET kept == Shells!Newest(1..(n - 1))
           IN  /\ kept \subseteq 1..(n - 1) /\ (n > 1 => kept # {})
               /\ FillsIn(S, n, kept)
               /\ CoveredTo(S, n, after + 1) => FillsIn(S, n, {s \in kept : s > after})
<1> DEFINE kept == Shells!Newest(1..(n - 1))
<1>1. kept \subseteq 1..(n - 1) /\ \A s \in 1..(n - 1) : s \in kept \/ s + MaxKept <= n - 1
  <2>1. n - 1 \in Nat /\ 1..(n - 1) \in SUBSET (1..(n - 1))
    OBVIOUS
  <2> QED
    BY <2>1, NewestIs
<1>2. MaxKept \in Nat \ {0}
  BY EdgesAssumptions DEF EdgesAssumptions
<1> HIDE DEF kept
<1>3. n > 1 => kept # {}
  <2>1. n > 1 => n - 1 \in 1..(n - 1) /\ ~((n - 1) + MaxKept <= n - 1)
    BY <1>2
  <2> QED
    BY <1>1, <2>1
<1>4. \A e \in kept : e \in Nat /\ \A s \in 1..e : s \in 1..(n - 1)
  BY <1>1
<1>5. \A s \in 1..(n - 1) : s \in kept \/ s + MaxKept < n
  BY <1>1, <1>2
<1>6. FillsIn(S, n, kept)
  BY <1>4, <1>5 DEF FillsIn
<1>7. ASSUME CoveredTo(S, n, after + 1) PROVE FillsIn(S, n, {s \in kept : s > after})
  <2> SUFFICES ASSUME NEW e \in kept, e > after, NEW s \in 1..e
               PROVE  (s \in kept /\ s > after) \/ s \in S \/ s + MaxKept < n
    BY DEF FillsIn
  <2>1. s \in 1..(n - 1)
    BY <1>4
  <2>2. CASE s > after
    BY <1>5, <2>1, <2>2
  <2>3. CASE ~(s > after)
    <3>1. s \in 1..((after + 1) - 1)
      BY <2>1, <2>3
    <3> QED
      BY <1>7, <3>1 DEF CoveredTo
  <2> QED
    BY <2>2, <2>3
<1> QED
  BY <1>1, <1>3, <1>6, <1>7 DEF kept

LEMMA OnlyIs ==
    ASSUME NEW t \in Terms, NEW E \in SUBSET Nat
    PROVE  /\ Shells!Only(t, E) \in [Terms -> SUBSET Nat] /\ Shells!Only(t, E)[t] = E
           /\ \A u \in Terms \ {t} : Shells!Only(t, E)[u] = {}
BY DEF Shells!Only

LEMMA FailKeeps ==
    ASSUME ShellInv, NEW o \in TermOps, Shells!Fail(o),
           UNCHANGED <<terminal, feeds, tabStrip, output, replaced, front>>
    PROVE  ShellInv'
<1>1. termOp' = [termOp EXCEPT ![o] = Shells!Free]
  BY DEF Shells!Fail
<1> QED
  BY <1>1, FreeIs, OpKeeps

\* The server answers with events that fill what is shown.
LEMMA OpAnswered ==
    ASSUME ShellInv, NEW o \in TermOps, NEW at \in ShellSteps \ {"deleted"},
           NEW ev \in [Terms -> SUBSET Nat], Shells!Answer(o, at, ev),
           \A u \in Terms : ev[u] \subseteq 1..(terminal[u].next - 1),
           at \in TargetedSteps => termOp[o].on \in Terms,
           at = "listed" => \E u \in Terms : ev[u] # {},
           replaced \/ \A u \in Terms : NotDeleted(terminal, u) =>
                          FillsIn(ShownNow[u], terminal[u].next, ev[u]),
           UNCHANGED <<terminal, feeds, tabStrip, output, replaced, front>>
    PROVE  ShellInv'
<1> DEFINE c == termOp[o]
           d == [c EXCEPT !.at = at, !.events = ev]
<1>1. c \in OpStates /\ OpTyped(c, terminal) /\ (replaced \/ OpFits(c, ShownNow, terminal))
  BY ShellTypes DEF ShellInv, ShellSafe
<1>2. termOp' = [termOp EXCEPT ![o] = d]
  BY DEF Shells!Answer
<1>3. /\ d \in OpStates /\ OpTyped(d, terminal)
      /\ replaced \/ OpFits(d, ShownNow, terminal)
  <2>1. (at \in TargetedSteps => c.on \in Terms) /\ at \in ShellSteps /\ at # "deleted"
    OBVIOUS
  <2> HIDE DEF c
  <2> QED
    BY <1>1, <2>1, OpAnswerIs
<1> HIDE DEF d
<1> QED
  BY <1>2, <1>3, OpKeeps

LEMMA OnlyAnswered ==
    ASSUME ShellInv, NEW o \in TermOps, NEW at \in {"merge", "snapshot"}, NEW t \in Terms,
           termOp[o].on = t, NEW E \in SUBSET Nat, Shells!Answer(o, at, Shells!Only(t, E)),
           E \subseteq 1..(terminal[t].next - 1),
           replaced \/ (NotDeleted(terminal, t) => FillsIn(ShownNow[t], terminal[t].next, E)),
           UNCHANGED <<terminal, feeds, tabStrip, output, replaced, front>>
    PROVE  ShellInv'
<1> DEFINE ev == Shells!Only(t, E)
<1>1. ev \in [Terms -> SUBSET Nat] /\ ev[t] = E /\ \A u \in Terms \ {t} : ev[u] = {}
  BY OnlyIs
<1>2. at \in ShellSteps \ {"deleted"} /\ at # "listed"
  BY DEF ShellSteps, TargetedSteps
<1> HIDE DEF ev
<1>3. \A u \in Terms : ev[u] \subseteq 1..(terminal[u].next - 1)
  BY <1>1
<1>4. replaced \/ \A u \in Terms : NotDeleted(terminal, u) =>
                      FillsIn(ShownNow[u], terminal[u].next, ev[u])
  BY <1>1 DEF FillsIn
<1>5. Shells!Answer(o, at, ev)
  BY DEF ev
<1> QED
  BY <1>1, <1>2, <1>3, <1>4, <1>5, OpAnswered

LEMMA ServeSnapshotKeeps ==
    ASSUME ShellInv, NEW o \in TermOps, Shells!ServeSnapshot(o) PROVE ShellInv'
<1> DEFINE t == termOp[o].on
           E == {s \in Shells!Kept(t) : s > termOp[o].after}
<1>1. /\ termOp[o].at = "snapshot"
      /\ UNCHANGED <<terminal, feeds, tabStrip, output, replaced, front>>
  BY DEF Shells!ServeSnapshot
<1>2. CASE Shells!Fail(o)
  BY <1>1, <1>2, FailKeeps
<1>3. CASE Shells!Answer(o, "merge", Shells!Only(t, E))
  <2>1. /\ t \in Terms /\ terminal[t].next \in Nat \ {0} /\ termOp[o].after \in Nat
        /\ ShownNow[t] \in SUBSET Nat
    <3>1. termOp[o] \in OpStates /\ OpTyped(termOp[o], terminal)
      BY ShellTypes
    <3> QED
      BY <1>1, <3>1, ShellTypes DEF OpTyped, TargetedSteps, OpStates
  <2>2. /\ Shells!Kept(t) \subseteq 1..(terminal[t].next - 1)
        /\ CoveredTo(ShownNow[t], terminal[t].next, termOp[o].after + 1)
              => FillsIn(ShownNow[t], terminal[t].next, E)
    BY <2>1, KeptFills DEF Shells!Kept
  <2>3. replaced \/ (NotDeleted(terminal, t) => FillsIn(ShownNow[t], terminal[t].next, E))
    BY <2>1, <2>2 DEF ShellInv, ShellSafe, OpFits
  <2>4. E \in SUBSET Nat /\ E \subseteq 1..(terminal[t].next - 1)
    BY <2>1, <2>2
  <2> HIDE DEF E
  <2> QED
    BY <1>1, <1>3, <2>1, <2>3, <2>4, OnlyAnswered
<1> QED
  BY <1>2, <1>3 DEF Shells!ServeSnapshot

LEMMA ServeListKeeps ==
    ASSUME ShellInv, NEW o \in TermOps, Shells!ServeList(o) PROVE ShellInv'
<1> DEFINE known == {t \in Terms : terminal[t].known}
           ev == [t \in Terms |-> IF t \in known THEN Shells!Kept(t) ELSE {}]
<1>1. /\ termOp[o].at = "list"
      /\ UNCHANGED <<terminal, feeds, tabStrip, output, replaced, front>>
  BY DEF Shells!ServeList
<1>2. /\ termOp[o] \in OpStates /\ OpTyped(termOp[o], terminal)
      /\ replaced \/ OpFits(termOp[o], ShownNow, terminal)
  BY ShellTypes DEF ShellSafe
<1>3. CASE known = {} /\ Shells!Answer(o, "create", termOp[o].events)
  <2>1. /\ termOp[o].events \in [Terms -> SUBSET Nat] /\ "create" \in ShellSteps \ {"deleted"}
        /\ "create" \notin TargetedSteps
    BY <1>2 DEF OpStates, ShellSteps, TargetedSteps
  <2>2. /\ \A u \in Terms : termOp[o].events[u] \subseteq 1..(terminal[u].next - 1)
        /\ replaced \/ \A u \in Terms : NotDeleted(terminal, u) =>
                           FillsIn(ShownNow[u], terminal[u].next, termOp[o].events[u])
    BY <1>2 DEF OpTyped, OpFits
  <2> QED
    BY <1>1, <1>3, <2>1, <2>2, OpAnswered
<1>4. CASE known # {} /\ Shells!Answer(o, "listed", ev)
  <2>1. ASSUME NEW t \in Terms
        PROVE  /\ terminal[t].next \in Nat \ {0} /\ ShownNow[t] \in SUBSET Nat
               /\ TermOK(terminal[t])
               /\ Shells!Kept(t) \subseteq 1..(terminal[t].next - 1)
               /\ terminal[t].next > 1 => Shells!Kept(t) # {}
               /\ FillsIn(ShownNow[t], terminal[t].next, Shells!Kept(t))
    <3>1. /\ terminal[t].next \in Nat \ {0} /\ ShownNow[t] \in SUBSET Nat
          /\ TermOK(terminal[t])
      BY ShellTypes
    <3> QED
      BY <3>1, KeptFills DEF Shells!Kept
  <2>2. ev \in [Terms -> SUBSET Nat]
    BY <2>1
  <2>3. \E u \in Terms : ev[u] # {}
    <3>1. PICK u \in Terms : u \in known
      BY <1>4
    <3>2. terminal[u].next > 1
      BY <2>1, <3>1 DEF TermOK
    <3> QED
      BY <2>1, <3>1, <3>2
  <2>4. \A u \in Terms : /\ ev[u] \subseteq 1..(terminal[u].next - 1)
                         /\ FillsIn(ShownNow[u], terminal[u].next, ev[u])
    <3> SUFFICES ASSUME NEW u \in Terms
                 PROVE  /\ ev[u] \subseteq 1..(terminal[u].next - 1)
                        /\ FillsIn(ShownNow[u], terminal[u].next, ev[u])
      OBVIOUS
    <3>1. ev[u] = Shells!Kept(u) \/ ev[u] = {}
      OBVIOUS
    <3> HIDE DEF ev
    <3> QED
      BY <2>1, <3>1 DEF FillsIn
  <2>5. "listed" \in ShellSteps \ {"deleted"} /\ "listed" \notin TargetedSteps
    BY DEF ShellSteps, TargetedSteps
  <2> HIDE DEF ev
  <2> QED
    BY <1>1, <1>4, <2>2, <2>3, <2>4, <2>5, OpAnswered
<1> QED
  BY <1>3, <1>4 DEF Shells!ServeList

\* stop() and the snapshot that the console asks for then.
LEMMA ServeStopKeeps ==
    ASSUME ShellInv, NEW o \in TermOps, Shells!ServeStop(o) PROVE ShellInv'
<1>1. /\ termOp[o].at = "stop"
      /\ UNCHANGED <<terminal, feeds, tabStrip, output, replaced, front>>
  BY DEF Shells!ServeStop
<1>2. CASE termOp' = [termOp EXCEPT ![o] = Shells!Free]
  BY <1>1, <1>2, FailKeeps DEF Shells!Fail
<1>3. CASE termOp' = [termOp EXCEPT ![o].at = "snapshot"]
  <2> DEFINE c == termOp[o]
             d == [c EXCEPT !.at = "snapshot"]
  <2>1. /\ c \in OpStates /\ OpTyped(c, terminal)
        /\ replaced \/ OpFits(c, ShownNow, terminal)
    BY ShellTypes DEF ShellSafe
  <2>2. c.at = "stop" /\ termOp' = [termOp EXCEPT ![o] = d]
    BY <1>1, <1>3, ShellTypes
  <2> HIDE DEF c
  <2>3. /\ d \in OpStates /\ d.at = "snapshot" /\ d.on = c.on /\ d.after = c.after
        /\ d.old = c.old /\ d.events = c.events
    BY <2>1 DEF OpStates, ShellSteps, TargetedSteps
  <2> HIDE DEF d
  <2>4. OpTyped(d, terminal) /\ (replaced \/ OpFits(d, ShownNow, terminal))
    BY <2>1, <2>2, <2>3 DEF OpTyped, OpFits, TargetedSteps
  <2> QED
    BY <1>1, <2>2, <2>3, <2>4, OpKeeps
<1> QED
  BY <1>2, <1>3 DEF Shells!ServeStop

\* What is said of an operation stays true of the terminals as they go on.
LEMMA OpStays ==
    ASSUME ShellInv, NEW o \in TermOps, NEW T2 \in [Terms -> TermStates],
           TermsGrow(terminal, T2), ShownStays(ShownNow, terminal, ShownNow, T2)
    PROVE  OpTyped(termOp[o], T2) /\ (replaced \/ OpFits(termOp[o], ShownNow, T2))
<1> DEFINE c == termOp[o]
           T == terminal
           S == ShownNow
<1>1. /\ T \in [Terms -> TermStates] /\ S \in [Terms -> SUBSET Nat] /\ c \in OpStates
      /\ OpTyped(c, T) /\ (replaced \/ OpFits(c, S, T))
      /\ TermsGrow(T, T2) /\ ShownStays(S, T, S, T2)
  BY ShellTypes DEF ShellSafe
<1> HIDE DEF c, T, S
<1>2. replaced \/ OpFits(c, S, T2)
  <2>1. c.at \in TargetedSteps => c.on \in Terms
    BY <1>1 DEF OpTyped
  <2> QED
    BY <1>1, <2>1, OpFitsStays
<1>3. OpTyped(c, T2)
  <2>1. \A t \in Terms : T[t].next \in Nat /\ T2[t].next \in Nat /\ T[t].next <= T2[t].next
    BY <1>1 DEF TermStates, TermsGrow
  <2>2. \A t \in Terms : \A e \in 1..(T[t].next - 1) : e \in 1..(T2[t].next - 1)
    BY <2>1
  <2>3. \A t \in Terms : c.events[t] \subseteq 1..(T2[t].next - 1)
    BY <1>1, <2>2 DEF OpTyped
  <2> QED
    BY <1>1, <2>3 DEF OpTyped, TermsGrow
<1> QED
  BY <1>2, <1>3 DEF c, S

\* Input for a shell that has exited: the event that says so is part of the answer.
LEMMA ServeWriteKeeps ==
    ASSUME ShellInv, NEW o \in TermOps, Shells!ServeWrite(o) PROVE ShellInv'
<1> DEFINE t == termOp[o].on
           n == terminal[t].next
<1>1. termOp[o].at = "write" /\ UNCHANGED <<tabStrip, output, replaced, front>>
  BY DEF Shells!ServeWrite
<1>2. /\ t \in Terms /\ n \in Nat \ {0} /\ terminal[t] \in TermStates
      /\ ShownNow[t] \in SUBSET Nat /\ terminal[t].process # "none"
      /\ terminal \in [Terms -> TermStates] /\ TermOK(terminal[t])
  <2>1. termOp[o] \in OpStates /\ OpTyped(termOp[o], terminal)
    BY ShellTypes
  <2> QED
    BY <1>1, <2>1, ShellTypes DEF OpTyped, TargetedSteps
<1>3. CASE Shells!Fail(o) /\ UNCHANGED <<terminal, feeds>>
  BY <1>1, <1>3, FailKeeps
<1>4. CASE /\ Shells!Answer(o, "merge", Shells!Only(t, Shells!Kept(t)))
           /\ UNCHANGED <<terminal, feeds>>
  <2> DEFINE E == Shells!Kept(t)
  <2>1. E \subseteq 1..(n - 1) /\ FillsIn(ShownNow[t], n, E)
    BY <1>2, KeptFills DEF Shells!Kept
  <2>2. E \in SUBSET Nat /\ Shells!Answer(o, "merge", Shells!Only(t, E))
    BY <1>2, <1>4, <2>1
  <2> HIDE DEF E
  <2> QED
    BY <1>1, <1>2, <1>4, <2>1, <2>2, OnlyAnswered
<1>5. CASE /\ Shells!AppendEvent(t)
           /\ Shells!Answer(o, "merge", Shells!Only(t, Shells!Newest(1..n)))
  <2> DEFINE x == [terminal[t] EXCEPT !.next = n + 1]
             E == Shells!Newest(1..((n + 1) - 1))
             ev == Shells!Only(t, E)
             d == [termOp[o] EXCEPT !.at = "merge", !.events = ev]
             T2 == [terminal EXCEPT ![t] = x]
  <2>1. /\ x \in TermStates /\ x.process = terminal[t].process /\ x.known = terminal[t].known
        /\ x.next = n + 1
    BY <1>2 DEF TermStates
  <2>2. /\ terminal' = [terminal EXCEPT ![t] = x] /\ Shells!Push(t)
    BY <1>2, <1>5 DEF Shells!AppendEvent
  <2>3. n + 1 \in Nat \ {0} /\ (n + 1) - 1 = n
    BY <1>2
  <2>4. E \subseteq 1..((n + 1) - 1) /\ FillsIn(ShownNow[t], n + 1, E) /\ E \in SUBSET Nat
    <3>1. E \subseteq 1..((n + 1) - 1) /\ FillsIn(ShownNow[t], n + 1, E)
      <4> DEFINE m == n + 1
      <4>1. m \in Nat \ {0}
        BY <2>3
      <4> HIDE DEF m
      <4>2. /\ Shells!Newest(1..(m - 1)) \subseteq 1..(m - 1)
            /\ FillsIn(ShownNow[t], m, Shells!Newest(1..(m - 1)))
        BY <1>2, <4>1, KeptFills
      <4> QED
        BY <4>2 DEF m
    <3> QED
      BY <3>1
  <2>5. termOp' = [termOp EXCEPT ![o] = d]
    BY <1>5, <2>3 DEF Shells!Answer
  <2> HIDE DEF E, x
  <2>6. ev \in [Terms -> SUBSET Nat] /\ ev[t] = E /\ \A u \in Terms \ {t} : ev[u] = {}
    BY <1>2, <2>4, OnlyIs
  <2> HIDE DEF ev
  <2>7. /\ T2 \in [Terms -> TermStates] /\ T2[t] = x /\ T2 = terminal'
        /\ \A u \in Terms \ {t} : T2[u] = terminal[u]
    BY <1>2, <2>1, <2>2
  <2> HIDE DEF T2
  <2>8. TermsGrow(terminal, T2) /\ ShownStays(ShownNow, terminal, ShownNow, T2)
    <3> SUFFICES ASSUME NEW u \in Terms
                 PROVE  /\ terminal[u].next <= T2[u].next
                        /\ terminal[u].process # "none" => T2[u].process # "none"
                        /\ NotDeleted(T2, u) => NotDeleted(terminal, u)
      BY DEF TermsGrow, ShownStays
    <3>1. CASE u = t
      BY <1>2, <2>1, <2>7, <3>1 DEF NotDeleted
    <3>2. CASE u # t
      <4>1. T2[u] = terminal[u] /\ terminal[u].next \in Nat
        BY <2>7, <3>2, ShellTypes
      <4> QED
        BY <4>1 DEF NotDeleted
    <3> QED
      BY <3>1, <3>2
  <2>9. OpTyped(termOp[o], T2) /\ (replaced \/ OpFits(termOp[o], ShownNow, T2))
    BY <2>7, <2>8, OpStays
  <2>10. /\ \A u \in Terms : ev[u] \subseteq 1..(T2[u].next - 1)
         /\ \A u \in Terms : FillsIn(ShownNow[u], T2[u].next, ev[u])
    <3> SUFFICES ASSUME NEW u \in Terms
                 PROVE  /\ ev[u] \subseteq 1..(T2[u].next - 1)
                        /\ FillsIn(ShownNow[u], T2[u].next, ev[u])
      OBVIOUS
    <3>1. CASE u = t
      BY <2>1, <2>4, <2>6, <2>7, <3>1
    <3>2. CASE u # t
      BY <2>6, <3>2 DEF FillsIn
    <3> QED
      BY <3>1, <3>2
  <2>11. termOp[o] \in OpStates /\ "merge" \in ShellSteps /\ (TRUE => termOp[o].on \in Terms)
    BY <1>2, ShellTypes DEF ShellSteps, TargetedSteps
  <2>12. d \in OpStates /\ OpTyped(d, T2) /\ (replaced \/ OpFits(d, ShownNow, T2))
    <3> DEFINE c == termOp[o]
               at == "merge"
    <3>1. /\ c \in OpStates /\ OpTyped(c, T2) /\ (replaced \/ OpFits(c, ShownNow, T2))
          /\ c.on \in Terms /\ at \in ShellSteps /\ at # "deleted" /\ at # "listed"
          /\ d = [c EXCEPT !.at = at, !.events = ev]
      BY <2>9, <2>11
    <3> HIDE DEF c, d, at
    <3>2. /\ [c EXCEPT !.at = at, !.events = ev] \in OpStates
          /\ OpTyped([c EXCEPT !.at = at, !.events = ev], T2)
          /\ OpFits(c, ShownNow, T2) => OpFits([c EXCEPT !.at = at, !.events = ev], ShownNow, T2)
      BY <2>6, <2>10, <3>1, OpAnswerIs
    <3> QED
      BY <3>1, <3>2
  <2> HIDE DEF d
  <2>13. /\ termOp' \in [TermOps -> OpStates]
         /\ \A p \in TermOps : termOp'[p] = termOp[p] \/ termOp'[p] = d
    BY <2>5, <2>12, ShellTypes
  <2>14. \A p \in TermOps : \/ termOp'[p] = termOp[p]
                            \/ /\ OpTyped(termOp'[p], terminal')
                               /\ replaced \/ OpFits(termOp'[p], ShownNow, terminal')
    BY <2>7, <2>12, <2>13
  <2>15. x \in TermStates /\ x.process # "none"
    BY <1>2, <2>1
  <2> QED
    BY <1>1, <1>2, <2>1, <2>2, <2>13, <2>14, <2>15, AppendKeeps
<1> QED
  BY <1>3, <1>4, <1>5 DEF Shells!ServeWrite

\* A new terminal has no tab and no stream yet, and is not one that was deleted.
LEMMA ServeCreateKeeps ==
    ASSUME ShellInv, NEW o \in TermOps, Shells!ServeCreate(o) PROVE ShellInv'
<1>1. UNCHANGED <<feeds, tabStrip, output, replaced, front>>
  BY DEF Shells!ServeCreate
<1> DEFINE x == [process |-> "running", known |-> TRUE, next |-> 2]
<1>2. PICK t \in Terms :
         /\ terminal[t].process = "none" /\ terminal' = [terminal EXCEPT ![t] = x]
         /\ termOp' = [termOp EXCEPT ![o] =
               [@ EXCEPT !.at = "created", !.on = t, !.after = 0,
                         !.events = Shells!Only(t, {1})]]
  BY DEF Shells!ServeCreate, Shells!None
<1>3. x \in TermStates /\ x.process = "running" /\ x.known = TRUE /\ x.next = 2
  BY DEF TermStates
<1>4. /\ terminal \in [Terms -> TermStates] /\ terminal[t].next = 1 /\ TermsTyped /\ TabsTyped
      /\ \A u \in Terms : terminal[u].next \in Nat \ {0} /\ TermOK(terminal[u])
  BY <1>2, ShellTypes DEF TermOK
<1> DEFINE c == termOp[o]
           ev == Shells!Only(t, {1})
           d == [c EXCEPT !.at = "created", !.on = t, !.after = 0, !.events = ev]
<1>5. termOp' = [termOp EXCEPT ![o] = d]
  BY <1>2
<1>6. ev \in [Terms -> SUBSET Nat] /\ ev[t] = {1} /\ \A u \in Terms \ {t} : ev[u] = {}
  <2>1. {1} \in SUBSET Nat
    OBVIOUS
  <2> QED
    BY <2>1, OnlyIs
<1> HIDE DEF x, ev
<1>7. /\ terminal' \in [Terms -> TermStates] /\ terminal'[t] = x
      /\ \A u \in Terms \ {t} : terminal'[u] = terminal[u]
  BY <1>2, <1>3, <1>4
<1>8. TermsTyped'
  BY <1>3, <1>4, <1>7 DEF TermsTyped, TermOK
<1>9. ShownNow' = ShownNow
  BY <1>1, SameShown
<1>10. /\ TermsGrow(terminal, terminal')
       /\ ShownStays(ShownNow, terminal, ShownNow, terminal')
  <2> SUFFICES ASSUME NEW u \in Terms
               PROVE  /\ terminal[u].next <= terminal'[u].next
                      /\ terminal[u].process # "none" => terminal'[u].process # "none"
                      /\ NotDeleted(terminal', u) => NotDeleted(terminal, u)
    BY DEF TermsGrow, ShownStays
  <2>1. CASE u = t
    BY <1>2, <1>3, <1>4, <1>7, <2>1 DEF NotDeleted
  <2>2. CASE u # t
    BY <1>4, <1>7, <2>2 DEF NotDeleted
  <2> QED
    BY <2>1, <2>2
<1>11. TabsTyped'
  <2>1. \A u \in Terms : output'[u] \subseteq 1..(terminal'[u].next - 1)
    <3> SUFFICES ASSUME NEW u \in Terms, NEW e \in output[u]
                 PROVE  e \in 1..(terminal'[u].next - 1)
      BY <1>1
    <3>1. e \in 1..(terminal[u].next - 1) /\ terminal[u].next <= terminal'[u].next
          /\ terminal'[u].next \in Nat /\ terminal[u].next \in Nat
      BY <1>4, <1>7, <1>10 DEF TabsTyped, TermsGrow, TermStates
    <3> QED
      BY <3>1
  <2>2. \A i \in 1..Len(tabStrip) : tabStrip[i] \in Terms
    BY <1>4 DEF TabsTyped
  <2>3. front \in Terms \cup {"none"}
        /\ (front \in Terms => terminal'[front].process # "none")
    BY <1>4, <1>10 DEF TabsTyped, TermsGrow
  <2>4. \A i \in 1..Len(tabStrip) : terminal'[tabStrip[i]].process # "none"
    BY <1>4, <1>10, <2>2 DEF TabsTyped, TermsGrow
  <2> QED
    BY <1>1, <1>4, <2>1, <2>3, <2>4 DEF TabsTyped
<1>12. d \in OpStates /\ OpTyped(d, terminal') /\ (replaced \/ OpFits(d, ShownNow, terminal'))
  <2>1. /\ c \in OpStates /\ OpTyped(c, terminal) /\ (replaced \/ OpFits(c, ShownNow, terminal))
    BY ShellTypes DEF ShellSafe
  <2>2. OpTyped(c, terminal') /\ (replaced \/ OpFits(c, ShownNow, terminal'))
    BY <1>7, <1>10, OpStays
  <2> HIDE DEF c
  <2>3. d = [c EXCEPT !.at = "created", !.on = t, !.after = 0, !.events = ev]
    OBVIOUS
  <2> HIDE DEF d
  <2>4. /\ d \in OpStates /\ d.at = "created" /\ d.on = t /\ d.after = 0 /\ d.old = c.old
        /\ d.events = ev
    BY <1>6, <2>1, <2>3 DEF OpStates, ShellSteps, TargetedSteps
  <2>5. OpTyped(d, terminal')
    BY <1>3, <1>6, <1>7, <2>4 DEF OpTyped
  <2>6. ASSUME OpFits(c, ShownNow, terminal), OpFits(c, ShownNow, terminal')
        PROVE  OpFits(d, ShownNow, terminal')
    <3>1. CoveredTo(ShownNow[t], terminal'[t].next, d.after + 1)
      <4>1. 1..((0 + 1) - 1) = {}
        OBVIOUS
      <4> QED
        BY <2>4, <4>1 DEF CoveredTo
    <3>2. \A u \in Terms : FillsIn(ShownNow[u], terminal'[u].next, d.events[u])
      <4> SUFFICES ASSUME NEW u \in Terms, NEW e \in ev[u], NEW s \in 1..e PROVE s \in ev[u]
        BY <2>4 DEF FillsIn
      <4>1. u = t /\ e = 1 /\ s = 1
        BY <1>6
      <4> QED
        BY <1>6, <4>1
    <3>3. c.old \in Terms => ~NotDeleted(terminal', c.old)
      BY <2>6 DEF OpFits
    <3> QED
      BY <2>4, <3>1, <3>2, <3>3 DEF OpFits
  <2> QED
    BY <2>1, <2>2, <2>4, <2>5, <2>6
<1> HIDE DEF d
<1>13. /\ termOp' \in [TermOps -> OpStates]
       /\ \A p \in TermOps : termOp'[p] = termOp[p] \/ termOp'[p] = d
  BY <1>5, <1>12, ShellTypes
<1>14. \A p \in TermOps : \/ termOp'[p] = termOp[p]
                          \/ /\ OpTyped(termOp'[p], terminal')
                             /\ replaced' \/ OpFits(termOp'[p], ShownNow', terminal')
  BY <1>1, <1>9, <1>12, <1>13
<1>15. \A n \in 1..Len(feeds') : /\ n \in 1..Len(feeds) /\ feeds'[n] = feeds[n]
                                /\ terminal'[feeds[n].of].next = terminal[feeds[n].of].next
  <2> SUFFICES ASSUME NEW n \in 1..Len(feeds)
               PROVE  terminal'[feeds[n].of].next = terminal[feeds[n].of].next
    BY <1>1
  <2>1. feeds[n] \in FeedStates /\ FeedTyped(feeds[n], terminal)
    BY ShellTypes
  <2>2. feeds[n].of \in Terms /\ feeds[n].of # t
    BY <1>2, <2>1 DEF FeedTyped, FeedStates
  <2> QED
    BY <1>7, <2>2
<1>16. replaced \/ \A u \in Terms : TabFits(u, ShownNow', terminal')
  <2> SUFFICES ASSUME ~replaced, NEW u \in Terms PROVE TabFits(u, ShownNow, terminal')
    BY <1>9
  <2>1. TabFits(u, ShownNow, terminal)
    BY DEF ShellInv, ShellSafe
  <2>2. CASE u = t
    <3>1. ShownNow[t] \subseteq 1..(1 - 1)
      BY <1>4 DEF TabsTyped, ShownNow
    <3>2. ShownNow[t] = {}
      BY <3>1
    <3> QED
      BY <2>2, <3>2 DEF TabFits
  <2>3. CASE u # t
    BY <1>7, <2>1, <2>3 DEF TabFits, NotDeleted
  <2> QED
    BY <2>2, <2>3
<1>17. /\ feeds' \in Seq(FeedStates) /\ replaced' = replaced /\ replaced' \in BOOLEAN
  BY <1>1, ShellTypes
<1> QED
  BY <1>8, <1>9, <1>10, <1>11, <1>13, <1>14, <1>15, <1>16, <1>17, ShellKeeps

\* A stream that is closed or broken brings nothing more.
LEMMA HangIs ==
    ASSUME ShellInv, NEW k, NEW g, g = Shells!Hang(k)
    PROVE  /\ g \in Seq(FeedStates) /\ Len(g) = Len(feeds)
           /\ \A n \in 1..Len(g) :
                 \/ g[n] = feeds[n]
                 \/ FeedTyped(g[n], terminal) /\ \A S : FeedFits(g[n], S, terminal)
<1>1. feeds \in Seq(FeedStates) /\ Len(feeds) \in Nat /\ DOMAIN feeds = 1..Len(feeds)
  BY ShellTypes
<1>2. g = [n \in 1..Len(feeds) |-> IF n = k THEN [feeds[n] EXCEPT !.state = "gone"]
                                   ELSE feeds[n]]
  BY <1>1 DEF Shells!Hang
<1>3. \A n \in 1..Len(feeds) : g[n] = feeds[n] \/ g[n] = [feeds[n] EXCEPT !.state = "gone"]
  BY <1>2
<1>4. ASSUME NEW n \in 1..Len(feeds), g[n] = [feeds[n] EXCEPT !.state = "gone"]
      PROVE  /\ g[n] \in FeedStates /\ FeedTyped(g[n], terminal)
             /\ \A S : FeedFits(g[n], S, terminal)
  <2> DEFINE f == feeds[n]
             h == g[n]
  <2>1. f \in FeedStates /\ FeedTyped(f, terminal) /\ h = [f EXCEPT !.state = "gone"]
    BY <1>1, <1>4, ShellTypes
  <2> HIDE DEF f, h
  <2>2. h \in FeedStates /\ h.state = "gone" /\ h.of = f.of /\ h.wire = f.wire
    BY <2>1 DEF FeedStates
  <2>3. FeedTyped(h, terminal) /\ \A S : FeedFits(h, S, terminal)
    BY <2>1, <2>2 DEF FeedTyped, FeedFits
  <2> QED
    BY <2>2, <2>3 DEF h
<1>5. \A n \in 1..Len(feeds) : g[n] \in FeedStates
  <2> SUFFICES ASSUME NEW n \in 1..Len(feeds) PROVE g[n] \in FeedStates
    OBVIOUS
  <2>1. feeds[n] \in FeedStates
    BY <1>1
  <2>2. CASE g[n] = feeds[n]
    BY <2>1, <2>2
  <2>3. CASE g[n] = [feeds[n] EXCEPT !.state = "gone"]
    BY <2>3, <1>4
  <2> QED
    BY <1>3, <2>2, <2>3
<1>6. g \in [1..Len(feeds) -> FeedStates]
  BY <1>2, <1>5
<1>7. g \in Seq(FeedStates) /\ Len(g) = Len(feeds)
  <2>1. g \in Seq(FeedStates)
    BY <1>1, <1>6, SeqDef
  <2>2. DOMAIN g = 1..Len(feeds)
    BY <1>6
  <2> QED
    BY <1>1, <2>1, <2>2
<1> QED
  BY <1>3, <1>4, <1>7

\* What a step of the console has to show.
LEMMA ConsoleKeeps ==
    ASSUME ShellInv, terminal' = terminal, TabsTyped', termOp' \in [TermOps -> OpStates],
           \A o \in TermOps : \/ termOp'[o] = termOp[o]
                              \/ /\ OpTyped(termOp'[o], terminal)
                                 /\ replaced' \/ OpFits(termOp'[o], ShownNow', terminal),
           feeds' = feeds \/ \E k : feeds' = Shells!Hang(k),
           replaced' \in BOOLEAN, replaced => replaced',
           replaced' \/ (/\ ShownStays(ShownNow, terminal, ShownNow', terminal)
                         /\ \A t \in Terms : TabFits(t, ShownNow', terminal))
    PROVE  ShellInv'
<1>1. TermsTyped' /\ TermsGrow(terminal, terminal')
  BY ShellTypes, StaysSame DEF TermsTyped
<1>2. /\ feeds' \in Seq(FeedStates)
      /\ \A n \in 1..Len(feeds') :
            \/ n \in 1..Len(feeds) /\ feeds'[n] = feeds[n]
            \/ FeedTyped(feeds'[n], terminal) /\ FeedFits(feeds'[n], ShownNow', terminal)
  <2>1. CASE feeds' = feeds
    BY <2>1, ShellTypes
  <2>2. CASE \E k : feeds' = Shells!Hang(k)
    <3>1. /\ feeds' \in Seq(FeedStates) /\ Len(feeds') = Len(feeds)
          /\ \A n \in 1..Len(feeds') :
                \/ feeds'[n] = feeds[n]
                \/ FeedTyped(feeds'[n], terminal) /\ \A S : FeedFits(feeds'[n], S, terminal)
      BY <2>2, HangIs
    <3> QED
      BY <3>1
  <2> QED
    BY <2>1, <2>2
<1>3. \A n \in 1..Len(feeds') :
          \/ /\ n \in 1..Len(feeds) /\ feeds'[n] = feeds[n]
             /\ feeds[n].state = "open" =>
                   terminal'[feeds[n].of].next = terminal[feeds[n].of].next
          \/ /\ FeedTyped(feeds'[n], terminal')
             /\ replaced' \/ FeedFits(feeds'[n], ShownNow', terminal')
  BY <1>2
<1> QED
  BY <1>1, <1>2, <1>3, ShellKeeps

LEMMA BreakKeeps ==
    ASSUME ShellInv, Shells!CloseTerminal \/ \E n \in DOMAIN feeds : Shells!Disconnect(n)
    PROVE  ShellInv'
<1>1. /\ \E k : feeds' = Shells!Hang(k)
      /\ UNCHANGED <<terminal, tabStrip, output, front, termOp, replaced>>
  BY DEF Shells!CloseTerminal, Shells!CloseSource, Shells!Disconnect, Shells!Console
<1>2. TabsTyped' /\ ShownNow' = ShownNow
  BY <1>1, ShellTypes, SameShown DEF TabsTyped
<1>3. replaced' \/ (/\ ShownStays(ShownNow, terminal, ShownNow', terminal)
                    /\ \A t \in Terms : TabFits(t, ShownNow', terminal))
  BY <1>1, <1>2, StaysSame DEF ShellInv, ShellSafe
<1> QED
  BY <1>1, <1>2, <1>3, ShellTypes, ConsoleKeeps

\* All up to the last event shown is covered.
LEMMA TopCovers ==
    ASSUME NEW m \in Nat, NEW E \in SUBSET (1..m), NEW n \in Nat
    PROVE  /\ Shells!Latest(E) \in Nat
           /\ (\A e \in E : CoveredTo(E, n, e)) => CoveredTo(E, n, Shells!Latest(E) + 1)
<1> DEFINE top == Shells!Latest(E)
<1>1. top \in 0..m /\ (top \in E \/ top = 0)
  BY TopIs
<1> HIDE DEF top
<1>2. ASSUME \A e \in E : CoveredTo(E, n, e) PROVE CoveredTo(E, n, top + 1)
  <2> SUFFICES ASSUME NEW s \in 1..((top + 1) - 1) PROVE s \in E \/ s + MaxKept < n
    BY DEF CoveredTo
  <2>1. top \in E /\ s \in 1..top
    BY <1>1
  <2>2. s = top \/ s \in 1..(top - 1)
    BY <1>1, <2>1
  <2> QED
    BY <1>2, <2>1, <2>2 DEF CoveredTo
<1> QED
  BY <1>1, <1>2 DEF top

LEMMA TabIs ==
    ASSUME TabsTyped, NEW t, Shells!HasTab(t)
    PROVE  t \in Terms /\ terminal[t].process # "none" /\ Shells!Position(t) \in Nat \ {0}
<1>1. DOMAIN tabStrip = 1..Len(tabStrip) /\ tabStrip \in Seq(Terms)
  BY DEF TabsTyped
<1>2. PICK i \in 1..Len(tabStrip) : tabStrip[i] = t
  BY <1>1 DEF Shells!HasTab
<1>3. Shells!Position(t) \in 1..Len(tabStrip)
  BY <1>1, <1>2 DEF Shells!Position
<1>4. tabStrip[i] \in Terms
  BY <1>1
<1> QED
  BY <1>2, <1>3, <1>4 DEF TabsTyped

\* The position asked for when a tab is activated.
LEMMA TabCovers ==
    ASSUME ShellInv, NEW t \in Terms, Shells!HasTab(t)
    PROVE  /\ Shells!Latest(output[t]) \in Nat
           /\ replaced \/ (NotDeleted(terminal, t) =>
                   CoveredTo(ShownNow[t], terminal[t].next, Shells!Latest(output[t]) + 1))
<1> DEFINE m == terminal[t].next - 1
           n == terminal[t].next
<1>1. m \in Nat /\ n \in Nat /\ output[t] \in SUBSET (1..m) /\ ShownNow[t] = output[t]
  <2>1. terminal[t].next \in Nat \ {0}
    BY ShellTypes
  <2> QED
    BY <2>1, ShellTypes DEF TabsTyped, ShownNow
<1> HIDE DEF m, n
<1>2. /\ Shells!Latest(output[t]) \in Nat
      /\ (\A e \in output[t] : CoveredTo(output[t], n, e))
            => CoveredTo(output[t], n, Shells!Latest(output[t]) + 1)
  BY <1>1, TopCovers
<1>3. replaced \/ (NotDeleted(terminal, t) => \A e \in output[t] : CoveredTo(output[t], n, e))
  BY <1>1 DEF ShellInv, ShellSafe, TabFits, n
<1> QED
  BY <1>1, <1>2, <1>3 DEF n

\* What is deleted is no longer spoken of: its streams are silent from now on.
LEMMA ServeDeleteKeeps ==
    ASSUME ShellInv, NEW o \in TermOps, Shells!ServeDelete(o) PROVE ShellInv'
<1> DEFINE t == termOp[o].on
           x == [terminal[t] EXCEPT !.known = FALSE]
<1>1. termOp[o].at = "delete" /\ UNCHANGED <<tabStrip, output, replaced, front>>
  BY DEF Shells!ServeDelete
<1>2. /\ t \in Terms /\ terminal[t] \in TermStates /\ terminal[t].process # "none"
      /\ terminal \in [Terms -> TermStates] /\ TermsTyped /\ TabsTyped
      /\ feeds \in Seq(FeedStates)
      /\ \A u \in Terms : terminal[u].next \in Nat \ {0} /\ TermOK(terminal[u])
  <2>1. termOp[o] \in OpStates /\ OpTyped(termOp[o], terminal)
    BY ShellTypes
  <2> QED
    BY <1>1, <2>1, ShellTypes DEF OpTyped, TargetedSteps
<1>3. /\ x \in TermStates /\ x.known = FALSE /\ x.process = terminal[t].process
      /\ x.next = terminal[t].next /\ terminal' = [terminal EXCEPT ![t] = x]
  <2>1. terminal' = [terminal EXCEPT ![t] = x]
    BY <1>2 DEF Shells!ServeDelete
  <2> QED
    BY <1>2, <2>1 DEF TermStates
<1> HIDE DEF x
<1>4. /\ terminal' \in [Terms -> TermStates] /\ terminal'[t] = x
      /\ \A u \in Terms \ {t} : terminal'[u] = terminal[u]
  BY <1>2, <1>3
<1>5. \A u \in Terms : terminal'[u].next = terminal[u].next
                       /\ terminal'[u].process = terminal[u].process
  <2> SUFFICES ASSUME NEW u \in Terms PROVE terminal'[u].next = terminal[u].next
                                            /\ terminal'[u].process = terminal[u].process
    OBVIOUS
  <2>1. CASE u = t
    BY <1>3, <1>4, <2>1
  <2>2. CASE u # t
    BY <1>4, <2>2
  <2> QED
    BY <2>1, <2>2
<1>6. ~NotDeleted(terminal', t)
  BY <1>2, <1>3, <1>4 DEF NotDeleted
<1>7. /\ TermsGrow(terminal, terminal')
      /\ ShownStays(ShownNow, terminal, ShownNow, terminal')
  <2>1. \A u \in Terms : NotDeleted(terminal', u) => NotDeleted(terminal, u)
    BY <1>4, <1>6 DEF NotDeleted
  <2> QED
    BY <1>2, <1>5, <2>1 DEF TermsGrow, ShownStays
<1>8. TermsTyped'
  BY <1>2, <1>3, <1>4 DEF TermsTyped, TermOK
<1>9. TabsTyped'
  <2>1. \A i \in 1..Len(tabStrip) : tabStrip[i] \in Terms
    BY <1>2 DEF TabsTyped
  <2> QED
    BY <1>1, <1>2, <1>5, <2>1 DEF TabsTyped
<1>10. ShownNow' = ShownNow
  BY <1>1, SameShown
<1>11. replaced' \/ \A u \in Terms : TabFits(u, ShownNow', terminal')
  <2> SUFFICES ASSUME ~replaced, NEW u \in Terms PROVE TabFits(u, ShownNow, terminal')
    BY <1>1, <1>10
  <2>1. TabFits(u, ShownNow, terminal)
    BY DEF ShellInv, ShellSafe
  <2>2. CASE u = t
    BY <1>6, <2>2 DEF TabFits
  <2>3. CASE u # t
    BY <1>4, <2>1, <2>3 DEF TabFits, NotDeleted
  <2> QED
    BY <2>2, <2>3
<1>12. feeds' = [n \in 1..Len(feeds) |->
                   IF feeds[n].of = t /\ feeds[n].state = "open"
                   THEN [feeds[n] EXCEPT !.state = "silent"] ELSE feeds[n]]
  <2>1. DOMAIN feeds = 1..Len(feeds)
    BY <1>2
  <2> QED
    BY <2>1 DEF Shells!ServeDelete
<1>13. ASSUME NEW n \in 1..Len(feeds)
       PROVE  /\ feeds'[n] \in FeedStates
              /\ \/ feeds'[n] = feeds[n]
                 \/ FeedTyped(feeds'[n], terminal') /\ FeedFits(feeds'[n], ShownNow, terminal')
  <2> DEFINE f == feeds[n]
             h == feeds'[n]
  <2>1. f \in FeedStates /\ FeedTyped(f, terminal)
    BY <1>2, ShellTypes
  <2>2. h = f \/ (f.of = t /\ h = [f EXCEPT !.state = "silent"])
    BY <1>12
  <2> HIDE DEF f, h
  <2>3. CASE h = f
    BY <2>1, <2>3 DEF f, h
  <2>4. CASE f.of = t /\ h = [f EXCEPT !.state = "silent"]
    <3>1. h \in FeedStates /\ h.of = t /\ h.wire = f.wire
      BY <2>1, <2>4 DEF FeedStates
    <3>2. FeedTyped(h, terminal')
      BY <1>2, <1>5, <2>1, <2>4, <3>1 DEF FeedTyped
    <3>3. FeedFits(h, ShownNow, terminal')
      BY <1>6, <3>1 DEF FeedFits
    <3> QED
      BY <3>1, <3>2, <3>3 DEF h
  <2> QED
    BY <2>2, <2>3, <2>4
<1>14. feeds' \in Seq(FeedStates) /\ Len(feeds') = Len(feeds)
  <2>1. Len(feeds) \in Nat /\ feeds' \in [1..Len(feeds) -> FeedStates]
    BY <1>2, <1>12, <1>13
  <2>2. feeds' \in Seq(FeedStates) /\ DOMAIN feeds' = 1..Len(feeds)
    BY <2>1, SeqDef
  <2> QED
    BY <2>1, <2>2
<1>15. \A n \in 1..Len(feeds') :
          \/ /\ n \in 1..Len(feeds) /\ feeds'[n] = feeds[n]
             /\ feeds[n].state = "open" =>
                   terminal'[feeds[n].of].next = terminal[feeds[n].of].next
          \/ /\ FeedTyped(feeds'[n], terminal')
             /\ replaced' \/ FeedFits(feeds'[n], ShownNow', terminal')
  <2>1. \A n \in 1..Len(feeds) : terminal'[feeds[n].of].next = terminal[feeds[n].of].next
    <3> SUFFICES ASSUME NEW n \in 1..Len(feeds)
                 PROVE  terminal'[feeds[n].of].next = terminal[feeds[n].of].next
      OBVIOUS
    <3>1. feeds[n] \in FeedStates
      BY <1>2
    <3>2. feeds[n].of \in Terms
      BY <3>1 DEF FeedStates
    <3> QED
      BY <1>5, <3>2
  <2> QED
    BY <1>10, <1>13, <1>14, <2>1
<1> DEFINE c == termOp[o]
           d == [c EXCEPT !.at = "deleted", !.events = termOp[o].events]
<1>16. termOp' = [termOp EXCEPT ![o] = d]
  BY DEF Shells!ServeDelete, Shells!Answer
<1>17. /\ c \in OpStates /\ OpTyped(c, terminal')
       /\ replaced \/ OpFits(c, ShownNow, terminal')
  BY <1>4, <1>7, OpStays, ShellTypes
<1>18. d \in OpStates /\ OpTyped(d, terminal') /\ (replaced \/ OpFits(d, ShownNow, terminal'))
  <2>1. c.on \in Terms /\ ~NotDeleted(terminal', c.on) /\ d = [c EXCEPT !.at = "deleted", !.events = c.events]
    BY <1>2, <1>6
  <2> HIDE DEF c, d
  <2>2. /\ d \in OpStates /\ d.at = "deleted" /\ d.on = c.on /\ d.after = c.after
        /\ d.old = c.old /\ d.events = c.events
    BY <1>17, <2>1 DEF OpStates, ShellSteps, TargetedSteps
  <2> QED
    BY <1>17, <2>1, <2>2 DEF OpTyped, OpFits
<1> HIDE DEF d
<1>19. /\ termOp' \in [TermOps -> OpStates]
       /\ \A p \in TermOps : termOp'[p] = termOp[p] \/ termOp'[p] = d
  BY <1>16, <1>18, ShellTypes
<1>20. \A p \in TermOps : \/ termOp'[p] = termOp[p]
                          \/ /\ OpTyped(termOp'[p], terminal')
                             /\ replaced' \/ OpFits(termOp'[p], ShownNow', terminal')
  BY <1>1, <1>10, <1>18, <1>19
<1>21. replaced' = replaced /\ replaced' \in BOOLEAN
  BY <1>1, ShellTypes
<1> QED
  BY <1>7, <1>8, <1>9, <1>10, <1>11, <1>14, <1>15, <1>19, <1>20, <1>21, ShellKeeps

\* A command of the user starts an operation.
LEMMA AskKeeps ==
    ASSUME ShellInv, NEW o \in TermOps, NEW does \in ShellTasks, NEW on \in Terms \cup {"none"},
           NEW at \in {"snapshot", "create", "list", "delete", "write", "stop"}, NEW after \in Nat,
           on \in Terms \/ at \in {"create", "list"},
           on \in Terms => terminal[on].process # "none",
           after = 0 \/ replaced \/
              (on \in Terms /\ NotDeleted(terminal, on) =>
                  CoveredTo(ShownNow[on], terminal[on].next, after + 1)),
           Shells!Ask(o, does, on, at, after), UNCHANGED <<feeds, tabStrip, output>>,
           front' = front \/ (front' \in Terms /\ terminal[front'].process # "none")
    PROVE  ShellInv'
<1> DEFINE slot == IF Shells!HasTab(on) THEN Shells!Position(on) ELSE 1
           c == termOp[o]
           d == [c EXCEPT !.does = does, !.on = on, !.at = at, !.after = after, !.slot = slot]
<1>1. termOp' = [termOp EXCEPT ![o] = d] /\ UNCHANGED <<terminal, replaced>>
  BY DEF Shells!Ask
<1>2. slot \in Nat \ {0}
  BY ShellTypes, TabIs
<1>3. /\ c \in OpStates /\ OpTyped(c, terminal)
      /\ replaced \/ OpFits(c, ShownNow, terminal)
  BY ShellTypes DEF ShellSafe
<1> HIDE DEF slot, c
<1>4. d \in OpStates /\ d.at = at /\ d.on = on /\ d.after = after /\ d.old = c.old
      /\ d.events = c.events
  <2>1. at \in ShellSteps
    BY DEF ShellSteps, TargetedSteps
  <2> QED
    BY <1>2, <1>3, <2>1 DEF OpStates
<1> HIDE DEF d
<1>5. OpTyped(d, terminal)
  BY <1>3, <1>4 DEF OpTyped, TargetedSteps
<1>6. replaced \/ OpFits(d, ShownNow, terminal)
  <2>1. CASE after = 0
    <3>1. 1..((0 + 1) - 1) = {}
      OBVIOUS
    <3> QED
      BY <1>3, <1>4, <2>1, <3>1 DEF OpFits, CoveredTo
  <2>2. CASE after # 0
    BY <1>3, <1>4, <2>2 DEF OpFits
  <2> QED
    BY <2>1, <2>2
<1> QED
  BY <1>1, <1>4, <1>5, <1>6, OpKeeps

LEMMA ActivateKeeps ==
    ASSUME ShellInv, NEW o \in TermOps, NEW t, Shells!ActivateTerminalTab(o, t) PROVE ShellInv'
<1>1. t \in Terms /\ terminal[t].process # "none" /\ Shells!HasTab(t)
  BY ShellTypes, TabIs DEF Shells!ActivateTerminalTab
<1> DEFINE after == Shells!Latest(output[t])
<1>2. /\ after \in Nat
      /\ replaced \/ (NotDeleted(terminal, t) =>
             CoveredTo(ShownNow[t], terminal[t].next, after + 1))
  BY <1>1, TabCovers
<1>3. /\ Shells!Ask(o, "activate", t, "snapshot", after) /\ front' = t
      /\ UNCHANGED <<feeds, tabStrip, output>>
  BY DEF Shells!ActivateTerminalTab
<1>4. "activate" \in ShellTasks
  BY DEF ShellTasks
<1> HIDE DEF after
<1> QED
  BY <1>1, <1>2, <1>3, <1>4, AskKeeps

LEMMA UserKeeps ==
    ASSUME ShellInv, NEW o \in TermOps,
           \/ \E t \in Terms : Shells!ActivateTerminalTab(o, t) \/ Shells!CloseTerminalTab(o, t)
           \/ Shells!CreateTerminalTab(o) \/ Shells!OpenTerminal(o)
           \/ Shells!SendTerminalData(o) \/ Shells!StopTerminal(o) \/ Shells!RestartTerminal(o)
    PROVE  ShellInv'
<1>1. /\ {"activate", "create", "close", "send", "restart"} \subseteq ShellTasks /\ 0 \in Nat
      /\ front \in Terms \cup {"none"} /\ (front \in Terms => terminal[front].process # "none")
  BY ShellTypes DEF TabsTyped, ShellTasks
<1>2. CASE \E t : Shells!ActivateTerminalTab(o, t)
  BY <1>2, ActivateKeeps
<1>3. CASE \E t \in Terms : Shells!CloseTerminalTab(o, t)
  <2>1. PICK t \in Terms : /\ Shells!HasTab(t) /\ Shells!Ask(o, "close", t, "delete", 0)
                           /\ UNCHANGED <<feeds, tabStrip, output, front>>
    BY <1>3 DEF Shells!CloseTerminalTab
  <2>2. terminal[t].process # "none"
    BY <2>1, ShellTypes, TabIs
  <2> QED
    BY <1>1, <2>1, <2>2, AskKeeps
<1>4. CASE \/ Shells!Ask(o, "create", "none", "create", 0)
              /\ UNCHANGED <<feeds, tabStrip, output, front>>
           \/ Shells!Ask(o, "create", "none", "list", 0)
              /\ UNCHANGED <<feeds, tabStrip, output, front>>
  BY <1>1, <1>4, AskKeeps, EdgesAssumptions DEF EdgesAssumptions
<1>5. CASE /\ front # "none" /\ UNCHANGED <<feeds, tabStrip, output, front>>
           /\ \/ Shells!Ask(o, "send", front, "write", 0)
              \/ Shells!Ask(o, "send", front, "stop", 0)
              \/ Shells!Ask(o, "restart", front, "delete", 0)
  BY <1>1, <1>5, AskKeeps
<1> QED
  BY <1>2, <1>3, <1>4, <1>5
  DEF Shells!CreateTerminalTab, Shells!OpenTerminal, Shells!SendTerminalData,
      Shells!StopTerminal, Shells!RestartTerminal, Shells!None

\* The tabs of a strip.
InTabs(q, t) == \E i \in 1..Len(q) : q[i] = t

LEMMA HasTabIs == ASSUME tabStrip \in Seq(Terms), NEW t PROVE Shells!HasTab(t) <=> InTabs(tabStrip, t)
<1>1. DOMAIN tabStrip = 1..Len(tabStrip)
  OBVIOUS
<1> QED
  BY <1>1 DEF Shells!HasTab, InTabs

LEMMA AppendTabs ==
    ASSUME NEW q \in Seq(Terms), NEW t \in Terms
    PROVE  /\ Append(q, t) \in Seq(Terms) /\ Append(q, t) # <<>>
           /\ \A u : InTabs(Append(q, t), u) <=> (InTabs(q, u) \/ u = t)
<1> DEFINE r == Append(q, t)
<1>1. /\ r \in Seq(Terms) /\ Len(r) = Len(q) + 1 /\ Len(q) \in Nat /\ r[Len(q) + 1] = t
      /\ \A i \in 1..Len(q) : r[i] = q[i]
  OBVIOUS
<1>2. r # <<>>
  BY <1>1
<1> HIDE DEF r
<1>3. ASSUME NEW u PROVE InTabs(r, u) <=> (InTabs(q, u) \/ u = t)
  <2>1. \A i \in 1..Len(r) : i \in 1..Len(q) \/ i = Len(q) + 1
    BY <1>1
  <2>2. \A i \in 1..Len(q) : i \in 1..Len(r)
    BY <1>1
  <2>3. Len(q) + 1 \in 1..Len(r)
    BY <1>1
  <2> QED
    BY <1>1, <2>1, <2>2, <2>3 DEF InTabs
<1> QED
  BY <1>1, <1>2, <1>3 DEF r

LEMMA JoinTabs ==
    ASSUME NEW q \in Seq(Terms), NEW r \in Seq(Terms)
    PROVE  /\ q \o r \in Seq(Terms)
           /\ \A u : InTabs(q \o r, u) <=> (InTabs(q, u) \/ InTabs(r, u))
<1> DEFINE s == q \o r
<1>1. /\ s \in Seq(Terms) /\ Len(s) = Len(q) + Len(r) /\ Len(q) \in Nat /\ Len(r) \in Nat
      /\ \A i \in 1..Len(q) : s[i] = q[i]
      /\ \A i \in 1..Len(r) : s[Len(q) + i] = r[i]
  OBVIOUS
<1> HIDE DEF s
<1>2. ASSUME NEW u PROVE InTabs(s, u) <=> (InTabs(q, u) \/ InTabs(r, u))
  <2>1. ASSUME NEW i \in 1..Len(s), s[i] = u PROVE InTabs(q, u) \/ InTabs(r, u)
    <3>1. CASE i <= Len(q)
      BY <1>1, <2>1, <3>1 DEF InTabs
    <3>2. CASE i > Len(q)
      <4>1. i - Len(q) \in 1..Len(r) /\ Len(q) + (i - Len(q)) = i
        BY <1>1, <3>2
      <4>2. r[i - Len(q)] = u
        BY <1>1, <2>1, <4>1
      <4> QED
        BY <4>1, <4>2 DEF InTabs
    <3> QED
      BY <1>1, <3>1, <3>2
  <2>2. ASSUME NEW i \in 1..Len(q), q[i] = u PROVE InTabs(s, u)
    <3>1. i \in 1..Len(s) /\ s[i] = u
      BY <1>1, <2>2
    <3> QED
      BY <3>1 DEF InTabs
  <2>3. ASSUME NEW i \in 1..Len(r), r[i] = u PROVE InTabs(s, u)
    <3>1. Len(q) + i \in 1..Len(s) /\ s[Len(q) + i] = u
      BY <1>1, <2>3
    <3> QED
      BY <3>1 DEF InTabs
  <2> QED
    BY <2>1, <2>2, <2>3 DEF InTabs
<1> QED
  BY <1>1, <1>2 DEF s

LEMMA InsertTabs ==
    ASSUME NEW q \in Seq(Terms), NEW t \in Terms, NEW k \in 1..(Len(q) + 1)
    PROVE  /\ Shells!InsertAt(q, k, t) \in Seq(Terms)
           /\ \A u : InTabs(Shells!InsertAt(q, k, t), u) <=> (InTabs(q, u) \/ u = t)
<1> DEFINE a == SubSeq(q, 1, k - 1)
           b == SubSeq(q, k, Len(q))
           one == <<t>>
<1>1. Len(q) \in Nat /\ k - 1 \in Int /\ k \in Int
  OBVIOUS
<1>2. /\ a \in Seq(Terms) /\ Len(a) = k - 1 /\ \A i \in 1..(k - 1) : a[i] = q[i]
  <2>1. \A i \in 1..(k - 1) : i \in 1..Len(q)
    BY <1>1
  <2> QED
    BY <1>1, <2>1, SubSeqProperties
<1>3. /\ b \in Seq(Terms) /\ Len(b) = Len(q) - k + 1
      /\ \A i \in 1..(Len(q) - k + 1) : b[i] = q[k + i - 1]
  <2>1. \A i \in k..Len(q) : i \in 1..Len(q)
    BY <1>1
  <2> QED
    BY <1>1, <2>1, SubSeqProperties
<1>4. one \in Seq(Terms) /\ \A u : InTabs(one, u) <=> u = t
  BY DEF InTabs
<1>5. Shells!InsertAt(q, k, t) = a \o one \o b
  BY DEF Shells!InsertAt
<1> HIDE DEF a, b, one
<1>6. /\ a \o one \o b \in Seq(Terms)
      /\ \A u : InTabs(a \o one \o b, u) <=> (InTabs(a, u) \/ u = t \/ InTabs(b, u))
  <2>1. a \o one \in Seq(Terms) /\ \A u : InTabs(a \o one, u) <=> (InTabs(a, u) \/ u = t)
    BY <1>2, <1>4, JoinTabs
  <2> DEFINE ao == a \o one
  <2> HIDE DEF ao
  <2>2. ao \in Seq(Terms) /\ \A u : InTabs(ao, u) <=> (InTabs(a, u) \/ u = t)
    BY <2>1 DEF ao
  <2>3. ao \o b \in Seq(Terms) /\ \A u : InTabs(ao \o b, u) <=> (InTabs(ao, u) \/ InTabs(b, u))
    BY <1>3, <2>2, JoinTabs
  <2> QED
    BY <2>2, <2>3 DEF ao
<1>7. ASSUME NEW u PROVE (InTabs(a, u) \/ InTabs(b, u)) <=> InTabs(q, u)
  <2>1. ASSUME NEW i \in 1..Len(a), a[i] = u PROVE InTabs(q, u)
    <3>1. i \in 1..Len(q) /\ q[i] = u
      BY <1>1, <1>2, <2>1
    <3> QED
      BY <3>1 DEF InTabs
  <2>2. ASSUME NEW i \in 1..Len(b), b[i] = u PROVE InTabs(q, u)
    <3>1. k + i - 1 \in 1..Len(q) /\ q[k + i - 1] = u
      BY <1>1, <1>3, <2>2
    <3> QED
      BY <3>1 DEF InTabs
  <2>3. ASSUME NEW i \in 1..Len(q), q[i] = u PROVE InTabs(a, u) \/ InTabs(b, u)
    <3>1. CASE i < k
      BY <1>1, <1>2, <2>3, <3>1 DEF InTabs
    <3>2. CASE i >= k
      <4>1. i - k + 1 \in 1..Len(b) /\ k + (i - k + 1) - 1 = i
        BY <1>1, <1>3, <3>2
      <4>2. b[i - k + 1] = u
        BY <1>3, <2>3, <4>1
      <4> QED
        BY <4>1, <4>2 DEF InTabs
    <3> QED
      BY <1>1, <3>1, <3>2
  <2> QED
    BY <2>1, <2>2, <2>3 DEF InTabs
<1> QED
  BY <1>5, <1>6, <1>7

LEMMA SetTabs ==
    ASSUME NEW K \in SUBSET Terms
    PROVE  /\ Shells!SetToSeq(K) \in Seq(Terms)
           /\ \A u : InTabs(Shells!SetToSeq(K), u) <=> u \in K
<1> DEFINE n == Cardinality(K)
           q == Shells!SetToSeq(K)
<1>1. IsFiniteSet(K)
  BY EdgesAssumptions, FS_Subset DEF EdgesAssumptions
<1>2. n \in Nat /\ ExistsBijection(1..n, K)
  BY <1>1, FS_CardinalityType
<1>3. \E f \in [1..n -> K] : Shells!IsInjective(f)
  BY <1>2 DEF ExistsBijection, Bijection, Injection, IsInjective, Shells!IsInjective
<1>4. Shells!Cardinality(K) = Cardinality(K)
  BY DEF Shells!Cardinality, Cardinality
<1>5. q \in [1..n -> K] /\ Shells!IsInjective(q)
  BY <1>3, <1>4 DEF Shells!SetToSeq
<1> HIDE DEF q, n
<1>6. q \in Injection(1..n, K)
  BY <1>5 DEF Injection, IsInjective, Shells!IsInjective
<1>7. Cardinality(1..n) = n /\ IsFiniteSet(1..n)
  BY <1>2, FS_Interval
<1>8. q \in Surjection(1..n, K)
  BY <1>1, <1>6, <1>7, FS_Injection DEF n
<1>9. \A t \in K : \E i \in 1..n : q[i] = t
  BY <1>8 DEF Surjection
<1>10. q \in Seq(Terms) /\ Len(q) = n
  <2>1. q \in [1..n -> Terms] /\ DOMAIN q = 1..n
    BY <1>5
  <2>2. q \in Seq(Terms)
    BY <1>2, <2>1, SeqDef
  <2> QED
    BY <1>2, <2>1, <2>2
<1>11. \A u : InTabs(q, u) <=> u \in K
  BY <1>5, <1>9, <1>10 DEF InTabs
<1> QED
  BY <1>10, <1>11 DEF q

\* The tabs that are left.
LEMMA WithoutTabs ==
    ASSUME tabStrip \in Seq(Terms), NEW t
    PROVE  /\ Shells!Without(t) \in Seq(Terms)
           /\ \A u : InTabs(Shells!Without(t), u) <=> (InTabs(tabStrip, u) /\ u # t)
<1> DEFINE L == Len(tabStrip)
           After(x, e) == IF e = t THEN x ELSE Append(x, e)
           Goes(g) == g = [n \in 0..L |-> IF n = 0 THEN <<>> ELSE After(g[n - 1], tabStrip[n])]
           Upto(g, m) == /\ g \in [0..m -> Seq(Terms)] /\ g[0] = <<>>
                         /\ \A n \in 1..m : g[n] = After(g[n - 1], tabStrip[n])
           rest == CHOOSE g : Goes(g)
<1>1. L \in Nat /\ \A n \in 1..L : tabStrip[n] \in Terms
  OBVIOUS
<1>2. \A x \in Seq(Terms) : \A e \in Terms : After(x, e) \in Seq(Terms)
  OBVIOUS
<1>3. Shells!Without(t) = rest[L]
  <2>1. rest = CHOOSE g : g = [n \in 0..L |-> IF n = 0 THEN <<>>
                                              ELSE IF tabStrip[n] = t THEN g[n - 1]
                                                   ELSE Append(g[n - 1], tabStrip[n])]
    OBVIOUS
  <2> HIDE DEF rest
  <2> QED
    BY <2>1 DEF Shells!Without
<1> HIDE DEF After
<1>4. \A m \in 0..L : \E g : Upto(g, m)
  <2> DEFINE Bad == {m \in 0..L : ~\E g : Upto(g, m)}
  <2>1. CASE Bad = {}
    BY <2>1
  <2>2. CASE Bad # {}
    <3>1. Bad \in SUBSET Nat
      BY <1>1
    <3>2. PICK m \in Bad : \A k \in Bad : m <= k
      <4> HIDE DEF Bad
      <4> QED
        BY <2>2, <3>1, Smallest
    <3>3. CASE m = 0
      <4> DEFINE g == [n \in 0..0 |-> <<>>]
      <4>1. g \in [0..0 -> Seq(Terms)] /\ g[0] = <<>> /\ \A n \in 1..0 : FALSE
        OBVIOUS
      <4>2. Upto(g, 0)
        BY <4>1
      <4> HIDE DEF Upto, g
      <4> QED
        BY <3>2, <3>3, <4>2
    <3>4. CASE m # 0
      <4>1. m \in 1..L /\ m - 1 \in 0..L /\ m - 1 \notin Bad
        <5>1. m \in 0..L
          OBVIOUS
        <5>2. m \in 1..L /\ m - 1 \in 0..L /\ ~(m <= m - 1)
          BY <1>1, <3>4, <5>1
        <5>3. m - 1 \notin Bad
          <6> HIDE DEF Bad
          <6> QED
            BY <3>2, <5>2
        <5> QED
          BY <5>2, <5>3
      <4>2. PICK g : Upto(g, m - 1)
        <5> HIDE DEF Upto
        <5> QED
          BY <4>1
      <4> DEFINE h == [n \in 0..m |-> IF n = m THEN After(g[m - 1], tabStrip[m]) ELSE g[n]]
      <4>3. g[m - 1] \in Seq(Terms) /\ tabStrip[m] \in Terms
        <5>1. m - 1 \in 0..(m - 1)
          BY <4>1
        <5> QED
          BY <1>1, <4>1, <4>2, <5>1
      <4>4. \A n \in 0..m : n = m \/ n \in 0..(m - 1)
        BY <4>1
      <4>5. h \in [0..m -> Seq(Terms)]
        BY <1>2, <4>2, <4>3, <4>4
      <4>6. h[0] = <<>>
        BY <4>1, <4>2
      <4>7. \A n \in 1..m : h[n] = After(h[n - 1], tabStrip[n])
        <5> SUFFICES ASSUME NEW n \in 1..m PROVE h[n] = After(h[n - 1], tabStrip[n])
          OBVIOUS
        <5>1. n - 1 \in 0..m /\ n - 1 # m /\ h[n - 1] = g[n - 1] /\ n \in 0..m
          BY <4>1
        <5>2. CASE n = m
          BY <5>1, <5>2
        <5>3. CASE n # m
          <6>1. n \in 1..(m - 1)
            BY <4>1, <5>3
          <6>2. h[n] = g[n] /\ g[n] = After(g[n - 1], tabStrip[n])
            BY <4>2, <5>1, <5>3, <6>1
          <6> QED
            BY <5>1, <6>2
        <5> QED
          BY <5>2, <5>3
      <4>8. Upto(h, m)
        BY <4>5, <4>6, <4>7
      <4> HIDE DEF Upto, h
      <4> QED
        BY <3>2, <4>8
    <3> QED
      BY <3>3, <3>4
  <2> QED
    BY <2>1, <2>2
<1>5. \E g : Goes(g)
  <2>1. PICK g : Upto(g, L)
    <3> HIDE DEF Upto
    <3> QED
      BY <1>1, <1>4
  <2>2. \A n \in 0..L : g[n] = IF n = 0 THEN <<>> ELSE After(g[n - 1], tabStrip[n])
    BY <1>1, <2>1
  <2>3. g = [n \in 0..L |-> g[n]]
    BY <2>1
  <2>4. Goes(g)
    BY <2>2, <2>3
  <2> QED
    BY <2>4
<1>6. Goes(rest)
  <2> HIDE DEF Goes
  <2> QED
    BY <1>5
<1>7. rest[0] = <<>> /\ \A n \in 1..L : rest[n] = After(rest[n - 1], tabStrip[n])
  <2> HIDE DEF rest
  <2> QED
    BY <1>1, <1>6
<1> HIDE DEF rest
<1> DEFINE Fits(n) == /\ rest[n] \in Seq(Terms)
                      /\ \A u : InTabs(rest[n], u) <=> (u # t /\ \E i \in 1..n : tabStrip[i] = u)
<1>8. \A n \in 0..L : Fits(n)
  <2> DEFINE Bad == {m \in 0..L : ~Fits(m)}
  <2>1. CASE Bad = {}
    BY <2>1
  <2>2. CASE Bad # {}
    <3>1. Bad \in SUBSET Nat
      BY <1>1
    <3>2. PICK m \in Bad : \A k \in Bad : m <= k
      <4> HIDE DEF Bad
      <4> QED
        BY <2>2, <3>1, Smallest
    <3>3. CASE m = 0
      <4>1. rest[0] \in Seq(Terms) /\ Len(rest[0]) = 0
        BY <1>7
      <4>2. Fits(0)
        BY <4>1 DEF InTabs
      <4> QED
        BY <3>2, <3>3, <4>2
    <3>4. CASE m # 0
      <4>1. m \in 1..L /\ m - 1 \in 0..L /\ m - 1 \notin Bad /\ tabStrip[m] \in Terms
        <5>1. m \in 0..L
          OBVIOUS
        <5>2. m \in 1..L /\ m - 1 \in 0..L /\ ~(m <= m - 1)
          BY <1>1, <3>4, <5>1
        <5>3. m - 1 \notin Bad
          <6> HIDE DEF Bad
          <6> QED
            BY <3>2, <5>2
        <5> QED
          BY <1>1, <5>2, <5>3
      <4>2. Fits(m - 1)
        <5> HIDE DEF Fits
        <5> QED
          BY <4>1
      <4> DEFINE x == rest[m - 1]
                 y == rest[m]
                 e == tabStrip[m]
      <4>3. /\ x \in Seq(Terms) /\ e \in Terms /\ y = After(x, e)
            /\ \A u : InTabs(x, u) <=> (u # t /\ \E i \in 1..(m - 1) : tabStrip[i] = u)
        BY <1>7, <4>1, <4>2
      <4>4. \A u : (\E i \in 1..m : tabStrip[i] = u) <=>
                   (u = e \/ \E i \in 1..(m - 1) : tabStrip[i] = u)
        <5>1. /\ \A i \in 1..m : i = m \/ i \in 1..(m - 1)
              /\ \A i \in 1..(m - 1) : i \in 1..m
              /\ m \in 1..m
          BY <4>1
        <5> QED
          BY <5>1
      <4> HIDE DEF x, y, e
      <4>5. /\ y \in Seq(Terms)
            /\ \A u : InTabs(y, u) <=> (InTabs(x, u) \/ (u = e /\ e # t))
        <5>1. CASE e = t
          BY <4>3, <5>1 DEF After
        <5>2. CASE e # t
          <6>1. y = Append(x, e)
            BY <4>3, <5>2 DEF After
          <6> QED
            BY <4>3, <5>2, <6>1, AppendTabs
        <5> QED
          BY <5>1, <5>2
      <4>6. \A u : InTabs(y, u) <=> (u # t /\ \E i \in 1..m : tabStrip[i] = u)
        BY <4>3, <4>4, <4>5
      <4>7. Fits(m)
        BY <4>5, <4>6 DEF y
      <4> QED
        BY <3>2, <4>7
    <3> QED
      BY <3>3, <3>4
  <2> QED
    BY <2>1, <2>2
<1>9. Fits(L)
  <2>1. L \in 0..L
    BY <1>1
  <2> HIDE DEF Fits
  <2> QED
    BY <1>8, <2>1
<1>10. \A u : InTabs(tabStrip, u) <=> \E i \in 1..L : tabStrip[i] = u
  BY DEF InTabs
<1> DEFINE last == rest[L]
<1>11. last \in Seq(Terms) /\ \A u : InTabs(last, u) <=> (InTabs(tabStrip, u) /\ u # t)
  BY <1>9, <1>10
<1>12. Shells!Without(t) = last
  BY <1>3
<1> HIDE DEF last
<1> QED
  BY <1>11, <1>12

\* Events that fill what is shown leave no hole when they are put together with it.
LEMMA NewestFits ==
    ASSUME NEW n \in Nat \ {0}, NEW S \in SUBSET (1..(n - 1)), NEW E \in SUBSET (1..(n - 1)),
           NEW R, R = Shells!Newest(S \cup E)
    PROVE  /\ R \subseteq S \cup E /\ R \subseteq 1..(n - 1)
           /\ \A s \in S \cup E : s \in R \/ s + MaxKept < n
           /\ ((\A e \in S : CoveredTo(S, n, e)) /\ FillsIn(S, n, E))
                 => \A e \in R : CoveredTo(R, n, e)
<1> DEFINE B == S \cup E
           m == n - 1
<1>1. m \in Nat /\ B \in SUBSET (1..m)
  OBVIOUS
<1>2. R \subseteq B /\ \A s \in B : s \in R \/ s + MaxKept <= m
  <2> HIDE DEF B, m
  <2>1. R = Shells!Newest(B)
    BY DEF B
  <2> QED
    BY <1>1, <2>1, NewestIs
<1>3. MaxKept \in Nat
  BY EdgesAssumptions DEF EdgesAssumptions
<1>4. \A s \in B : s \in R \/ s + MaxKept < n
  BY <1>1, <1>2, <1>3
<1>5. ASSUME \A e \in S : CoveredTo(S, n, e), FillsIn(S, n, E), NEW e \in R
      PROVE  CoveredTo(R, n, e)
  <2> SUFFICES ASSUME NEW s \in 1..(e - 1) PROVE s \in R \/ s + MaxKept < n
    BY DEF CoveredTo
  <2>1. e \in 1..m /\ s \in 1..e
    BY <1>1, <1>2
  <2>2. s \in B \/ s + MaxKept < n
    <3>1. CASE e \in S
      BY <1>5, <3>1 DEF CoveredTo
    <3>2. CASE e \in E
      BY <1>5, <2>1, <3>2 DEF FillsIn
    <3> QED
      BY <1>2, <3>1, <3>2
  <2> QED
    BY <1>4, <2>2
<1> QED
  BY <1>1, <1>2, <1>4, <1>5

LEMMA ShownIs ==
    ASSUME tabStrip \in Seq(Terms), tabStrip' \in Seq(Terms), NEW t \in Terms
    PROVE  /\ ShownNow[t] = IF InTabs(tabStrip, t) THEN output[t] ELSE {}
           /\ ShownNow'[t] = IF InTabs(tabStrip', t) THEN output'[t] ELSE {}
<1>1. DOMAIN tabStrip = 1..Len(tabStrip) /\ DOMAIN tabStrip' = 1..Len(tabStrip')
  OBVIOUS
<1> QED
  BY <1>1 DEF ShownNow, Shells!HasTab, InTabs

\* What an operation brings is put together with what the tab of its terminal shows.
LEMMA MergedShown ==
    ASSUME ShellInv, terminal' = terminal, NEW t \in Terms, terminal[t].process # "none",
           NEW E \in SUBSET (1..(terminal[t].next - 1)),
           replaced \/ (NotDeleted(terminal, t) => FillsIn(ShownNow[t], terminal[t].next, E)),
           tabStrip' \in Seq(Terms), InTabs(tabStrip', t),
           \A u \in Terms \ {t} : InTabs(tabStrip', u) => InTabs(tabStrip, u),
           replaced \/ \A u \in Terms \ {t} :
              NotDeleted(terminal, u) /\ InTabs(tabStrip, u) => InTabs(tabStrip', u),
           NEW R, R = Shells!Newest(ShownNow[t] \cup E), output' = [output EXCEPT ![t] = R],
           front' = front \/ front' = t
    PROVE  /\ TabsTyped' /\ ShownNow'[t] = R /\ Shells!Latest(R) \in Nat
           /\ replaced \/ (/\ ShownStays(ShownNow, terminal, ShownNow', terminal)
                           /\ \A u \in Terms : TabFits(u, ShownNow', terminal)
                           /\ NotDeleted(terminal, t) =>
                                 CoveredTo(R, terminal[t].next, Shells!Latest(R) + 1))
<1> DEFINE n == terminal[t].next
           S == ShownNow[t]
<1>1. /\ n \in Nat \ {0} /\ TabsTyped /\ tabStrip \in Seq(Terms) /\ output \in [Terms -> SUBSET Nat]
      /\ \A u \in Terms : terminal[u].next \in Nat
  BY ShellTypes DEF TabsTyped
<1>2. S \in SUBSET (1..(n - 1)) /\ E \in SUBSET (1..(n - 1))
  BY <1>1 DEF TabsTyped, ShownNow
<1>3. R = Shells!Newest(S \cup E)
  OBVIOUS
<1> HIDE DEF n, S
<1>4. /\ R \subseteq S \cup E /\ R \subseteq 1..(n - 1)
      /\ \A s \in S \cup E : s \in R \/ s + MaxKept < n
      /\ ((\A e \in S : CoveredTo(S, n, e)) /\ FillsIn(S, n, E)) => \A e \in R : CoveredTo(R, n, e)
  BY <1>1, <1>2, <1>3, NewestFits
<1>5. /\ Shells!Latest(R) \in Nat
      /\ (\A e \in R : CoveredTo(R, n, e)) => CoveredTo(R, n, Shells!Latest(R) + 1)
  <2> DEFINE m == n - 1
  <2>1. m \in Nat /\ n \in Nat
    BY <1>1
  <2>2. R \in SUBSET (1..m)
    <3>1. R \subseteq 1..m
      BY <1>4
    <3> QED
      BY <3>1, Zenon
  <2> HIDE DEF m
  <2> QED
    BY <2>1, <2>2, TopCovers
<1>6. /\ output' \in [Terms -> SUBSET Nat] /\ output'[t] = R
      /\ \A u \in Terms \ {t} : output'[u] = output[u]
  <2>1. R \in SUBSET Nat
    <3>1. R \subseteq 1..(n - 1)
      BY <1>4
    <3>2. 1..(n - 1) \subseteq Nat
      <4>1. n - 1 \in Nat
        BY <1>1
      <4> QED
        BY <4>1
    <3> QED
      BY <3>1, <3>2, Zenon
  <2> QED
    BY <1>1, <2>1
<1>7. ShownNow'[t] = R
  BY <1>1, <1>6, ShownIs
<1>8. TabsTyped'
  <2>1. \A u \in Terms : output'[u] \subseteq 1..(terminal[u].next - 1)
    <3> SUFFICES ASSUME NEW u \in Terms PROVE output'[u] \subseteq 1..(terminal[u].next - 1)
      OBVIOUS
    <3>1. CASE u = t
      BY <1>4, <1>6, <3>1 DEF n
    <3>2. CASE u # t
      BY <1>1, <1>6, <3>2 DEF TabsTyped
    <3> QED
      BY <3>1, <3>2
  <2>2. \A i \in 1..Len(tabStrip') : terminal[tabStrip'[i]].process # "none"
    <3> SUFFICES ASSUME NEW i \in 1..Len(tabStrip')
                 PROVE  terminal[tabStrip'[i]].process # "none"
      OBVIOUS
    <3> DEFINE u == tabStrip'[i]
    <3>1. u \in Terms /\ InTabs(tabStrip', u)
      BY DEF InTabs
    <3> HIDE DEF u
    <3>2. u = t \/ InTabs(tabStrip, u)
      BY <3>1
    <3>3. terminal[u].process # "none"
      BY <1>1, <3>2 DEF TabsTyped, InTabs
    <3> QED
      BY <3>3 DEF u
  <2>3. front' \in Terms \cup {"none"} /\ (front' \in Terms => terminal[front'].process # "none")
    BY <1>1 DEF TabsTyped
  <2> QED
    BY <1>6, <2>1, <2>2, <2>3 DEF TabsTyped
<1>9. ASSUME ~replaced
      PROVE  /\ ShownStays(ShownNow, terminal, ShownNow', terminal)
             /\ \A u \in Terms : TabFits(u, ShownNow', terminal)
             /\ NotDeleted(terminal, t) => CoveredTo(R, n, Shells!Latest(R) + 1)
  <2>1. ASSUME NEW u \in Terms \ {t}, NotDeleted(terminal, u) PROVE ShownNow'[u] = ShownNow[u]
    BY <1>1, <1>6, <1>9, <2>1, ShownIs
  <2>2. ASSUME NotDeleted(terminal, t) PROVE \A e \in R : CoveredTo(R, n, e)
    <3>1. TabFits(t, ShownNow, terminal)
      BY <1>9 DEF ShellInv, ShellSafe
    <3>2. \A e \in S : CoveredTo(S, n, e)
      BY <2>2, <3>1 DEF TabFits, S, n
    <3>3. FillsIn(S, n, E)
      BY <1>9, <2>2 DEF S, n
    <3> QED
      BY <1>4, <3>2, <3>3
  <2>3. ShownStays(ShownNow, terminal, ShownNow', terminal)
    <3> SUFFICES ASSUME NEW u \in Terms, NotDeleted(terminal, u), NEW s \in ShownNow[u]
                 PROVE  s \in ShownNow'[u] \/ s + MaxKept < terminal[u].next
      BY <1>1 DEF ShownStays
    <3>1. CASE u = t
      <4>1. s \in S \cup E
        BY <3>1 DEF S
      <4> QED
        BY <1>4, <1>7, <3>1, <4>1 DEF n
    <3>2. CASE u # t
      BY <2>1, <3>2
    <3> QED
      BY <3>1, <3>2
  <2>4. ASSUME NEW u \in Terms PROVE TabFits(u, ShownNow', terminal)
    <3>1. CASE u = t
      <4>1. NotDeleted(terminal, t) => \A e \in ShownNow'[t] : CoveredTo(ShownNow'[t], n, e)
        BY <1>7, <2>2
      <4> QED
        BY <3>1, <4>1 DEF TabFits, n
    <3>2. CASE u # t
      <4>1. TabFits(u, ShownNow, terminal)
        BY <1>9 DEF ShellInv, ShellSafe
      <4> QED
        BY <2>1, <3>2, <4>1 DEF TabFits
    <3> QED
      BY <3>1, <3>2
  <2> QED
    BY <1>5, <2>2, <2>3, <2>4
<1> QED
  BY <1>5, <1>7, <1>8, <1>9 DEF n

\* The console goes on with one operation, after a change of what is shown.
LEMMA BeginKeeps ==
    ASSUME ShellInv, terminal' = terminal, TabsTyped', NEW o \in TermOps, NEW does \in ShellTasks,
           NEW on \in Terms, NEW at \in {"token", "snapshot"}, NEW after \in Nat,
           terminal[on].process # "none", Shells!Begin(o, does, on, at, after),
           feeds' = feeds \/ \E k : feeds' = Shells!Hang(k),
           replaced' \in BOOLEAN, replaced => replaced',
           replaced' \/ (/\ ShownStays(ShownNow, terminal, ShownNow', terminal)
                         /\ \A t \in Terms : TabFits(t, ShownNow', terminal)
                         /\ NotDeleted(terminal, on) =>
                               CoveredTo(ShownNow'[on], terminal[on].next, after + 1))
    PROVE  ShellInv'
<1> DEFINE c == termOp[o]
           d == [c EXCEPT !.does = does, !.on = on, !.at = at, !.after = after]
<1>1. c \in OpStates /\ OpTyped(c, terminal) /\ termOp \in [TermOps -> OpStates]
  BY ShellTypes
<1>2. replaced' \/ OpFits(c, ShownNow', terminal)
  <2> SUFFICES ASSUME ~replaced' PROVE OpFits(c, ShownNow', terminal)
    OBVIOUS
  <2> DEFINE S == ShownNow
             S2 == ShownNow'
             T == terminal
  <2>1. S2 \in [Terms -> SUBSET Nat]
    BY DEF TabsTyped, ShownNow
  <2>2. /\ S \in [Terms -> SUBSET Nat] /\ T \in [Terms -> TermStates] /\ ShownStays(S, T, S2, T)
        /\ OpFits(c, S, T) /\ (c.at \in TargetedSteps => c.on \in Terms)
    BY <1>1, ShellTypes DEF ShellSafe, OpTyped
  <2> HIDE DEF S, S2, T, c
  <2>3. OpFits(c, S2, T)
    BY <1>1, <2>1, <2>2, OpFitsStays
  <2> QED
    BY <2>3 DEF S2, T
<1>3. termOp' = [termOp EXCEPT ![o] = d]
  BY DEF Shells!Begin
<1> HIDE DEF c
<1>4. /\ d \in OpStates /\ d.at = at /\ d.on = on /\ d.after = after /\ d.old = c.old
      /\ d.events = c.events
  <2>1. at \in ShellSteps
    BY DEF ShellSteps, TargetedSteps
  <2> QED
    BY <1>1, <2>1 DEF OpStates
<1> HIDE DEF d
<1>5. OpTyped(d, terminal)
  BY <1>1, <1>4 DEF OpTyped
<1>6. replaced' \/ OpFits(d, ShownNow', terminal)
  BY <1>2, <1>4 DEF OpFits
<1>7. /\ termOp' \in [TermOps -> OpStates]
      /\ \A p \in TermOps : termOp'[p] = termOp[p] \/ termOp'[p] = d
  BY <1>1, <1>3, <1>4
<1>8. \A p \in TermOps : \/ termOp'[p] = termOp[p]
                         \/ /\ OpTyped(termOp'[p], terminal)
                            /\ replaced' \/ OpFits(termOp'[p], ShownNow', terminal)
  BY <1>5, <1>6, <1>7
<1> QED
  BY <1>7, <1>8, ConsoleKeeps

\* An operation ends.
LEMMA EndKeeps ==
    ASSUME ShellInv, terminal' = terminal, TabsTyped', NEW o \in TermOps, Shells!Fail(o),
           feeds' = feeds \/ \E k : feeds' = Shells!Hang(k),
           replaced' \in BOOLEAN, replaced => replaced',
           replaced' \/ (/\ ShownStays(ShownNow, terminal, ShownNow', terminal)
                         /\ \A t \in Terms : TabFits(t, ShownNow', terminal))
    PROVE  ShellInv'
<1> DEFINE d == Shells!Free
           S2 == ShownNow'
<1>1. d \in OpStates /\ OpTyped(d, terminal) /\ OpFits(d, S2, terminal)
  <2> HIDE DEF S2
  <2> QED
    BY FreeIs
<1>2. termOp' = [termOp EXCEPT ![o] = d]
  BY DEF Shells!Fail
<1> HIDE DEF d
<1>3. /\ termOp' \in [TermOps -> OpStates]
      /\ \A p \in TermOps : termOp'[p] = termOp[p] \/ termOp'[p] = d
  BY <1>1, <1>2, ShellTypes
<1>4. \A p \in TermOps : \/ termOp'[p] = termOp[p]
                         \/ /\ OpTyped(termOp'[p], terminal)
                            /\ replaced' \/ OpFits(termOp'[p], ShownNow', terminal)
  BY <1>1, <1>3
<1> QED
  BY <1>3, <1>4, ConsoleKeeps

LEMMA AddingTabs ==
    ASSUME tabStrip \in Seq(Terms), NEW t \in Terms
    PROVE  /\ Shells!Adding(t) \in Seq(Terms)
           /\ \A u : InTabs(Shells!Adding(t), u) <=> (InTabs(tabStrip, u) \/ u = t)
<1>1. CASE Shells!HasTab(t)
  BY <1>1, HasTabIs DEF Shells!Adding
<1>2. CASE ~Shells!HasTab(t)
  BY <1>2, AppendTabs DEF Shells!Adding
<1> QED
  BY <1>1, <1>2

\* An operation that brings events is about a terminal that was started, and they fill
\* what its tab shows.
LEMMA BringsIs ==
    ASSUME ShellInv, NEW o \in TermOps, termOp[o].at \in TargetedSteps
    PROVE  /\ termOp[o].on \in Terms /\ terminal[termOp[o].on].process # "none"
           /\ termOp[o].events[termOp[o].on] \in SUBSET (1..(terminal[termOp[o].on].next - 1))
           /\ replaced \/ (NotDeleted(terminal, termOp[o].on) =>
                   FillsIn(ShownNow[termOp[o].on], terminal[termOp[o].on].next,
                           termOp[o].events[termOp[o].on]))
           /\ Shells!Merged(o)
                 = Shells!Newest(ShownNow[termOp[o].on] \cup termOp[o].events[termOp[o].on])
           /\ termOp[o].does \in ShellTasks
<1>1. /\ termOp[o] \in OpStates /\ OpTyped(termOp[o], terminal)
      /\ replaced \/ OpFits(termOp[o], ShownNow, terminal)
  BY ShellTypes DEF ShellSafe
<1>2. termOp[o].on \in Terms
  BY <1>1 DEF OpTyped
<1>3. ShownNow[termOp[o].on]
         = IF Shells!HasTab(termOp[o].on) THEN output[termOp[o].on] ELSE {}
  BY <1>2 DEF ShownNow
<1>4. termOp[o].does \in ShellTasks
  BY <1>1 DEF OpStates
<1> QED
  BY <1>1, <1>2, <1>3, <1>4 DEF OpTyped, OpFits, Shells!Merged

LEMMA MergeKeeps == ASSUME ShellInv, NEW o \in TermOps, Shells!Merge(o) PROVE ShellInv'
<1> DEFINE t == termOp[o].on
           E == termOp[o].events[t]
           R == Shells!Merged(o)
<1>1. /\ termOp[o].at = "merge" /\ tabStrip' = Shells!Adding(t)
      /\ output' = [output EXCEPT ![t] = R] /\ UNCHANGED <<terminal, front, replaced>>
  BY DEF Shells!Merge
<1>2. /\ t \in Terms /\ terminal[t].process # "none" /\ E \in SUBSET (1..(terminal[t].next - 1))
      /\ replaced \/ (NotDeleted(terminal, t) => FillsIn(ShownNow[t], terminal[t].next, E))
      /\ R = Shells!Newest(ShownNow[t] \cup E) /\ termOp[o].does \in ShellTasks
  BY <1>1, BringsIs DEF TargetedSteps
<1>3. tabStrip \in Seq(Terms) /\ replaced \in BOOLEAN
  BY ShellTypes DEF TabsTyped
<1> HIDE DEF E, R
<1>4. /\ tabStrip' \in Seq(Terms)
      /\ \A u : InTabs(tabStrip', u) <=> (InTabs(tabStrip, u) \/ u = t)
  BY <1>1, <1>2, <1>3, AddingTabs
<1> HIDE DEF t
<1>5. /\ TabsTyped' /\ ShownNow'[t] = R /\ Shells!Latest(R) \in Nat
      /\ replaced \/ (/\ ShownStays(ShownNow, terminal, ShownNow', terminal)
                      /\ \A u \in Terms : TabFits(u, ShownNow', terminal)
                      /\ NotDeleted(terminal, t) =>
                            CoveredTo(R, terminal[t].next, Shells!Latest(R) + 1))
  BY <1>1, <1>2, <1>4, MergedShown
<1>6. CASE Shells!Attach(o, t, R)
  <2> DEFINE after == Shells!Latest(R)
  <2>1. /\ Shells!Begin(o, termOp[o].does, t, "token", after) /\ \E k : feeds' = Shells!Hang(k)
    BY <1>6 DEF Shells!Attach, Shells!CloseSource
  <2> HIDE DEF after
  <2>2. after \in Nat
    BY <1>5 DEF after
  <2>3. replaced \/ (NotDeleted(terminal, t) =>
                        CoveredTo(ShownNow'[t], terminal[t].next, after + 1))
    BY <1>5 DEF after
  <2> QED
    BY <1>1, <1>2, <1>3, <1>5, <2>1, <2>2, <2>3, BeginKeeps
<1>7. CASE Shells!Fail(o) /\ UNCHANGED feeds
  BY <1>1, <1>3, <1>5, <1>7, EndKeeps
<1> QED
  BY <1>6, <1>7 DEF Shells!Merge, t, R

LEMMA MinIs ==
    ASSUME NEW a \in Nat \ {0}, NEW b \in Nat \ {0}
    PROVE  Shells!Min({a, b}) \in 1..b
<1>1. \E x \in {a, b} : \A y \in {a, b} : x <= y
  OBVIOUS
<1> DEFINE m == Shells!Min({a, b})
<1>2. m \in {a, b} /\ \A y \in {a, b} : m <= y
  BY <1>1 DEF Shells!Min
<1> HIDE DEF m
<1>3. m \in 1..b
  BY <1>2
<1> QED
  BY <1>3 DEF m

\* A new tab, or one in the place of a terminal that was deleted.
LEMMA TabCreatedKeeps ==
    ASSUME ShellInv, NEW o \in TermOps, Shells!Created(o)
    PROVE  /\ ShellInv' /\ tabStrip' \in Seq(Terms) /\ InTabs(tabStrip', termOp[o].on)
           /\ replaced \/ \A u \in Terms : NotDeleted(terminal, u) /\ InTabs(tabStrip, u)
                              => InTabs(tabStrip', u)
<1> DEFINE t == termOp[o].on
           E == termOp[o].events[t]
           R == Shells!Merged(o)
           rest == Shells!Without(termOp[o].old)
           slot == termOp[o].slot
           k == Shells!Min({slot, Len(rest) + 1})
<1>1. /\ termOp[o].at = "created" /\ front' = t
      /\ tabStrip' = IF termOp[o].does = "create" THEN Shells!Adding(t)
                     ELSE Shells!InsertAt(rest, k, t)
      /\ output' = [output EXCEPT ![t] = R] /\ UNCHANGED <<terminal, replaced>>
      /\ Shells!Attach(o, t, R)
  BY DEF Shells!Created
<1>2. /\ t \in Terms /\ terminal[t].process # "none" /\ E \in SUBSET (1..(terminal[t].next - 1))
      /\ replaced \/ (NotDeleted(terminal, t) => FillsIn(ShownNow[t], terminal[t].next, E))
      /\ R = Shells!Newest(ShownNow[t] \cup E) /\ termOp[o].does \in ShellTasks
  BY <1>1, BringsIs DEF TargetedSteps
<1>3. tabStrip \in Seq(Terms) /\ replaced \in BOOLEAN /\ slot \in Nat \ {0}
  <2>1. termOp[o] \in OpStates
    BY ShellTypes
  <2> QED
    BY <2>1, ShellTypes DEF TabsTyped, OpStates
<1>4. replaced \/ (termOp[o].old \in Terms => ~NotDeleted(terminal, termOp[o].old))
  BY ShellTypes DEF ShellSafe, OpFits
<1> HIDE DEF E, R, slot
<1>5. /\ tabStrip' \in Seq(Terms) /\ InTabs(tabStrip', t)
      /\ \A u \in Terms \ {t} : InTabs(tabStrip', u) => InTabs(tabStrip, u)
      /\ replaced \/ \A u \in Terms \ {t} :
            NotDeleted(terminal, u) /\ InTabs(tabStrip, u) => InTabs(tabStrip', u)
  <2>1. CASE termOp[o].does = "create"
    <3>1. /\ tabStrip' \in Seq(Terms)
          /\ \A u : InTabs(tabStrip', u) <=> (InTabs(tabStrip, u) \/ u = t)
      BY <1>1, <1>2, <1>3, <2>1, AddingTabs
    <3> QED
      BY <3>1
  <2>2. CASE termOp[o].does # "create"
    <3>1. /\ rest \in Seq(Terms)
          /\ \A u : InTabs(rest, u) <=> (InTabs(tabStrip, u) /\ u # termOp[o].old)
      BY <1>3, WithoutTabs
    <3>2. tabStrip' = Shells!InsertAt(rest, k, t)
      BY <1>1, <2>2
    <3> HIDE DEF rest
    <3>3. k \in 1..(Len(rest) + 1)
      <4> DEFINE b == Len(rest) + 1
      <4>1. b \in Nat \ {0}
        BY <3>1
      <4> HIDE DEF b
      <4>2. Shells!Min({slot, b}) \in 1..b
        BY <1>3, <4>1, MinIs
      <4> QED
        BY <4>2 DEF b
    <3> HIDE DEF k
    <3>4. /\ tabStrip' \in Seq(Terms)
          /\ \A u : InTabs(tabStrip', u) <=> (InTabs(rest, u) \/ u = t)
      BY <1>2, <3>1, <3>2, <3>3, InsertTabs
    <3> QED
      BY <1>4, <3>1, <3>4
  <2> QED
    BY <2>1, <2>2
<1> HIDE DEF t
<1>6. /\ TabsTyped' /\ ShownNow'[t] = R /\ Shells!Latest(R) \in Nat
      /\ replaced \/ (/\ ShownStays(ShownNow, terminal, ShownNow', terminal)
                      /\ \A u \in Terms : TabFits(u, ShownNow', terminal)
                      /\ NotDeleted(terminal, t) =>
                            CoveredTo(R, terminal[t].next, Shells!Latest(R) + 1))
  BY <1>1, <1>2, <1>5, MergedShown
<1>7. ShellInv'
  <2> DEFINE after == Shells!Latest(R)
  <2>1. /\ Shells!Begin(o, termOp[o].does, t, "token", after) /\ \E n : feeds' = Shells!Hang(n)
    BY <1>1 DEF Shells!Attach, Shells!CloseSource
  <2> HIDE DEF after
  <2>2. after \in Nat
    BY <1>6 DEF after
  <2>3. replaced \/ (NotDeleted(terminal, t) =>
                        CoveredTo(ShownNow'[t], terminal[t].next, after + 1))
    BY <1>6 DEF after
  <2> QED
    BY <1>1, <1>2, <1>3, <1>6, <2>1, <2>2, <2>3, BeginKeeps
<1> QED
  BY <1>5, <1>7 DEF t

\* The terminals that were there take the place of the tabs, if there are any.
LEMMA ListedKeeps == ASSUME ShellInv, NEW o \in TermOps, Shells!Listed(o) PROVE ShellInv'
<1> DEFINE ev == termOp[o].events
           known == {t \in Terms : ev[t] # {}}
           t == CHOOSE x \in known : TRUE
<1>1. /\ termOp[o].at = "listed" /\ tabStrip' = Shells!SetToSeq(known)
      /\ output' = [u \in Terms |-> ev[u]] /\ front' = t /\ Shells!Attach(o, t, ev[t])
      /\ replaced' = (replaced \/ tabStrip # <<>>) /\ UNCHANGED terminal
  BY DEF Shells!Listed
<1>2. /\ termOp[o] \in OpStates /\ OpTyped(termOp[o], terminal)
      /\ replaced \/ OpFits(termOp[o], ShownNow, terminal)
  BY ShellTypes DEF ShellSafe
<1>3. /\ \A u \in Terms : ev[u] \in SUBSET (1..(terminal[u].next - 1)) /\ ev[u] \in SUBSET Nat
      /\ termOp[o].does \in ShellTasks
  BY <1>2 DEF OpTyped, OpStates
<1>4. /\ \A u \in Terms : terminal[u].next \in Nat \ {0} /\ TermOK(terminal[u])
      /\ tabStrip \in Seq(Terms) /\ replaced \in BOOLEAN
  BY ShellTypes DEF TabsTyped
<1>5. t \in known
  BY <1>1, <1>2 DEF OpTyped
<1>6. tabStrip' \in Seq(Terms) /\ \A u : InTabs(tabStrip', u) <=> u \in known
  <2>1. known \in SUBSET Terms
    OBVIOUS
  <2> HIDE DEF known
  <2> QED
    BY <1>1, <2>1, SetTabs
<1>7. \A u \in Terms : ev[u] # {} => terminal[u].process # "none"
  <2> SUFFICES ASSUME NEW u \in Terms, NEW e \in ev[u] PROVE terminal[u].process # "none"
    OBVIOUS
  <2>1. e \in 1..(terminal[u].next - 1)
    BY <1>3
  <2>2. terminal[u].next # 1
    BY <1>4, <2>1
  <2> QED
    BY <1>4, <2>2 DEF TermOK
<1> HIDE DEF ev
<1>8. t \in Terms /\ terminal[t].process # "none" /\ ev[t] \in SUBSET (1..(terminal[t].next - 1))
  BY <1>3, <1>5, <1>7
<1> HIDE DEF t
<1>9. \A u \in Terms : ShownNow'[u] = ev[u]
  BY <1>1, <1>4, <1>6, ShownIs
<1>10. TabsTyped'
  <2>1. \A i \in 1..Len(tabStrip') : terminal[tabStrip'[i]].process # "none"
    <3> SUFFICES ASSUME NEW i \in 1..Len(tabStrip')
                 PROVE  terminal[tabStrip'[i]].process # "none"
      OBVIOUS
    <3>1. InTabs(tabStrip', tabStrip'[i])
      BY DEF InTabs
    <3> QED
      BY <1>6, <1>7, <3>1
  <2>2. /\ output' \in [Terms -> SUBSET Nat]
        /\ \A u \in Terms : output'[u] \subseteq 1..(terminal[u].next - 1)
    BY <1>1, <1>3
  <2> QED
    BY <1>1, <1>6, <1>8, <2>1, <2>2 DEF TabsTyped
<1>11. /\ Shells!Latest(ev[t]) \in Nat
       /\ (\A e \in ev[t] : CoveredTo(ev[t], terminal[t].next, e))
             => CoveredTo(ev[t], terminal[t].next, Shells!Latest(ev[t]) + 1)
  <2> DEFINE m == terminal[t].next - 1
             n == terminal[t].next
             E == ev[t]
  <2>1. m \in Nat /\ E \in SUBSET (1..m) /\ n \in Nat
    BY <1>4, <1>8
  <2> HIDE DEF m, n, E
  <2>2. /\ Shells!Latest(E) \in Nat
        /\ (\A e \in E : CoveredTo(E, n, e)) => CoveredTo(E, n, Shells!Latest(E) + 1)
    BY <2>1, TopCovers
  <2> QED
    BY <2>2 DEF n, E
<1>12. ASSUME ~replaced'
       PROVE  /\ \A u \in Terms : ShownNow[u] = {}
              /\ \A u \in Terms : NotDeleted(terminal, u) =>
                    \A e \in ev[u] : CoveredTo(ev[u], terminal[u].next, e)
  <2>1. ~replaced /\ tabStrip = <<>>
    BY <1>1, <1>12
  <2>2. \A u \in Terms : ShownNow[u] = {}
    BY <2>1 DEF ShownNow, Shells!HasTab
  <2>3. ASSUME NEW u \in Terms, NotDeleted(terminal, u), NEW e \in ev[u]
        PROVE  CoveredTo(ev[u], terminal[u].next, e)
    <3>1. FillsIn({}, terminal[u].next, ev[u])
      BY <1>2, <2>1, <2>2, <2>3 DEF OpFits, ev
    <3>2. e \in Nat
      BY <1>3
    <3>3. \A s \in 1..(e - 1) : s \in 1..e
      BY <3>2
    <3> QED
      BY <3>1, <3>3 DEF FillsIn, CoveredTo
  <2> QED
    BY <2>2, <2>3
<1>13. replaced' \/ (/\ ShownStays(ShownNow, terminal, ShownNow', terminal)
                     /\ \A u \in Terms : TabFits(u, ShownNow', terminal)
                     /\ NotDeleted(terminal, t) =>
                           CoveredTo(ShownNow'[t], terminal[t].next, Shells!Latest(ev[t]) + 1))
  <2> SUFFICES ASSUME ~replaced'
               PROVE  /\ ShownStays(ShownNow, terminal, ShownNow', terminal)
                      /\ \A u \in Terms : TabFits(u, ShownNow', terminal)
                      /\ NotDeleted(terminal, t) =>
                            CoveredTo(ShownNow'[t], terminal[t].next, Shells!Latest(ev[t]) + 1)
    OBVIOUS
  <2>1. ShownStays(ShownNow, terminal, ShownNow', terminal)
    BY <1>4, <1>12 DEF ShownStays
  <2>2. \A u \in Terms : TabFits(u, ShownNow', terminal)
    BY <1>9, <1>12 DEF TabFits
  <2>3. NotDeleted(terminal, t) =>
           CoveredTo(ShownNow'[t], terminal[t].next, Shells!Latest(ev[t]) + 1)
    BY <1>8, <1>9, <1>11, <1>12
  <2> QED
    BY <2>1, <2>2, <2>3
<1> DEFINE after == Shells!Latest(ev[t])
<1>14. /\ Shells!Begin(o, termOp[o].does, t, "token", after) /\ \E n : feeds' = Shells!Hang(n)
  BY <1>1 DEF Shells!Attach, Shells!CloseSource
<1>15. after \in Nat
  BY <1>11
<1>16. replaced' \in BOOLEAN /\ (replaced => replaced')
  BY <1>1, Zenon
<1> HIDE DEF after
<1>17. replaced' \/ (/\ ShownStays(ShownNow, terminal, ShownNow', terminal)
                     /\ \A u \in Terms : TabFits(u, ShownNow', terminal)
                     /\ NotDeleted(terminal, t) =>
                           CoveredTo(ShownNow'[t], terminal[t].next, after + 1))
  BY <1>13 DEF after
<1> QED
  BY <1>1, <1>3, <1>8, <1>10, <1>14, <1>15, <1>16, <1>17, BeginKeeps

\* What is left of the tabs: those of terminals that are not deleted.
LEMMA TabDeletedKeeps ==
    ASSUME ShellInv, NEW o \in TermOps, Shells!Deleted(o)
    PROVE  /\ ShellInv' /\ tabStrip' \in Seq(Terms)
           /\ replaced \/ \A u \in Terms : NotDeleted(terminal, u) /\ InTabs(tabStrip, u)
                              => InTabs(tabStrip', u)
<1> DEFINE c == termOp[o]
           t == c.on
           rest == Shells!Without(t)
           next == IF rest = <<>> THEN "none" ELSE rest[Shells!Min({c.slot, Len(rest)})]
<1>1. c.at = "deleted" /\ UNCHANGED <<terminal, output, replaced>>
  BY DEF Shells!Deleted
<1>2. /\ c \in OpStates /\ OpTyped(c, terminal) /\ termOp \in [TermOps -> OpStates]
      /\ replaced \/ OpFits(c, ShownNow, terminal)
  BY ShellTypes DEF ShellSafe
<1>3. t \in Terms /\ c.slot \in Nat \ {0} /\ (replaced \/ ~NotDeleted(terminal, t))
  <2> HIDE DEF c
  <2> QED
    BY <1>1, <1>2 DEF OpTyped, OpFits, OpStates, TargetedSteps
<1>4. TabsTyped /\ tabStrip \in Seq(Terms) /\ replaced \in BOOLEAN
      /\ output \in [Terms -> SUBSET Nat]
  BY ShellTypes DEF TabsTyped
<1>5. rest \in Seq(Terms) /\ \A u : InTabs(rest, u) <=> (InTabs(tabStrip, u) /\ u # t)
  BY <1>4, WithoutTabs
<1>6. CASE UNCHANGED <<tabStrip, front>> /\ Shells!CloseSource
           /\ termOp' = [termOp EXCEPT ![o] = [@ EXCEPT !.at = "create", !.old = t]]
  <2> DEFINE d == [c EXCEPT !.at = "create", !.old = t]
  <2>1. termOp' = [termOp EXCEPT ![o] = d]
    BY <1>6
  <2> HIDE DEF c
  <2>2. /\ d \in OpStates /\ d.at = "create" /\ d.on = c.on /\ d.after = c.after /\ d.old = t
        /\ d.events = c.events
    BY <1>2, <1>3 DEF OpStates, ShellSteps, TargetedSteps
  <2> HIDE DEF d, t
  <2>3. OpTyped(d, terminal)
    BY <1>2, <2>2 DEF OpTyped, TargetedSteps
  <2>4. ShownNow' = ShownNow
    BY <1>1, <1>6, SameShown
  <2>5. replaced \/ OpFits(d, ShownNow, terminal)
    BY <1>2, <1>3, <2>2 DEF OpFits
  <2>6. /\ termOp' \in [TermOps -> OpStates]
        /\ \A p \in TermOps : termOp'[p] = termOp[p] \/ termOp'[p] = d
    BY <1>2, <2>1, <2>2
  <2>7. \A p \in TermOps : \/ termOp'[p] = termOp[p]
                           \/ /\ OpTyped(termOp'[p], terminal)
                              /\ replaced' \/ OpFits(termOp'[p], ShownNow', terminal)
    BY <1>1, <2>3, <2>4, <2>5, <2>6
  <2>8. TabsTyped'
    BY <1>1, <1>4, <1>6 DEF TabsTyped
  <2>9. \E n : feeds' = Shells!Hang(n)
    BY <1>6 DEF Shells!CloseSource
  <2>10. replaced' \/ (/\ ShownStays(ShownNow, terminal, ShownNow', terminal)
                       /\ \A u \in Terms : TabFits(u, ShownNow', terminal))
    BY <1>1, <2>4, StaysSame DEF ShellInv, ShellSafe
  <2>11. ShellInv'
    BY <1>1, <1>4, <2>6, <2>7, <2>8, <2>9, <2>10, ConsoleKeeps
  <2> QED
    BY <1>4, <1>6, <2>11
<1>7. ASSUME tabStrip' = rest, front' = front \/ front' = next
      PROVE  /\ TabsTyped' /\ tabStrip' \in Seq(Terms)
             /\ next = "none" \/ (/\ next \in Terms /\ terminal[next].process # "none"
                                  /\ Shells!HasTab(next) /\ ShownNow'[next] = ShownNow[next])
             /\ replaced \/ \A u \in Terms : NotDeleted(terminal, u) /\ InTabs(tabStrip, u)
                                => InTabs(tabStrip', u)
             /\ replaced \/ (/\ ShownStays(ShownNow, terminal, ShownNow', terminal)
                             /\ \A u \in Terms : TabFits(u, ShownNow', terminal))
  <2>1. tabStrip' \in Seq(Terms)
    BY <1>5, <1>7
  <2>2. \A u : InTabs(rest, u) => terminal[u].process # "none" /\ u \in Terms
    <3>1. \A u : InTabs(tabStrip, u) => terminal[u].process # "none" /\ u \in Terms
      BY <1>4 DEF TabsTyped, InTabs
    <3> HIDE DEF rest
    <3> QED
      BY <1>5, <3>1
  <2>3. next = "none" \/ (next \in Terms /\ InTabs(rest, next))
    <3>1. CASE rest = <<>>
      BY <3>1
    <3>2. CASE rest # <<>>
      <4> DEFINE b == Len(rest)
                 i == Shells!Min({c.slot, b})
      <4>1. b \in Nat \ {0}
        BY <1>5, <3>2
      <4>2. next = rest[i]
        BY <3>2
      <4> HIDE DEF b, next, c, rest
      <4>3. i \in 1..b
        BY <1>3, <4>1, MinIs
      <4> HIDE DEF i
      <4>4. next \in Terms /\ InTabs(rest, next)
        BY <1>5, <4>2, <4>3 DEF b, InTabs
      <4> QED
        BY <4>4
    <3> QED
      BY <3>1, <3>2
  <2>4. ASSUME NEW u \in Terms, InTabs(rest, u) PROVE ShownNow'[u] = ShownNow[u]
    BY <1>1, <1>4, <1>5, <1>7, <2>1, <2>4, ShownIs
  <2>5. ASSUME NEW u \in Terms, u # t PROVE ShownNow'[u] = ShownNow[u]
    BY <1>1, <1>4, <1>5, <1>7, <2>1, <2>5, ShownIs
  <2>6. \A i \in 1..Len(tabStrip') : terminal[tabStrip'[i]].process # "none"
    <3> SUFFICES ASSUME NEW i \in 1..Len(tabStrip')
                 PROVE  terminal[tabStrip'[i]].process # "none"
      OBVIOUS
    <3>1. InTabs(tabStrip', tabStrip'[i])
      BY DEF InTabs
    <3> QED
      BY <1>7, <2>2, <3>1
  <2> HIDE DEF next, rest
  <2>7. front' \in Terms \cup {"none"} /\ (front' \in Terms => terminal[front'].process # "none")
    BY <1>4, <1>7, <2>2, <2>3, EdgesAssumptions DEF TabsTyped, EdgesAssumptions
  <2>8. TabsTyped'
    BY <1>1, <1>4, <2>1, <2>6, <2>7 DEF TabsTyped
  <2>9. next = "none" \/ (/\ next \in Terms /\ terminal[next].process # "none"
                          /\ Shells!HasTab(next) /\ ShownNow'[next] = ShownNow[next])
    BY <1>4, <1>5, <2>2, <2>3, <2>4, HasTabIs
  <2>10. replaced \/ \A u \in Terms : NotDeleted(terminal, u) /\ InTabs(tabStrip, u)
                         => InTabs(tabStrip', u)
    BY <1>3, <1>5, <1>7
  <2>11. ASSUME ~replaced
         PROVE  /\ ShownStays(ShownNow, terminal, ShownNow', terminal)
                /\ \A u \in Terms : TabFits(u, ShownNow', terminal)
    <3>1. \A u \in Terms : NotDeleted(terminal, u) => ShownNow'[u] = ShownNow[u]
      BY <1>3, <2>5, <2>11
    <3>2. \A u \in Terms : TabFits(u, ShownNow, terminal) /\ terminal[u].next \in Nat
      BY <2>11, ShellTypes DEF ShellSafe
    <3> QED
      BY <3>1, <3>2 DEF ShownStays, TabFits
  <2> QED
    BY <2>1, <2>8, <2>9, <2>10, <2>11
<1>8. CASE tabStrip' = rest /\ Shells!Fail(o) /\ UNCHANGED <<feeds, front>>
  <2>1. ShellInv'
    BY <1>1, <1>4, <1>7, <1>8, EndKeeps
  <2> QED
    BY <1>7, <1>8, <2>1
<1>9. CASE /\ tabStrip' = rest /\ Shells!CloseSource /\ front' = next
           /\ IF next = "none" THEN Shells!Fail(o)
              ELSE Shells!Begin(o, "activate", next, "snapshot", Shells!Latest(output[next]))
  <2>1. \E n : feeds' = Shells!Hang(n)
    BY <1>9 DEF Shells!CloseSource
  <2>2. /\ TabsTyped'
        /\ next = "none" \/ (/\ next \in Terms /\ terminal[next].process # "none"
                             /\ Shells!HasTab(next) /\ ShownNow'[next] = ShownNow[next])
        /\ replaced \/ (/\ ShownStays(ShownNow, terminal, ShownNow', terminal)
                        /\ \A u \in Terms : TabFits(u, ShownNow', terminal))
    BY <1>7, <1>9
  <2> HIDE DEF next
  <2>3. CASE next = "none"
    <3>1. ShellInv'
      BY <1>1, <1>4, <1>9, <2>1, <2>2, <2>3, EndKeeps
    <3> QED
      BY <1>7, <1>9, <3>1
  <2>4. CASE next # "none"
    <3> DEFINE after == Shells!Latest(output[next])
    <3>1. next \in Terms /\ terminal[next].process # "none" /\ Shells!HasTab(next)
          /\ ShownNow'[next] = ShownNow[next]
      BY <2>2, <2>4
    <3>2. /\ after \in Nat
          /\ replaced \/ (NotDeleted(terminal, next) =>
                 CoveredTo(ShownNow[next], terminal[next].next, after + 1))
      BY <3>1, TabCovers
    <3>3. Shells!Begin(o, "activate", next, "snapshot", after) /\ "activate" \in ShellTasks
      BY <1>9, <2>4 DEF ShellTasks
    <3> HIDE DEF after
    <3>4. replaced' \/ (/\ ShownStays(ShownNow, terminal, ShownNow', terminal)
                        /\ \A u \in Terms : TabFits(u, ShownNow', terminal)
                        /\ NotDeleted(terminal, next) =>
                              CoveredTo(ShownNow'[next], terminal[next].next, after + 1))
      BY <1>1, <2>2, <3>1, <3>2
    <3>5. ShellInv'
      BY <1>1, <1>4, <2>1, <2>2, <3>1, <3>2, <3>3, <3>4, BeginKeeps
    <3> QED
      BY <1>7, <1>9, <3>5
  <2> QED
    BY <2>3, <2>4
<1> QED
  BY <1>6, <1>8, <1>9 DEF Shells!Deleted, Shells!None

\* The new stream is asked for from where the operation left off.
LEMMA TokenKeeps == ASSUME ShellInv, NEW o \in TermOps, Shells!TokenArrives(o) PROVE ShellInv'
<1> DEFINE c == termOp[o]
           f == [of |-> c.on, after |-> c.after, state |-> "connecting", wire |-> <<>>]
<1>1. /\ c.at = "token" /\ feeds' = Append(feeds, f) /\ Shells!Fail(o)
      /\ UNCHANGED <<terminal, tabStrip, output, front, replaced>>
  BY DEF Shells!TokenArrives
<1>2. /\ c \in OpStates /\ OpTyped(c, terminal)
      /\ replaced \/ OpFits(c, ShownNow, terminal)
  BY ShellTypes DEF ShellSafe
<1>3. c.on \in Terms /\ c.after \in Nat /\ terminal[c.on].process # "none"
  <2> HIDE DEF c
  <2> QED
    BY <1>1, <1>2 DEF OpTyped, OpStates, TargetedSteps
<1>4. /\ f \in FeedStates /\ f.of = c.on /\ f.after = c.after /\ f.state = "connecting"
      /\ f.wire = <<>>
  <2> HIDE DEF c
  <2>1. <<>> \in Seq(Nat)
    OBVIOUS
  <2> QED
    BY <1>3, <2>1 DEF FeedStates
<1> HIDE DEF f, c
<1>5. FeedTyped(f, terminal) /\ (replaced \/ FeedFits(f, ShownNow, terminal))
  <2>1. \A i \in 1..Len(<<>>) : FALSE
    OBVIOUS
  <2> QED
    BY <1>2, <1>3, <1>4, <2>1 DEF FeedTyped, FeedFits, OpFits
<1>6. feeds \in Seq(FeedStates) /\ Len(feeds) \in Nat
  BY ShellTypes
<1>7. /\ feeds' \in Seq(FeedStates)
      /\ \A n \in 1..Len(feeds') : (n \in 1..Len(feeds) /\ feeds'[n] = feeds[n]) \/ feeds'[n] = f
  <2>1. /\ feeds' \in Seq(FeedStates) /\ Len(feeds') = Len(feeds) + 1
        /\ feeds'[Len(feeds) + 1] = f /\ \A n \in 1..Len(feeds) : feeds'[n] = feeds[n]
    BY <1>1, <1>4, <1>6
  <2>2. \A n \in 1..Len(feeds') : n \in 1..Len(feeds) \/ n = Len(feeds) + 1
    BY <1>6, <2>1
  <2> QED
    BY <2>1, <2>2
<1>8. ShownNow' = ShownNow
  BY <1>1, SameShown
<1>9. \A n \in 1..Len(feeds') :
         \/ /\ n \in 1..Len(feeds) /\ feeds'[n] = feeds[n]
            /\ feeds[n].state = "open" =>
                  terminal'[feeds[n].of].next = terminal[feeds[n].of].next
         \/ /\ FeedTyped(feeds'[n], terminal')
            /\ replaced' \/ FeedFits(feeds'[n], ShownNow', terminal')
  BY <1>1, <1>5, <1>7, <1>8
<1> DEFINE d == Shells!Free
<1>10. d \in OpStates /\ OpTyped(d, terminal) /\ OpFits(d, ShownNow, terminal)
  BY FreeIs
<1>11. termOp' = [termOp EXCEPT ![o] = d]
  BY <1>1 DEF Shells!Fail
<1> HIDE DEF d
<1>12. /\ termOp' \in [TermOps -> OpStates]
       /\ \A p \in TermOps : termOp'[p] = termOp[p] \/ termOp'[p] = d
  BY <1>10, <1>11, ShellTypes
<1>13. \A p \in TermOps : \/ termOp'[p] = termOp[p]
                          \/ /\ OpTyped(termOp'[p], terminal')
                             /\ replaced' \/ OpFits(termOp'[p], ShownNow', terminal')
  BY <1>1, <1>8, <1>10, <1>12
<1>14. /\ TermsTyped' /\ TabsTyped' /\ TermsGrow(terminal, terminal') /\ replaced' \in BOOLEAN
       /\ replaced' = replaced
       /\ replaced' \/ (/\ ShownStays(ShownNow, terminal, ShownNow', terminal')
                        /\ \A u \in Terms : TabFits(u, ShownNow', terminal'))
  BY <1>1, <1>8, ShellTypes, StaysSame DEF TermsTyped, TabsTyped, ShellSafe
<1> QED
  BY <1>7, <1>9, <1>12, <1>13, <1>14, ShellKeeps

\* One stream changes, and what is shown.
LEMMA FeedKeeps ==
    ASSUME ShellInv, terminal' = terminal, TabsTyped', NEW n \in 1..Len(feeds),
           NEW h \in FeedStates, FeedTyped(h, terminal),
           replaced \/ FeedFits(h, ShownNow', terminal), feeds' = [feeds EXCEPT ![n] = h],
           UNCHANGED <<termOp, replaced>>,
           replaced \/ (/\ ShownStays(ShownNow, terminal, ShownNow', terminal)
                        /\ \A u \in Terms : TabFits(u, ShownNow', terminal))
    PROVE  ShellInv'
<1>1. feeds \in Seq(FeedStates) /\ termOp' \in [TermOps -> OpStates]
  BY ShellTypes
<1>2. /\ feeds' \in Seq(FeedStates) /\ Len(feeds') = Len(feeds)
      /\ \A m \in 1..Len(feeds) : feeds'[m] = feeds[m] \/ feeds'[m] = h
  <2>1. DOMAIN feeds = 1..Len(feeds) /\ Len(feeds) \in Nat
    BY <1>1
  <2>2. feeds' \in Seq(FeedStates) /\ DOMAIN feeds' = 1..Len(feeds)
    BY <1>1, <2>1
  <2> QED
    BY <2>1, <2>2
<1>3. \A m \in 1..Len(feeds') :
         \/ /\ m \in 1..Len(feeds) /\ feeds'[m] = feeds[m]
            /\ feeds[m].state = "open" =>
                  terminal'[feeds[m].of].next = terminal[feeds[m].of].next
         \/ /\ FeedTyped(feeds'[m], terminal')
            /\ replaced' \/ FeedFits(feeds'[m], ShownNow', terminal')
  BY <1>2
<1>4. /\ TermsTyped' /\ TermsGrow(terminal, terminal') /\ replaced' \in BOOLEAN
      /\ \A p \in TermOps : termOp'[p] = termOp[p]
  BY ShellTypes, StaysSame DEF TermsTyped
<1> QED
  BY <1>1, <1>2, <1>3, <1>4, ShellKeeps

LEMMA NumbersAre ==
    ASSUME NEW k \in Int, NEW p \in Nat
    PROVE  \E m \in Nat :
              /\ m = k \/ (m = 0 /\ k < 0)
              /\ [i \in 1..k |-> p + i] \in Seq(Nat) /\ Len([i \in 1..k |-> p + i]) = m
              /\ \A i \in 1..m : [i_1 \in 1..k |-> p + i_1][i] = p + i
<1> DEFINE w == [i \in 1..k |-> p + i]
<1>1. PICK m \in Nat : (m = k \/ (m = 0 /\ k < 0)) /\ \A i : i \in 1..m <=> i \in 1..k
  <2>1. CASE k \in Nat
    BY <2>1
  <2>2. CASE k \notin Nat
    <3>1. k < 0 /\ \A i : i \in 1..0 <=> i \in 1..k
      BY <2>2
    <3> QED
      BY <3>1
  <2> QED
    BY <2>1, <2>2
<1>2. 1..m = 1..k
  BY <1>1, Zenon
<1>3. w = [i \in 1..m |-> p + i]
  BY <1>2
<1> HIDE DEF w
<1>4. w \in [1..m -> Nat] /\ \A i \in 1..m : w[i] = p + i
  BY <1>3
<1>5. w \in Seq(Nat) /\ DOMAIN w = 1..m
  BY <1>4, SeqDef
<1>6. Len(w) = m
  BY <1>5
<1> QED
  BY <1>1, <1>4, <1>5, <1>6 DEF w

KeptFrom(n, skipped) == [i \in 1..(n - 1 - skipped) |-> skipped + i]

\* What is replayed is what is kept after the position asked for.
LEMMA ReplayedIs ==
    ASSUME NEW n \in Nat \ {0}, NEW a \in Nat, NEW S \in SUBSET Nat,
           NEW skipped \in Nat, a <= skipped,
           skipped = a \/ (skipped + MaxKept < n /\ skipped + MaxKept + 1 = n)
    PROVE  /\ KeptFrom(n, skipped) \in Seq(Nat) /\ Len(KeptFrom(n, skipped)) < n
           /\ \A i \in 1..Len(KeptFrom(n, skipped)) :
                 /\ KeptFrom(n, skipped)[i] \in 1..(n - 1)
                 /\ KeptFrom(n, skipped)[i] = n - Len(KeptFrom(n, skipped)) - 1 + i
           /\ CoveredTo(S, n, a + 1) => CoveredTo(S, n, n - Len(KeptFrom(n, skipped)))
<1> DEFINE k == n - 1 - skipped
           w == [i \in 1..k |-> skipped + i]
<1>1. MaxKept \in Nat \ {0} /\ k \in Int /\ k + skipped = n - 1
  BY EdgesAssumptions DEF EdgesAssumptions
<1> HIDE DEF k
<1>2. PICK m \in Nat : /\ m = k \/ (m = 0 /\ k < 0)
                       /\ w \in Seq(Nat) /\ Len(w) = m /\ \A i \in 1..m : w[i] = skipped + i
  BY <1>1, NumbersAre, Zenon
<1> HIDE DEF w
<1>3. m < n /\ \A i \in 1..m : skipped + i \in 1..(n - 1) /\ skipped + i = n - m - 1 + i
  BY <1>1, <1>2
<1>4. ASSUME CoveredTo(S, n, a + 1) PROVE CoveredTo(S, n, n - m)
  <2> SUFFICES ASSUME NEW s \in 1..((n - m) - 1) PROVE s \in S \/ s + MaxKept < n
    BY DEF CoveredTo
  <2>1. s \in Nat \ {0} /\ s <= skipped
    BY <1>1, <1>2
  <2>2. CASE skipped = a
    <3>1. s \in 1..((a + 1) - 1)
      BY <2>1, <2>2
    <3> QED
      BY <1>4, <3>1 DEF CoveredTo
  <2>3. CASE skipped + MaxKept < n
    BY <1>1, <2>1, <2>3
  <2> QED
    BY <2>2, <2>3
<1>5. /\ w \in Seq(Nat) /\ Len(w) < n
      /\ \A i \in 1..Len(w) : w[i] \in 1..(n - 1) /\ w[i] = n - Len(w) - 1 + i
      /\ CoveredTo(S, n, a + 1) => CoveredTo(S, n, n - Len(w))
  BY <1>2, <1>3, <1>4
<1>6. KeptFrom(n, skipped) = w
  BY DEF KeptFrom, w, k
<1> QED
  BY <1>5, <1>6

LEMMA SubscribeKeeps ==
    ASSUME ShellInv, NEW n \in DOMAIN feeds, Shells!Subscribe(n) PROVE ShellInv'
<1> DEFINE f == feeds[n]
           t == f.of
           m == terminal[t].next
           a == f.after
           skipped == IF a + MaxKept < m THEN m - MaxKept - 1 ELSE a
           w == KeptFrom(m, skipped)
           h == [f EXCEPT !.state = "open", !.wire = w]
<1>1. /\ f.state = "connecting"
      /\ UNCHANGED <<terminal, tabStrip, output, front, termOp, replaced>>
  BY DEF Shells!Subscribe
<1>2. n \in 1..Len(feeds) /\ feeds \in Seq(FeedStates) /\ f \in FeedStates /\ FeedTyped(f, terminal)
      /\ (replaced \/ FeedFits(f, ShownNow, terminal))
  <2>1. n \in 1..Len(feeds) /\ feeds \in Seq(FeedStates)
    BY ShellTypes
  <2> QED
    BY <2>1, ShellTypes DEF ShellSafe
<1>3. ShownNow' = ShownNow /\ TabsTyped'
  BY <1>1, SameShown, ShellTypes DEF TabsTyped
<1>4. replaced \/ (/\ ShownStays(ShownNow, terminal, ShownNow', terminal)
                   /\ \A u \in Terms : TabFits(u, ShownNow', terminal))
  BY <1>3, StaysSame DEF ShellInv, ShellSafe
<1>5. CASE feeds' = Shells!Hang(n)
  <2>1. /\ replaced' = replaced /\ replaced \in BOOLEAN /\ termOp' \in [TermOps -> OpStates]
        /\ \A o \in TermOps : termOp'[o] = termOp[o]
    BY <1>1, ShellTypes
  <2> QED
    BY <1>1, <1>3, <1>4, <1>5, <2>1, ConsoleKeeps
<1>6. CASE feeds' = [feeds EXCEPT ![n].state = "open", ![n].wire = Shells!Replayed(t, a)]
  <2>1. feeds' = [feeds EXCEPT ![n] = h]
    BY <1>2, <1>6 DEF Shells!Replayed, KeptFrom
  <2>2. t \in Terms /\ m \in Nat \ {0} /\ a \in Nat /\ ShownNow[t] \in SUBSET Nat
    <3>1. t \in Terms /\ a \in Nat
      <4> HIDE DEF f
      <4> QED
        BY <1>2 DEF FeedStates
    <3> HIDE DEF f, a
    <3> QED
      BY <3>1, ShellTypes
  <2> DEFINE S == ShownNow[t]
  <2>3. MaxKept \in Nat \ {0}
    BY EdgesAssumptions DEF EdgesAssumptions
  <2> HIDE DEF f, t, m, a, S
  <2>4. /\ skipped \in Nat /\ a <= skipped
        /\ skipped = a \/ (skipped + MaxKept < m /\ skipped + MaxKept + 1 = m)
    BY <2>2, <2>3
  <2> HIDE DEF skipped
  <2>5. S \in SUBSET Nat
    BY <2>2 DEF S
  <2>6. /\ w \in Seq(Nat) /\ Len(w) < m
        /\ \A i \in 1..Len(w) : w[i] \in 1..(m - 1) /\ w[i] = m - Len(w) - 1 + i
        /\ CoveredTo(S, m, a + 1) => CoveredTo(S, m, m - Len(w))
    BY <2>2, <2>4, <2>5, ReplayedIs
  <2> HIDE DEF w
  <2>7. h \in FeedStates /\ h.state = "open" /\ h.of = t /\ h.wire = w
    BY <1>2, <2>6 DEF FeedStates, t
  <2> HIDE DEF h
  <2>8. FeedTyped(h, terminal)
    BY <1>2, <2>6, <2>7 DEF FeedTyped, t, m
  <2>9. replaced \/ FeedFits(h, ShownNow, terminal)
    BY <1>1, <1>2, <2>6, <2>7 DEF FeedFits, t, m, a, S
  <2>10. replaced \/ FeedFits(h, ShownNow', terminal)
    BY <1>3, <2>9
  <2> QED
    BY <1>1, <1>2, <1>3, <1>4, <2>1, <2>7, <2>8, <2>10, FeedKeeps
<1> QED
  BY <1>5, <1>6 DEF Shells!Subscribe

\* A terminal that is not deleted has a tab while a stream of it is there, or on its way.
ShellHeld ==
    /\ \A n \in 1..Len(feeds) : NotDeleted(terminal, feeds[n].of) => InTabs(tabStrip, feeds[n].of)
    /\ \A o \in TermOps : termOp[o].at = "token" /\ NotDeleted(terminal, termOp[o].on)
                              => InTabs(tabStrip, termOp[o].on)

\* An event arrives.
LEMMA DeliverKeeps ==
    ASSUME ShellInv, replaced \/ ShellHeld, NEW n \in DOMAIN feeds, Shells!Deliver(n)
    PROVE  ShellInv'
<1> DEFINE f == feeds[n]
           t == f.of
           m == terminal[t].next
           w == f.wire
           e == Head(w)
           h == [f EXCEPT !.wire = Tail(w)]
           S == ShownNow[t]
<1>1. /\ f.state \in {"open", "silent"} /\ w # <<>>
      /\ output' = IF Shells!HasTab(t)
                   THEN [output EXCEPT ![t] = Shells!Newest(output[t] \cup {e})] ELSE output
      /\ UNCHANGED <<terminal, tabStrip, front, termOp, replaced>>
  BY DEF Shells!Deliver
<1>2. /\ n \in 1..Len(feeds) /\ feeds \in Seq(FeedStates) /\ f \in FeedStates
      /\ FeedTyped(f, terminal) /\ (replaced \/ FeedFits(f, ShownNow, terminal))
      /\ tabStrip \in Seq(Terms) /\ TabsTyped
  <2>1. n \in 1..Len(feeds) /\ feeds \in Seq(FeedStates)
    BY ShellTypes
  <2> QED
    BY <2>1, ShellTypes DEF ShellSafe, TabsTyped
<1>3. feeds' = [feeds EXCEPT ![n] = h]
  BY <1>2 DEF Shells!Deliver
<1>4. replaced \/ (NotDeleted(terminal, t) => Shells!HasTab(t))
  BY <1>2, HasTabIs DEF ShellHeld
<1> HIDE DEF f
<1>5. t \in Terms /\ m \in Nat \ {0} /\ w \in Seq(Nat) /\ terminal[t].process # "none"
  <2>1. t \in Terms /\ w \in Seq(Nat) /\ terminal[t].process # "none"
    BY <1>2 DEF FeedStates, FeedTyped
  <2> QED
    BY <2>1, ShellTypes
<1>6. \A i \in 1..Len(w) : w[i] \in 1..(m - 1)
  BY <1>2 DEF FeedTyped
<1>7. replaced \/ (NotDeleted(terminal, t) =>
          /\ f.state = "open" /\ Len(w) < m
          /\ \A i \in 1..Len(w) : w[i] = m - Len(w) - 1 + i
          /\ CoveredTo(S, m, m - Len(w)))
  BY <1>1, <1>2 DEF FeedFits
<1>8. S \in SUBSET (1..(m - 1))
  BY <1>2, <1>5 DEF TabsTyped, ShownNow
<1>9. Shells!HasTab(t) => S = output[t]
  BY <1>5 DEF ShownNow
<1> DEFINE rest == Tail(w)
           len == Len(w)
<1>10. /\ rest \in Seq(Nat) /\ Len(rest) = len - 1 /\ len \in Nat \ {0} /\ e = w[1]
       /\ \A i \in 1..Len(rest) : rest[i] = w[i + 1] /\ i + 1 \in 1..len
  <2> HIDE DEF w
  <2> QED
    BY <1>1, <1>5
<1> HIDE DEF t, m, w, S, e, rest, len
<1>11. h \in FeedStates /\ h.of = t /\ h.state = f.state /\ h.wire = rest
  BY <1>2, <1>10 DEF FeedStates, t, rest
<1> HIDE DEF h
<1>12. /\ e \in 1..(m - 1) /\ \A i \in 1..Len(rest) : rest[i] \in 1..(m - 1)
  <2>1. 1 \in 1..len
    BY <1>10
  <2> QED
    BY <1>6, <1>10, <2>1 DEF len
<1>13. FeedTyped(h, terminal)
  BY <1>5, <1>11, <1>12 DEF FeedTyped, m
<1>14. replaced \/ (NotDeleted(terminal, t) =>
          /\ f.state = "open" /\ Len(rest) < m /\ e = m - len /\ e = m - Len(rest) - 1
          /\ \A i \in 1..Len(rest) : rest[i] = m - Len(rest) - 1 + i
          /\ CoveredTo(S, m, e))
  <2> SUFFICES ASSUME ~replaced, NotDeleted(terminal, t)
               PROVE /\ f.state = "open" /\ Len(rest) < m /\ e = m - len
                     /\ e = m - Len(rest) - 1
                     /\ \A i \in 1..Len(rest) : rest[i] = m - Len(rest) - 1 + i
                     /\ CoveredTo(S, m, e)
    OBVIOUS
  <2>1. /\ f.state = "open" /\ len < m /\ \A i \in 1..len : w[i] = m - len - 1 + i
        /\ CoveredTo(S, m, m - len)
    BY <1>7 DEF len
  <2>2. 1 \in 1..len /\ m \in Nat
    BY <1>5, <1>10
  <2>3. e = m - len
    BY <1>10, <2>1, <2>2
  <2>4. Len(rest) < m /\ m - len = m - Len(rest) - 1
    BY <1>10, <2>1, <2>2
  <2>5. \A i \in 1..Len(rest) : rest[i] = m - Len(rest) - 1 + i
    BY <1>10, <2>1, <2>2
  <2> QED
    BY <2>1, <2>3, <2>4, <2>5
<1>15. CASE ~Shells!HasTab(t)
  <2>1. /\ UNCHANGED <<tabStrip, output>> /\ (replaced \/ ~NotDeleted(terminal, t))
    BY <1>1, <1>4, <1>15
  <2>2. ShownNow' = ShownNow /\ TabsTyped'
    BY <1>1, <1>2, <2>1, SameShown DEF TabsTyped
  <2>3. replaced \/ (/\ ShownStays(ShownNow, terminal, ShownNow', terminal)
                     /\ \A u \in Terms : TabFits(u, ShownNow', terminal))
    BY <2>2, StaysSame DEF ShellInv, ShellSafe
  <2>4. replaced \/ FeedFits(h, ShownNow', terminal)
    BY <1>11, <2>1 DEF FeedFits
  <2> QED
    BY <1>1, <1>2, <1>3, <1>11, <1>13, <2>2, <2>3, <2>4, FeedKeeps
<1>16. CASE Shells!HasTab(t)
  <2> DEFINE E == {e}
             R == Shells!Newest(S \cup E)
  <2>1. output' = [output EXCEPT ![t] = R]
    BY <1>1, <1>9, <1>16
  <2>2. E \in SUBSET (1..(m - 1)) /\ \A s \in E : s = e
    BY <1>12
  <2>3. replaced \/ (NotDeleted(terminal, t) => FillsIn(S, m, E))
    <3> SUFFICES ASSUME ~replaced, NotDeleted(terminal, t), NEW s \in 1..e
                 PROVE  s \in E \/ s \in S \/ s + MaxKept < m
      BY <2>2 DEF FillsIn
    <3>1. e \in Nat
      BY <1>12
    <3>2. s = e \/ s \in 1..(e - 1)
      BY <3>1
    <3> QED
      BY <1>14, <3>2 DEF CoveredTo
  <2> HIDE DEF E
  <2>4. /\ tabStrip' \in Seq(Terms) /\ InTabs(tabStrip', t) /\ tabStrip' = tabStrip
    BY <1>1, <1>2, <1>16, HasTabIs
  <2>5. R = Shells!Newest(S \cup E)
    OBVIOUS
  <2> HIDE DEF R
  <2>6. /\ TabsTyped' /\ ShownNow'[t] = R
        /\ replaced \/ (/\ ShownStays(ShownNow, terminal, ShownNow', terminal)
                        /\ \A u \in Terms : TabFits(u, ShownNow', terminal))
    <3>1. /\ terminal' = terminal /\ t \in Terms /\ terminal[t].process # "none"
          /\ E \in SUBSET (1..(terminal[t].next - 1))
          /\ replaced \/ (NotDeleted(terminal, t) => FillsIn(ShownNow[t], terminal[t].next, E))
          /\ tabStrip' \in Seq(Terms) /\ InTabs(tabStrip', t) /\ tabStrip' = tabStrip
          /\ R = Shells!Newest(ShownNow[t] \cup E) /\ output' = [output EXCEPT ![t] = R]
      BY <1>1, <1>5, <2>1, <2>2, <2>3, <2>4, <2>5 DEF S, m
    <3>2. front' = front \/ front' = t
      BY <1>1
    <3>3. /\ \A u \in Terms \ {t} : InTabs(tabStrip, u) <=> InTabs(tabStrip', u)
          /\ \A u \in Terms \ {t} : InTabs(tabStrip', u) => InTabs(tabStrip, u)
          /\ replaced \/ \A u \in Terms \ {t} :
                NotDeleted(terminal, u) /\ InTabs(tabStrip, u) => InTabs(tabStrip', u)
      BY <3>1
    <3>4. /\ TabsTyped' /\ ShownNow'[t] = R
          /\ replaced \/ (/\ ShownStays(ShownNow, terminal, ShownNow', terminal)
                          /\ \A u \in Terms : TabFits(u, ShownNow', terminal))
      BY <3>1, <3>2, <3>3, MergedShown
    <3> QED
      BY <3>4
  <2>7. \A s \in S \cup E : s \in R \/ s + MaxKept < m
    <3>1. m \in Nat \ {0} /\ S \in SUBSET (1..(m - 1)) /\ E \in SUBSET (1..(m - 1))
      BY <1>5, <1>8, <2>2
    <3> QED
      BY <3>1, <2>5, NewestFits
  <2>8. replaced \/ FeedFits(h, ShownNow', terminal)
    <3> SUFFICES ASSUME ~replaced, NotDeleted(terminal, t) PROVE FeedFits(h, ShownNow', terminal)
      BY <1>11 DEF FeedFits
    <3>1. /\ f.state = "open" /\ Len(rest) < m /\ e = m - Len(rest) - 1
          /\ \A i \in 1..Len(rest) : rest[i] = m - Len(rest) - 1 + i
          /\ CoveredTo(S, m, e)
      BY <1>14
    <3>2. CoveredTo(R, m, m - Len(rest))
      <4> SUFFICES ASSUME NEW s \in 1..((m - Len(rest)) - 1) PROVE s \in R \/ s + MaxKept < m
        BY DEF CoveredTo
      <4>1. e \in Nat /\ s \in 1..e
        BY <1>12, <3>1
      <4>2. s = e \/ s \in 1..(e - 1)
        BY <4>1
      <4>3. s \in S \cup E \/ s + MaxKept < m
        BY <3>1, <4>2 DEF CoveredTo, E
      <4> QED
        BY <2>7, <4>3
    <3> QED
      BY <1>11, <2>6, <3>1, <3>2 DEF FeedFits, m
  <2> QED
    BY <1>1, <1>2, <1>3, <1>11, <1>13, <2>6, <2>8, FeedKeeps
<1> QED
  BY <1>15, <1>16

\* A step keeps the tabs of the terminals that are not deleted,
TabsHeld ==
    \A t \in Terms : NotDeleted(terminal', t) =>
        NotDeleted(terminal, t) /\ (InTabs(tabStrip, t) => InTabs(tabStrip', t))
\* waits for a token only where there is a tab,
OpsHeld ==
    \A o \in TermOps : \/ termOp'[o] = termOp[o]
                       \/ termOp'[o].at # "token" \/ InTabs(tabStrip', termOp'[o].on)
\* and opens no stream.
FeedsFrom == \A n \in 1..Len(feeds') : \E k \in 1..Len(feeds) : feeds'[n].of = feeds[k].of

LEMMA HeldKeeps ==
    ASSUME ShellInv, ShellInv', replaced \/ ShellHeld, replaced => replaced',
           replaced' \/ TabsHeld, replaced' \/ OpsHeld, FeedsFrom
    PROVE  (replaced \/ ShellHeld)'
<1>1. /\ feeds \in Seq(FeedStates) /\ feeds' \in Seq(FeedStates)
      /\ \A o \in TermOps : OpTyped(termOp[o], terminal) /\ OpTyped(termOp'[o], terminal')
  BY DEF ShellInv, ShellTyped
<1> SUFFICES ASSUME ~replaced', ~replaced, ShellHeld, TabsHeld, OpsHeld PROVE ShellHeld'
  OBVIOUS
<1>2. \A n \in 1..Len(feeds') : NotDeleted(terminal', feeds'[n].of) => InTabs(tabStrip', feeds'[n].of)
  <2> SUFFICES ASSUME NEW n \in 1..Len(feeds'), NotDeleted(terminal', feeds'[n].of)
               PROVE  InTabs(tabStrip', feeds'[n].of)
    OBVIOUS
  <2>1. PICK k \in 1..Len(feeds) : feeds'[n].of = feeds[k].of
    BY DEF FeedsFrom
  <2>2. feeds[k] \in FeedStates
    BY <1>1
  <2>3. feeds[k].of \in Terms
    BY <2>2 DEF FeedStates
  <2> QED
    BY <2>1, <2>3 DEF TabsHeld, ShellHeld
<1>3. ASSUME NEW o \in TermOps, termOp'[o].at = "token", NotDeleted(terminal', termOp'[o].on)
      PROVE  InTabs(tabStrip', termOp'[o].on)
  <2>1. termOp'[o].on \in Terms
    BY <1>1, <1>3 DEF OpTyped, TargetedSteps
  <2> QED
    BY <1>3, <2>1 DEF OpsHeld, TabsHeld, ShellHeld
<1> QED
  BY <1>2, <1>3 DEF ShellHeld

LEMMA FeedsOf ==
    ASSUME ShellInv, ShellInv', DOMAIN feeds' = DOMAIN feeds,
           \A n \in DOMAIN feeds : feeds'[n].of = feeds[n].of
    PROVE  FeedsFrom
<1>1. feeds \in Seq(FeedStates) /\ feeds' \in Seq(FeedStates)
  BY DEF ShellInv, ShellTyped
<1> QED
  BY <1>1 DEF FeedsFrom

LEMMA FeedsRemain ==
    ASSUME ShellInv, ShellInv',
           feeds' = feeds \/ (\E t \in Terms : Shells!Push(t)) \/ (\E k : feeds' = Shells!Hang(k))
    PROVE  FeedsFrom
<1>1. feeds \in Seq(FeedStates) /\ feeds' \in Seq(FeedStates)
  BY DEF ShellInv, ShellTyped
<1>2. CASE feeds' = feeds
  BY <1>2 DEF FeedsFrom
<1>4. \A n \in DOMAIN feeds : feeds[n] \in FeedStates
  BY <1>1
<1>5. ASSUME NEW t \in Terms, Shells!Push(t) PROVE FeedsFrom
  <2>1. /\ DOMAIN feeds' = DOMAIN feeds
        /\ \A n \in DOMAIN feeds :
              feeds'[n] = feeds[n] \/ feeds'[n] = [feeds[n] EXCEPT !.wire = Append(@, terminal[t].next)]
    BY <1>5 DEF Shells!Push
  <2>2. \A f \in FeedStates : [f EXCEPT !.wire = Append(@, terminal[t].next)].of = f.of
    BY DEF FeedStates
  <2> QED
    BY <1>4, <2>1, <2>2, FeedsOf
<1>6. ASSUME NEW k, feeds' = Shells!Hang(k) PROVE FeedsFrom
  <2>1. /\ DOMAIN feeds' = DOMAIN feeds
        /\ \A n \in DOMAIN feeds :
              feeds'[n] = feeds[n] \/ feeds'[n] = [feeds[n] EXCEPT !.state = "gone"]
    BY <1>6 DEF Shells!Hang
  <2>2. \A f \in FeedStates : [f EXCEPT !.state = "gone"].of = f.of
    BY DEF FeedStates
  <2> QED
    BY <1>4, <2>1, <2>2, FeedsOf
<1> QED
  BY <1>2, <1>5, <1>6

LEMMA OpsMove ==
    ASSUME ShellInv, NEW o \in TermOps, NEW c, termOp' = [termOp EXCEPT ![o] = c],
           c.at # "token" \/ InTabs(tabStrip', c.on)
    PROVE  OpsHeld
<1>1. termOp \in [TermOps -> OpStates]
  BY ShellTypes
<1>2. \A p \in TermOps : termOp'[p] = IF p = o THEN c ELSE termOp[p]
  BY <1>1
<1> QED
  BY <1>2 DEF OpsHeld

LEMMA OpsAnswered ==
    ASSUME ShellInv, NEW o \in TermOps, NEW at, at # "token", NEW ev, Shells!Answer(o, at, ev)
    PROVE  OpsHeld
<1> DEFINE c == termOp[o]
           d == [c EXCEPT !.at = at, !.events = ev]
<1>1. c \in OpStates
  BY ShellTypes
<1>2. termOp' = [termOp EXCEPT ![o] = d]
  BY DEF Shells!Answer
<1> HIDE DEF c
<1>3. d.at = at
  BY <1>1 DEF OpStates
<1> HIDE DEF d
<1> QED
  BY <1>2, <1>3, OpsMove

LEMMA OpsFreed == ASSUME ShellInv, NEW o \in TermOps, Shells!Fail(o) PROVE OpsHeld
<1>1. Shells!Free.at = "none"
  BY DEF Shells!Free, Shells!None
<1>2. termOp' = [termOp EXCEPT ![o] = Shells!Free]
  BY DEF Shells!Fail
<1> QED
  BY <1>1, <1>2, OpsMove

LEMMA OpsBegun ==
    ASSUME ShellInv, NEW o \in TermOps, NEW does, NEW on, NEW at, NEW after,
           Shells!Begin(o, does, on, at, after), at # "token" \/ InTabs(tabStrip', on)
    PROVE  OpsHeld
<1> DEFINE c == termOp[o]
           d == [c EXCEPT !.does = does, !.on = on, !.at = at, !.after = after]
<1>1. c \in OpStates
  BY ShellTypes
<1>2. termOp' = [termOp EXCEPT ![o] = d]
  BY DEF Shells!Begin
<1> HIDE DEF c
<1>3. d.at = at /\ d.on = on
  BY <1>1 DEF OpStates
<1> HIDE DEF d
<1> QED
  BY <1>2, <1>3, OpsMove

LEMMA OpsAsked ==
    ASSUME ShellInv, NEW o \in TermOps, NEW does, NEW on, NEW at, at # "token", NEW after,
           Shells!Ask(o, does, on, at, after)
    PROVE  OpsHeld
<1> DEFINE c == termOp[o]
           s == IF Shells!HasTab(on) THEN Shells!Position(on) ELSE 1
           d == [c EXCEPT !.does = does, !.on = on, !.at = at, !.after = after, !.slot = s]
<1>1. c \in OpStates
  BY ShellTypes
<1>2. termOp' = [termOp EXCEPT ![o] = d]
  BY DEF Shells!Ask
<1> HIDE DEF c, s
<1>3. d.at = at
  BY <1>1 DEF OpStates
<1> HIDE DEF d
<1> QED
  BY <1>2, <1>3, OpsMove

LEMMA TabsRemain ==
    ASSUME tabStrip' = tabStrip,
           \A t \in Terms : NotDeleted(terminal', t) => NotDeleted(terminal, t)
    PROVE  TabsHeld
BY DEF TabsHeld

\* One terminal changes; what is deleted stays so.
LEMMA TabsRemainOf ==
    ASSUME ShellInv, tabStrip' = tabStrip, NEW t \in Terms, NEW x,
           terminal' = [terminal EXCEPT ![t] = x],
           (x.process = "none" \/ x.known) => NotDeleted(terminal, t)
    PROVE  TabsHeld
<1>1. terminal \in [Terms -> TermStates]
  BY ShellTypes
<1>2. \A u \in Terms : terminal'[u] = IF u = t THEN x ELSE terminal[u]
  BY <1>1
<1>3. \A u \in Terms : NotDeleted(terminal', u) => NotDeleted(terminal, u)
  BY <1>2 DEF NotDeleted
<1> QED
  BY <1>3, TabsRemain

LEMMA TabsAppended ==
    ASSUME ShellInv, tabStrip' = tabStrip, NEW t \in Terms, Shells!AppendEvent(t) PROVE TabsHeld
<1> DEFINE b == terminal[t]
           x == [b EXCEPT !.next = b.next + 1]
<1>1. b \in TermStates
  BY ShellTypes
<1>2. terminal' = [terminal EXCEPT ![t] = x]
  BY DEF Shells!AppendEvent
<1>3. (x.process = "none" \/ x.known) => (b.process = "none" \/ b.known)
  <2> HIDE DEF b
  <2> QED
    BY <1>1 DEF TermStates
<1> HIDE DEF x
<1> QED
  BY <1>2, <1>3, TabsRemainOf DEF NotDeleted

LEMMA OutputHeld ==
    ASSUME ShellInv, ShellInv', NEW t \in Terms, Shells!Output(t) \/ Shells!Exit(t)
    PROVE  TabsHeld /\ OpsHeld /\ FeedsFrom /\ replaced' = replaced
<1>1. /\ UNCHANGED <<tabStrip, termOp, replaced>> /\ Shells!Push(t)
  BY DEF Shells!Output, Shells!Exit, Shells!AppendEvent, Shells!Console
<1>2. OpsHeld /\ FeedsFrom /\ replaced' = replaced /\ tabStrip' = tabStrip
  BY <1>1, FeedsRemain DEF OpsHeld
<1>3. CASE Shells!Output(t)
  BY <1>2, <1>3, TabsAppended DEF Shells!Output
<1>4. CASE Shells!Exit(t)
  <2> DEFINE b == terminal[t]
             x == [b EXCEPT !.process = "exited", !.next = b.next + 1]
  <2>1. b \in TermStates /\ b.process = "running"
    BY <1>4, ShellTypes DEF Shells!Exit
  <2>2. terminal' = [terminal EXCEPT ![t] = x]
    BY <1>4 DEF Shells!Exit
  <2>3. (x.process = "none" \/ x.known) => (b.process = "none" \/ b.known)
    <3> HIDE DEF b
    <3> QED
      BY <2>1 DEF TermStates
  <2> HIDE DEF x
  <2> QED
    BY <1>2, <2>2, <2>3, TabsRemainOf DEF NotDeleted
<1> QED
  BY <1>3, <1>4

LEMMA ServeHeld ==
    ASSUME ShellInv, ShellInv', NEW o \in TermOps,
           \/ Shells!ServeSnapshot(o) \/ Shells!ServeCreate(o) \/ Shells!ServeList(o)
           \/ Shells!ServeDelete(o) \/ Shells!ServeWrite(o) \/ Shells!ServeStop(o)
    PROVE  TabsHeld /\ OpsHeld /\ FeedsFrom /\ replaced' = replaced
<1>1. tabStrip' = tabStrip /\ replaced' = replaced
  BY DEF Shells!ServeSnapshot, Shells!ServeCreate, Shells!ServeList, Shells!ServeDelete,
         Shells!ServeWrite, Shells!ServeStop
<1>2. CASE Shells!ServeSnapshot(o) \/ Shells!ServeList(o)
  <2>1. UNCHANGED <<terminal, feeds>>
    BY <1>2 DEF Shells!ServeSnapshot, Shells!ServeList
  <2>2. Shells!Fail(o) \/ \E at, ev : at # "token" /\ Shells!Answer(o, at, ev)
    <3>1. CASE Shells!ServeSnapshot(o)
      BY <3>1, Zenon DEF Shells!ServeSnapshot
    <3>2. CASE Shells!ServeList(o)
      BY <3>2, Zenon DEF Shells!ServeList
    <3> QED
      BY <1>2, <3>1, <3>2
  <2>3. TabsHeld /\ FeedsFrom
    BY <1>1, <2>1, TabsRemain, FeedsRemain
  <2> QED
    BY <1>1, <2>2, <2>3, OpsAnswered, OpsFreed
<1>3. CASE Shells!ServeCreate(o)
  <2>1. PICK t \in Terms :
           /\ terminal[t].process = "none"
           /\ terminal' = [terminal EXCEPT ![t] = [process |-> "running", known |-> TRUE, next |-> 2]]
           /\ termOp' = [termOp EXCEPT ![o] =
                  [@ EXCEPT !.at = "created", !.on = t, !.after = 0, !.events = Shells!Only(t, {1})]]
    BY <1>3 DEF Shells!ServeCreate, Shells!None
  <2> DEFINE x == [process |-> "running", known |-> TRUE, next |-> 2]
             c == termOp[o]
             E == Shells!Only(t, {1})
             d == [c EXCEPT !.at = "created", !.on = t, !.after = 0, !.events = E]
  <2>2. terminal' = [terminal EXCEPT ![t] = x] /\ termOp' = [termOp EXCEPT ![o] = d]
    BY <2>1
  <2>3. c \in OpStates /\ feeds' = feeds
    BY <1>3, ShellTypes DEF Shells!ServeCreate
  <2> HIDE DEF c, E, x
  <2>4. d.at = "created"
    BY <2>3 DEF OpStates
  <2> HIDE DEF d
  <2>5. TabsHeld
    BY <1>1, <2>1, <2>2, TabsRemainOf DEF NotDeleted
  <2>6. OpsHeld /\ FeedsFrom
    BY <2>2, <2>3, <2>4, OpsMove, FeedsRemain
  <2> QED
    BY <1>1, <2>5, <2>6
<1>4. CASE Shells!ServeDelete(o)
  <2> DEFINE t == termOp[o].on
             b == terminal[t]
             x == [b EXCEPT !.known = FALSE]
  <2>1. t \in Terms /\ b \in TermStates /\ b.process # "none"
    BY <1>4, BringsIs, ShellTypes DEF Shells!ServeDelete, TargetedSteps
  <2>2. terminal' = [terminal EXCEPT ![t] = x] /\ OpsHeld
    <3>1. Shells!Answer(o, "deleted", termOp[o].events)
      BY <1>4 DEF Shells!ServeDelete
    <3> QED
      BY <1>4, <3>1, OpsAnswered DEF Shells!ServeDelete
  <2>3. x.process # "none" /\ ~x.known
    <3> HIDE DEF b
    <3> QED
      BY <2>1 DEF TermStates
  <2>4. FeedsFrom
    <3>1. feeds \in Seq(FeedStates) /\ feeds' \in Seq(FeedStates)
      BY DEF ShellInv, ShellTyped
    <3>2. /\ DOMAIN feeds' = DOMAIN feeds
          /\ \A n \in DOMAIN feeds :
                feeds'[n] = feeds[n] \/ feeds'[n] = [feeds[n] EXCEPT !.state = "silent"]
      BY <1>4 DEF Shells!ServeDelete
    <3>3. \A f \in FeedStates : [f EXCEPT !.state = "silent"].of = f.of
      BY DEF FeedStates
    <3>4. \A n \in DOMAIN feeds : feeds[n] \in FeedStates
      BY <3>1
    <3>5. \A n \in DOMAIN feeds : feeds'[n].of = feeds[n].of
      BY <3>2, <3>3, <3>4
    <3> QED
      BY <3>1, <3>2, <3>5 DEF FeedsFrom
  <2> HIDE DEF x, t
  <2>5. TabsHeld
    BY <1>1, <2>1, <2>2, <2>3, TabsRemainOf
  <2> QED
    BY <1>1, <2>2, <2>4, <2>5
<1>5. CASE Shells!ServeWrite(o)
  <2>1. termOp[o].on \in Terms
    BY <1>5, BringsIs DEF Shells!ServeWrite, TargetedSteps
  <2>2. Shells!Fail(o) \/ \E at, ev : at # "token" /\ Shells!Answer(o, at, ev)
    BY <1>5, Zenon DEF Shells!ServeWrite
  <2>3. CASE UNCHANGED <<terminal, feeds>>
    <3>1. TabsHeld /\ FeedsFrom
      BY <1>1, <2>3, TabsRemain, FeedsRemain
    <3> QED
      BY <1>1, <2>2, <3>1, OpsAnswered, OpsFreed
  <2>4. CASE Shells!AppendEvent(termOp[o].on)
    <3>1. TabsHeld /\ FeedsFrom
      BY <1>1, <2>1, <2>4, TabsAppended, FeedsRemain DEF Shells!AppendEvent
    <3> QED
      BY <1>1, <2>2, <3>1, OpsAnswered, OpsFreed
  <2> QED
    BY <1>5, <2>3, <2>4 DEF Shells!ServeWrite
<1>6. CASE Shells!ServeStop(o)
  <2>1. UNCHANGED <<terminal, feeds>>
    BY <1>6 DEF Shells!ServeStop
  <2>2. TabsHeld /\ FeedsFrom
    BY <1>1, <2>1, TabsRemain, FeedsRemain
  <2>3. CASE termOp' = [termOp EXCEPT ![o] = Shells!Free]
    BY <1>1, <2>2, <2>3, OpsFreed DEF Shells!Fail
  <2>4. CASE termOp' = [termOp EXCEPT ![o].at = "snapshot"]
    <3> DEFINE c == termOp[o]
               d == [c EXCEPT !.at = "snapshot"]
    <3>1. c \in OpStates /\ termOp' = [termOp EXCEPT ![o] = d]
      BY <2>4, ShellTypes
    <3> HIDE DEF c
    <3>2. d.at = "snapshot"
      BY <3>1 DEF OpStates
    <3> HIDE DEF d
    <3> QED
      BY <1>1, <2>2, <3>1, <3>2, OpsMove
  <2> QED
    BY <1>6, <2>3, <2>4 DEF Shells!ServeStop
<1> QED
  BY <1>2, <1>3, <1>4, <1>5, <1>6

LEMMA UserHeld ==
    ASSUME ShellInv, ShellInv', NEW o \in TermOps,
           \/ \E t \in Terms : Shells!ActivateTerminalTab(o, t) \/ Shells!CloseTerminalTab(o, t)
           \/ Shells!CreateTerminalTab(o) \/ Shells!OpenTerminal(o)
           \/ Shells!SendTerminalData(o) \/ Shells!StopTerminal(o) \/ Shells!RestartTerminal(o)
    PROVE  TabsHeld /\ OpsHeld /\ FeedsFrom /\ replaced' = replaced
<1>1. ASSUME NEW t, Shells!ActivateTerminalTab(o, t)
      PROVE  /\ \E does, on, at, after : at # "token" /\ Shells!Ask(o, does, on, at, after)
             /\ UNCHANGED <<tabStrip, feeds>>
  BY <1>1 DEF Shells!ActivateTerminalTab
<1>2. /\ \E does, on, at, after : at # "token" /\ Shells!Ask(o, does, on, at, after)
      /\ UNCHANGED <<tabStrip, feeds>>
  <2>1. CASE \E t \in Terms : Shells!ActivateTerminalTab(o, t)
    BY <1>1, <2>1
  <2>2. CASE \E t \in Terms : Shells!CloseTerminalTab(o, t)
    BY <2>2 DEF Shells!CloseTerminalTab
  <2>3. CASE Shells!CreateTerminalTab(o)
    BY <2>3 DEF Shells!CreateTerminalTab
  <2>4. CASE Shells!OpenTerminal(o)
    <3>1. \/ \E t : Shells!ActivateTerminalTab(o, t)
          \/ Shells!Ask(o, "create", Shells!None, "list", 0) /\ UNCHANGED <<tabStrip, feeds>>
      BY <2>4 DEF Shells!OpenTerminal
    <3> QED
      BY <1>1, <3>1
  <2>5. CASE Shells!SendTerminalData(o) \/ Shells!StopTerminal(o)
    BY <2>5 DEF Shells!SendTerminalData, Shells!StopTerminal
  <2>6. CASE Shells!RestartTerminal(o)
    BY <2>6 DEF Shells!RestartTerminal
  <2> QED
    BY <2>1, <2>2, <2>3, <2>4, <2>5, <2>6
<1>3. UNCHANGED <<terminal, replaced>> /\ OpsHeld
  <2>1. PICK does, on, at, after : at # "token" /\ Shells!Ask(o, does, on, at, after)
    BY <1>2
  <2>2. UNCHANGED <<terminal, replaced>>
    BY <2>1 DEF Shells!Ask
  <2> QED
    BY <2>1, <2>2, OpsAsked
<1>4. TabsHeld /\ FeedsFrom
  BY <1>2, <1>3, TabsRemain, FeedsRemain
<1> QED
  BY <1>3, <1>4

LEMMA MergeHeld ==
    ASSUME ShellInv, ShellInv', NEW o \in TermOps, Shells!Merge(o)
    PROVE  TabsHeld /\ OpsHeld /\ FeedsFrom /\ replaced' = replaced
<1> DEFINE t == termOp[o].on
<1>1. t \in Terms /\ tabStrip \in Seq(Terms)
  BY BringsIs, ShellTypes DEF Shells!Merge, TargetedSteps, TabsTyped
<1>2. /\ tabStrip' = Shells!Adding(t) /\ UNCHANGED <<terminal, replaced>>
      /\ feeds' = feeds \/ feeds' = Shells!Hang(source)
  BY DEF Shells!Merge, Shells!Attach, Shells!CloseSource
<1>3. \A u : InTabs(tabStrip', u) <=> (InTabs(tabStrip, u) \/ u = t)
  <2> HIDE DEF t
  <2> QED
    BY <1>1, <1>2, AddingTabs
<1>4. TabsHeld /\ FeedsFrom
  BY <1>2, <1>3, FeedsRemain DEF TabsHeld
<1>5. OpsHeld
  <2>1. Shells!Fail(o) \/ Shells!Attach(o, t, Shells!Merged(o))
    BY DEF Shells!Merge
  <2>2. CASE Shells!Attach(o, t, Shells!Merged(o))
    <3>1. Shells!Begin(o, termOp[o].does, t, "token", Shells!Latest(Shells!Merged(o)))
      BY <2>2 DEF Shells!Attach
    <3>2. InTabs(tabStrip', t)
      BY <1>3
    <3> QED
      BY <3>1, <3>2, OpsBegun
  <2> QED
    BY <2>1, <2>2, OpsFreed
<1> QED
  BY <1>2, <1>4, <1>5

LEMMA CreatedHeld ==
    ASSUME ShellInv, ShellInv', NEW o \in TermOps, Shells!Created(o)
    PROVE  (replaced \/ TabsHeld) /\ OpsHeld /\ FeedsFrom /\ replaced' = replaced
<1>1. /\ Shells!Attach(o, termOp[o].on, Shells!Merged(o)) /\ UNCHANGED <<terminal, replaced>>
  BY DEF Shells!Created
<1>2. /\ Shells!Begin(o, termOp[o].does, termOp[o].on, "token", Shells!Latest(Shells!Merged(o)))
      /\ feeds' = Shells!Hang(source)
  BY <1>1 DEF Shells!Attach, Shells!CloseSource
<1>3. /\ InTabs(tabStrip', termOp[o].on)
      /\ replaced \/ \A u \in Terms : NotDeleted(terminal, u) /\ InTabs(tabStrip, u)
                         => InTabs(tabStrip', u)
  BY TabCreatedKeeps
<1>4. replaced \/ TabsHeld
  BY <1>1, <1>3 DEF TabsHeld
<1>5. OpsHeld
  BY <1>2, <1>3, OpsBegun
<1> QED
  BY <1>1, <1>2, <1>4, <1>5, FeedsRemain

\* A list that comes when there are tabs replaces them.
LEMMA ListedHeld ==
    ASSUME ShellInv, ShellInv', NEW o \in TermOps, Shells!Listed(o)
    PROVE  (replaced' \/ TabsHeld) /\ OpsHeld /\ FeedsFrom /\ (replaced => replaced')
<1> DEFINE known == {t \in Terms : termOp[o].events[t] # {}}
           t == CHOOSE x \in known : TRUE
<1>1. /\ termOp[o].at = "listed" /\ tabStrip' = Shells!SetToSeq(known)
      /\ Shells!Attach(o, t, termOp[o].events[t])
      /\ replaced' = (replaced \/ tabStrip # <<>>) /\ terminal' = terminal
  BY DEF Shells!Listed
<1>2. known # {} /\ known \in SUBSET Terms /\ tabStrip \in Seq(Terms)
  BY <1>1, ShellTypes DEF OpTyped, TabsTyped
<1>3. t \in known
  <2> HIDE DEF known
  <2> QED
    BY <1>2
<1>4. \A u : InTabs(tabStrip', u) <=> u \in known
  <2> HIDE DEF known
  <2> QED
    BY <1>1, <1>2, SetTabs
<1>5. InTabs(tabStrip', t)
  BY <1>3, <1>4, Zenon
<1>6. /\ Shells!Begin(o, termOp[o].does, t, "token", Shells!Latest(termOp[o].events[t]))
      /\ feeds' = Shells!Hang(source)
  <2> HIDE DEF t
  <2> QED
    BY <1>1 DEF Shells!Attach, Shells!CloseSource
<1> HIDE DEF t, known
<1>7. OpsHeld
  BY <1>5, <1>6, OpsBegun
<1>8. CASE tabStrip = <<>>
  <2>1. \A u : ~InTabs(tabStrip, u)
    <3>1. Len(tabStrip) = 0
      BY <1>8
    <3> QED
      BY <3>1 DEF InTabs
  <2> QED
    BY <1>1, <1>6, <1>7, <2>1, FeedsRemain DEF TabsHeld
<1>9. CASE tabStrip # <<>>
  BY <1>1, <1>6, <1>7, <1>9, FeedsRemain
<1> QED
  BY <1>8, <1>9

LEMMA DeletedHeld ==
    ASSUME ShellInv, ShellInv', NEW o \in TermOps, Shells!Deleted(o)
    PROVE  (replaced \/ TabsHeld) /\ OpsHeld /\ FeedsFrom /\ replaced' = replaced
<1>1. UNCHANGED <<terminal, replaced>> /\ (feeds' = feeds \/ feeds' = Shells!Hang(source))
  BY DEF Shells!Deleted, Shells!CloseSource
<1>2. replaced \/ TabsHeld
  BY <1>1, TabDeletedKeeps DEF TabsHeld
<1>3. \/ termOp' = [termOp EXCEPT ![o] =
             [@ EXCEPT !.at = "create", !.old = termOp[o].on]]
      \/ Shells!Fail(o)
      \/ \E on, after : Shells!Begin(o, "activate", on, "snapshot", after)
  BY Zenon DEF Shells!Deleted
<1>4. OpsHeld
  <2>1. CASE termOp' = [termOp EXCEPT ![o] = [@ EXCEPT !.at = "create", !.old = termOp[o].on]]
    <3> DEFINE c == termOp[o]
               t == c.on
               d == [c EXCEPT !.at = "create", !.old = t]
    <3>1. c \in OpStates /\ termOp' = [termOp EXCEPT ![o] = d]
      BY <2>1, ShellTypes
    <3> HIDE DEF c, t
    <3>2. d.at = "create"
      BY <3>1 DEF OpStates
    <3> HIDE DEF d
    <3> QED
      BY <3>1, <3>2, OpsMove
  <2> QED
    BY <1>3, <2>1, OpsFreed, OpsBegun
<1> QED
  BY <1>1, <1>2, <1>4, FeedsRemain

\* The new stream is of a terminal whose token was waited for.
LEMMA TokenHeld ==
    ASSUME ShellInv, ShellInv', replaced \/ ShellHeld, NEW o \in TermOps, Shells!TokenArrives(o)
    PROVE  (replaced \/ ShellHeld)'
<1> DEFINE f == [of |-> termOp[o].on, after |-> termOp[o].after, state |-> "connecting",
                 wire |-> <<>>]
<1>1. /\ termOp[o].at = "token" /\ feeds' = Append(feeds, f) /\ Shells!Fail(o)
      /\ UNCHANGED <<terminal, tabStrip, replaced>>
  BY DEF Shells!TokenArrives
<1>2. f.of = termOp[o].on /\ feeds \in Seq(FeedStates)
  BY DEF ShellInv, ShellTyped
<1> HIDE DEF f
<1>3. /\ Len(feeds') = Len(feeds) + 1 /\ \A n \in 1..Len(feeds) : feeds'[n] = feeds[n]
      /\ feeds'[Len(feeds) + 1] = f /\ Len(feeds) \in Nat
  BY <1>1, <1>2
<1>4. OpsHeld
  BY <1>1, OpsFreed
<1> SUFFICES ASSUME ~replaced, ShellHeld PROVE ShellHeld'
  BY <1>1
<1>5. ASSUME NEW n \in 1..Len(feeds'), NotDeleted(terminal', feeds'[n].of)
      PROVE  InTabs(tabStrip', feeds'[n].of)
  <2>1. n \in 1..Len(feeds) \/ n = Len(feeds) + 1
    BY <1>3
  <2> QED
    BY <1>1, <1>2, <1>3, <1>5, <2>1 DEF ShellHeld
<1>6. ASSUME NEW p \in TermOps, termOp'[p].at = "token", NotDeleted(terminal', termOp'[p].on)
      PROVE  InTabs(tabStrip', termOp'[p].on)
  BY <1>1, <1>4, <1>6 DEF ShellHeld, OpsHeld
<1> QED
  BY <1>5, <1>6 DEF ShellHeld

LEMMA FeedsHeld ==
    ASSUME ShellInv, ShellInv',
           \/ Shells!CloseTerminal
           \/ \E n \in DOMAIN feeds : Shells!Subscribe(n) \/ Shells!Deliver(n) \/ Shells!Disconnect(n)
    PROVE  TabsHeld /\ OpsHeld /\ FeedsFrom /\ replaced' = replaced
<1>1. UNCHANGED <<terminal, tabStrip, termOp, replaced>>
  BY DEF Shells!CloseTerminal, Shells!Subscribe, Shells!Deliver, Shells!Disconnect, Shells!Console
<1>2. TabsHeld /\ OpsHeld
  BY <1>1, TabsRemain DEF OpsHeld
<1>3. CASE \E k : feeds' = Shells!Hang(k)
  BY <1>1, <1>2, <1>3, FeedsRemain
<1>4. ASSUME NEW n \in DOMAIN feeds, NEW w,
             \/ feeds' = [feeds EXCEPT ![n].wire = w]
             \/ feeds' = [feeds EXCEPT ![n].state = "open", ![n].wire = w]
      PROVE  FeedsFrom
  <2>1. feeds \in Seq(FeedStates) /\ feeds' \in Seq(FeedStates)
    BY DEF ShellInv, ShellTyped
  <2>2. /\ DOMAIN feeds' = DOMAIN feeds
        /\ \A k \in DOMAIN feeds : \/ feeds'[k] = feeds[k]
                                   \/ feeds'[k] = [feeds[k] EXCEPT !.wire = w]
                                   \/ feeds'[k] = [feeds[k] EXCEPT !.state = "open", !.wire = w]
    BY <1>4
  <2>3. \A f \in FeedStates : /\ [f EXCEPT !.wire = w].of = f.of
                              /\ [f EXCEPT !.state = "open", !.wire = w].of = f.of
    BY DEF FeedStates
  <2>4. \A k \in DOMAIN feeds : feeds[k] \in FeedStates
    BY <2>1
  <2>5. \A k \in DOMAIN feeds : feeds'[k].of = feeds[k].of
    BY <2>2, <2>3, <2>4
  <2> QED
    BY <2>2, <2>5, FeedsOf
<1>5. \/ \E k : feeds' = Shells!Hang(k)
      \/ \E n \in DOMAIN feeds : \E w : \/ feeds' = [feeds EXCEPT ![n].wire = w]
                                        \/ feeds' = [feeds EXCEPT ![n].state = "open", ![n].wire = w]
  <2>1. CASE Shells!CloseTerminal \/ \E n \in DOMAIN feeds : Shells!Disconnect(n)
    BY <2>1 DEF Shells!CloseTerminal, Shells!CloseSource, Shells!Disconnect
  <2>2. CASE \E n \in DOMAIN feeds : Shells!Subscribe(n)
    BY <2>2, Zenon DEF Shells!Subscribe
  <2>3. CASE \E n \in DOMAIN feeds : Shells!Deliver(n)
    BY <2>3 DEF Shells!Deliver
  <2> QED
    BY <2>1, <2>2, <2>3
<1> QED
  BY <1>1, <1>2, <1>3, <1>4, <1>5

LEMMA ShellHeldInit == Shells!Init => ShellHeld
<1> SUFFICES ASSUME Shells!Init PROVE ShellHeld
  OBVIOUS
<1>1. Len(feeds) = 0
  BY DEF Shells!Init
<1>2. \A o \in TermOps : termOp[o] = Shells!Free
  BY DEF Shells!Init
<1>3. Shells!Free.at = "none"
  BY DEF Shells!Free, Shells!None
<1>4. \A n \in 1..Len(feeds) : FALSE
  BY <1>1
<1> QED
  BY <1>2, <1>3, <1>4 DEF ShellHeld

LEMMA ShellNext ==
    ASSUME ShellInv, replaced \/ ShellHeld, [Shells!Next]_TerminalsVars
    PROVE  ShellInv' /\ (replaced \/ ShellHeld)'
<1>1. CASE UNCHANGED TerminalsVars
  <2>1. UNCHANGED <<terminal, feeds, tabStrip, output, front, termOp, replaced>>
    BY <1>1 DEF TerminalsVars
  <2>2. ShownNow' = ShownNow
    BY <2>1, SameShown
  <2>3. ShellInv'
    BY <2>1, <2>2 DEF ShellInv, ShellTyped, ShellSafe, TermsTyped, TabsTyped
  <2> QED
    BY <2>1, <2>3 DEF ShellHeld
<1>2. ASSUME NEW t \in Terms, Shells!Output(t) \/ Shells!Exit(t)
      PROVE  ShellInv' /\ (replaced \/ ShellHeld)'
  <2>1. ShellInv'
    BY <1>2, OutputKeeps
  <2>2. TabsHeld /\ OpsHeld /\ FeedsFrom /\ replaced' = replaced
    BY <1>2, <2>1, OutputHeld
  <2> QED
    BY <2>1, <2>2, HeldKeeps
<1>3. ASSUME NEW o \in TermOps,
             \/ Shells!ServeSnapshot(o) \/ Shells!ServeCreate(o) \/ Shells!ServeList(o)
             \/ Shells!ServeDelete(o) \/ Shells!ServeWrite(o) \/ Shells!ServeStop(o)
      PROVE  ShellInv' /\ (replaced \/ ShellHeld)'
  <2>1. ShellInv'
    BY <1>3, ServeSnapshotKeeps, ServeCreateKeeps, ServeListKeeps, ServeDeleteKeeps,
       ServeWriteKeeps, ServeStopKeeps
  <2>2. TabsHeld /\ OpsHeld /\ FeedsFrom /\ replaced' = replaced
    BY <1>3, <2>1, ServeHeld
  <2> QED
    BY <2>1, <2>2, HeldKeeps
<1>4. ASSUME NEW o \in TermOps,
             \/ \E t \in Terms : Shells!ActivateTerminalTab(o, t) \/ Shells!CloseTerminalTab(o, t)
             \/ Shells!CreateTerminalTab(o) \/ Shells!OpenTerminal(o)
             \/ Shells!SendTerminalData(o) \/ Shells!StopTerminal(o) \/ Shells!RestartTerminal(o)
      PROVE  ShellInv' /\ (replaced \/ ShellHeld)'
  <2>1. ShellInv'
    BY <1>4, UserKeeps
  <2>2. TabsHeld /\ OpsHeld /\ FeedsFrom /\ replaced' = replaced
    BY <1>4, <2>1, UserHeld
  <2> QED
    BY <2>1, <2>2, HeldKeeps
<1>5. ASSUME NEW o \in TermOps,
             Shells!Merge(o) \/ Shells!Created(o) \/ Shells!Listed(o) \/ Shells!Deleted(o)
      PROVE  ShellInv' /\ (replaced \/ ShellHeld)'
  <2>1. ShellInv'
    BY <1>5, MergeKeeps, TabCreatedKeeps, ListedKeeps, TabDeletedKeeps
  <2>2. (replaced' \/ TabsHeld) /\ OpsHeld /\ FeedsFrom /\ (replaced => replaced')
    BY <1>5, <2>1, MergeHeld, CreatedHeld, ListedHeld, DeletedHeld
  <2> QED
    BY <2>1, <2>2, HeldKeeps
<1>6. ASSUME NEW o \in TermOps, Shells!TokenArrives(o)
      PROVE  ShellInv' /\ (replaced \/ ShellHeld)'
  BY <1>6, TokenKeeps, TokenHeld
<1>7. ASSUME \/ Shells!CloseTerminal
             \/ \E n \in DOMAIN feeds :
                   Shells!Subscribe(n) \/ Shells!Deliver(n) \/ Shells!Disconnect(n)
      PROVE  ShellInv' /\ (replaced \/ ShellHeld)'
  <2>1. ShellInv'
    BY <1>7, BreakKeeps, SubscribeKeeps, DeliverKeeps
  <2>2. TabsHeld /\ OpsHeld /\ FeedsFrom /\ replaced' = replaced
    BY <1>7, <2>1, FeedsHeld
  <2> QED
    BY <2>1, <2>2, HeldKeeps
<1> QED
  BY <1>1, <1>2, <1>3, <1>4, <1>5, <1>6, <1>7, Zenon DEF Shells!Next

LEMMA ShellInvImplies == ShellInv => Shells!ShownWithoutHoles
<1> SUFFICES ASSUME ShellInv, NEW t \in Terms, Shells!HasTab(t), terminal[t].known,
                    NEW s \in 1..Shells!Latest(output[t])
             PROVE  s \in output[t] \/ s + MaxKept < terminal[t].next \/ replaced
  BY DEF Shells!ShownWithoutHoles
<1>1. /\ Shells!Latest(output[t]) \in Nat
      /\ replaced \/ (NotDeleted(terminal, t) =>
             CoveredTo(ShownNow[t], terminal[t].next, Shells!Latest(output[t]) + 1))
  BY TabCovers
<1>2. ShownNow[t] = output[t] /\ NotDeleted(terminal, t)
  BY DEF ShownNow, NotDeleted
<1> QED
  BY <1>1, <1>2 DEF CoveredTo

-----------------------------------------------------------------------------
(* The console as a whole.                                                 *)

\* The tabs show their terminals without a hole, voice input that is idle is quiet,
\* messages go home, the app shows the desktop chosen last, a review shows what the core
\* knows: ConsoleIsFaithful of MCEdges.
THEOREM ConsoleStaysFaithful == EdgesSpec => []ConsoleIsFaithful
<1> DEFINE ConsoleInv == /\ ShellInv /\ (replaced \/ ShellHeld)
                         /\ VoiceInv /\ BenchInv /\ AppInv /\ ReviewInv /\ ForkFits
<1>1. EdgesInit => ConsoleInv
  BY ShellInit, ShellHeldInit, VoiceInit, BenchInit, AppInit, ReviewInit, ForkInit DEF EdgesInit
<1>2. ConsoleInv /\ [EdgesNext]_<<focus, vars, edges>> => ConsoleInv'
  BY ShellRests, ShellNext, VoiceRests, VoiceNext, BenchRests, BenchNext, AppRests, AppNext,
     ReviewRests, ReviewNext, ForkNext
<1>3. ConsoleInv => ConsoleIsFaithful
  BY ShellInvImplies, VoiceInvImplies, BenchInvImplies, AppInvImplies, ShowsHolds
  DEF ConsoleIsFaithful
<1> QED
  BY <1>1, <1>2, <1>3, PTL DEF EdgesSpec

=============================================================================
