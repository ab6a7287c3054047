------------------------- MODULE SessionThread_proofs -------------------------
(***************************************************************************)
(* What holds of every thread, whatever the bounds: no tool call gets two  *)
(* results, an exclusive tool runs alone, no structured fact is lost but   *)
(* in a crash, and the model is sent one result next to each call.         *)
(***************************************************************************)
EXTENDS SessionThread, FiniteSetTheorems, WellFoundedInduction, TLAPS

-----------------------------------------------------------------------------
(* Positions in their order.                                               *)

Below == {pair \in Nat \X Nat : pair[1] < pair[2]}

\* Some numbers have a smallest.
LEMMA Smallest ==
    ASSUME NEW S \in SUBSET Nat, S # {}
    PROVE  \E m \in S : \A k \in S : m <= k
<1>1. IsWellFoundedOn(Below, Nat)
  BY NatLessThanWellFounded DEF Below, OpToRel
<1>2. PICK m \in S : \A k \in S : <<k, m>> \notin Below
  BY <1>1, WFMin
<1>3. ASSUME NEW k \in S PROVE m <= k
  <2>1. k \in Nat /\ m \in Nat
    OBVIOUS
  <2>2. k < m => <<k, m>> \in Below
    BY <2>1 DEF Below
  <2> QED
    BY <1>2, <2>1, <2>2
<1> QED
  BY <1>3

\* How many of some positions come up to a given one.
UpTo(S, m) == {k \in S : k <= m}

LEMMA UpToFinite ==
    ASSUME NEW n \in Nat, NEW S \in SUBSET (1..n), NEW m
    PROVE  /\ IsFiniteSet(S) /\ IsFiniteSet(UpTo(S, m))
           /\ Cardinality(S) \in 0..n /\ Cardinality(UpTo(S, m)) \in 0..Cardinality(S)
<1>1. IsFiniteSet(1..n) /\ Cardinality(1..n) = n
  BY FS_Interval
<1>2. IsFiniteSet(S) /\ Cardinality(S) <= n
  BY <1>1, FS_Subset
<1>3. UpTo(S, m) \in SUBSET S
  BY DEF UpTo
<1>4. IsFiniteSet(UpTo(S, m)) /\ Cardinality(UpTo(S, m)) <= Cardinality(S)
  BY <1>2, <1>3, FS_Subset
<1>5. Cardinality(S) \in Nat /\ Cardinality(UpTo(S, m)) \in Nat
  BY <1>2, <1>4, FS_CardinalityType
<1> QED
  BY <1>2, <1>4, <1>5

\* There are as many positions as their number says: each number has one.
LEMMA NthIs ==
    ASSUME NEW n \in Nat, NEW S \in SUBSET (1..n), NEW i \in 1..Cardinality(S)
    PROVE  Nth(S, i) \in S /\ Cardinality(UpTo(S, Nth(S, i))) = i
<1> DEFINE Enough == {m \in 0..n : Cardinality(UpTo(S, m)) >= i}
<1>1. Cardinality(S) \in Nat /\ i \in Nat /\ i > 0 /\ i <= Cardinality(S)
  BY UpToFinite
<1>2. \A k \in S : k \in Nat /\ 1 <= k /\ k <= n
  OBVIOUS
<1>3. UpTo(S, n) = S /\ UpTo(S, 0) = {}
  <2>1. \A k \in S : k <= n /\ ~(k <= 0)
    BY <1>2
  <2> QED
    BY <2>1, Zenon DEF UpTo
<1>4. n \in Enough /\ 0 \notin Enough /\ Enough \in SUBSET Nat
  BY <1>1, <1>3, FS_EmptySet
<1>5. PICK m \in Enough : \A k \in Enough : m <= k
  <2> HIDE DEF Enough
  <2> QED
    BY <1>4, Smallest
<1>6. m \in 1..n /\ m \in Nat
  BY <1>4
<1>7. m - 1 \in 0..n /\ m - 1 \notin Enough
  BY <1>5, <1>6
<1> DEFINE before == UpTo(S, m - 1)
<1>8. Cardinality(before) \in Nat /\ IsFiniteSet(before) /\ Cardinality(UpTo(S, m)) \in Nat
  BY <1>1, UpToFinite
<1>9. Cardinality(before) < i /\ Cardinality(UpTo(S, m)) >= i
  BY <1>1, <1>5, <1>7, <1>8
<1>10. \A k \in S : k <= m <=> k <= m - 1 \/ k = m
  BY <1>2, <1>6
<1>11. m \notin before
  BY <1>6 DEF UpTo
<1>12. m \in S
  <2>1. m \notin S => UpTo(S, m) = before
    BY <1>10 DEF UpTo
  <2> QED
    BY <1>1, <1>8, <1>9, <2>1
<1>13. UpTo(S, m) = before \cup {m}
  BY <1>6, <1>10, <1>12 DEF UpTo
<1> HIDE DEF before
<1>14. Cardinality(UpTo(S, m)) = i
  <2>1. Cardinality(before \cup {m}) = Cardinality(before) + 1
    BY <1>8, <1>11, FS_AddElement
  <2>2. \A a \in Nat : a < i /\ a + 1 >= i => a + 1 = i
    BY <1>1
  <2> QED
    BY <1>8, <1>9, <1>13, <2>1, <2>2
<1> QED
  BY <1>12, <1>14 DEF Nth, UpTo

\* Two of them have different numbers, and so each is the one of its number.
LEMMA NthCounts ==
    ASSUME NEW n \in Nat, NEW S \in SUBSET (1..n), NEW p \in S
    PROVE  /\ Cardinality(UpTo(S, p)) \in 1..Cardinality(S)
           /\ Nth(S, Cardinality(UpTo(S, p))) = p
<1> DEFINE i == Cardinality(UpTo(S, p))
           q == Nth(S, i)
<1>0. \A k \in S : k \in Nat
  OBVIOUS
<1>1. i \in Nat /\ i <= Cardinality(S) /\ Cardinality(S) \in Nat /\ IsFiniteSet(UpTo(S, p))
  BY UpToFinite
<1>2. p \in UpTo(S, p)
  BY <1>0 DEF UpTo
<1>3. i # 0
  BY <1>1, <1>2, FS_EmptySet
<1>4. i \in 1..Cardinality(S)
  BY <1>1, <1>3
<1>5. q \in S /\ Cardinality(UpTo(S, q)) = i
  BY <1>4, NthIs
<1>6. IsFiniteSet(UpTo(S, q))
  BY UpToFinite
<1> HIDE DEF q, i
<1>7. q \in Nat /\ p \in Nat /\ q \in UpTo(S, q)
  BY <1>0, <1>5 DEF UpTo
<1>8. UpTo(S, p) = UpTo(S, q)
  <2>1. Cardinality(UpTo(S, p)) = Cardinality(UpTo(S, q))
    BY <1>5 DEF i
  <2>2. \A a, c \in S : a <= c => \A k \in S : k <= a => k <= c
    BY <1>0
  <2>3. \A a, c \in S : a <= c => UpTo(S, a) \in SUBSET UpTo(S, c)
    BY <2>2, Zenon DEF UpTo
  <2>4. p <= q \/ q <= p
    BY <1>7
  <2>5. UpTo(S, p) \in SUBSET UpTo(S, q) \/ UpTo(S, q) \in SUBSET UpTo(S, p)
    BY <1>5, <2>3, <2>4
  <2> QED
    BY <1>1, <1>6, <2>1, <2>5, FS_Subset
<1>9. p <= q /\ q <= p
  BY <1>2, <1>7, <1>8 DEF UpTo
<1>10. p = q
  BY <1>7, <1>9
<1> QED
  BY <1>4, <1>10 DEF q, i

\* Events taken at some positions: each of those there, once, and no others.
LEMMA EventsAtAre ==
    ASSUME NEW E, NEW th \in Seq(E), NEW S \in SUBSET DOMAIN th
    PROVE  /\ EventsAt(th, S) \in Seq(E)
           /\ Len(EventsAt(th, S)) = Cardinality(S) /\ Cardinality(S) \in Nat
           /\ \A i \in 1..Cardinality(S) :
                  Nth(S, i) \in S /\ EventsAt(th, S)[i] = th[Nth(S, i)]
           /\ \A i, k \in 1..Cardinality(S) : Nth(S, i) = Nth(S, k) => i = k
           /\ \A p \in S : \E i \in 1..Cardinality(S) : Nth(S, i) = p
<1>1. S \in SUBSET (1..Len(th)) /\ Len(th) \in Nat
  OBVIOUS
<1>2. Cardinality(S) \in Nat
  BY <1>1, UpToFinite
<1>3. \A i \in 1..Cardinality(S) : Nth(S, i) \in S /\ Cardinality(UpTo(S, Nth(S, i))) = i
  BY <1>1, NthIs
<1>4. \A i \in 1..Cardinality(S) : th[Nth(S, i)] \in E
  BY <1>1, <1>3
<1>5. EventsAt(th, S) = [i \in 1..Cardinality(S) |-> th[Nth(S, i)]]
  BY DEF EventsAt
<1>6. \A p \in S : \E i \in 1..Cardinality(S) : Nth(S, i) = p
  BY <1>1, NthCounts
<1>7. EventsAt(th, S) \in Seq(E) /\ Len(EventsAt(th, S)) = Cardinality(S)
  BY <1>2, <1>4, <1>5
<1>8. \A i \in 1..Cardinality(S) : EventsAt(th, S)[i] = th[Nth(S, i)]
  BY <1>5
<1>9. \A i, k \in 1..Cardinality(S) : Nth(S, i) = Nth(S, k) => i = k
  BY <1>3
<1> QED
  BY <1>2, <1>3, <1>6, <1>7, <1>8, <1>9


-----------------------------------------------------------------------------
(* The inductive invariant.                                                *)

Events == [kind : Kinds, seq : Nat, branch : Nat, use : Nat, covers : Nat \X Nat]

Calls(th)   == {i \in DOMAIN th : th[i].kind = "call"}
Results(th) == {i \in DOMAIN th : th[i].kind = "result"}

\* What a thread has to satisfy for every later repair to leave no call two results: a
\* repair only looks at what follows the start of the turn.
UsesAreOlder(th)  == \A i \in Results(th) : th[i].use < th[i].seq
CallsDiffer(th)   == \A i, k \in Calls(th) : th[i].seq = th[k].seq => i = k
ResultsFollow(th) == \A i \in Results(th), k \in Calls(th) : th[i].use = th[k].seq => k < i
OneResult(th)     == \A i, k \in Results(th) : th[i].use = th[k].use => i = k

Sound(th) == UsesAreOlder(th) /\ CallsDiffer(th) /\ ResultsFollow(th) /\ OneResult(th)

\* Number n is still free.
Under(th, n) == \A i \in DOMAIN th : th[i].seq < n

Pcs     == {"none", "model", "tools", "compactMid", "compactEnd"}
Asked   == [use : Nat, safe : BOOLEAN]
Batches == Seq(Asked)
Turns   == [pc : Pcs, branch : Nat, forked : BOOLEAN, start : Nat, cursor : Nat,
            aborted : BOOLEAN, blocks : Nat, batch : Batches, at : Nat, cut : Nat, block : Nat]

\* A thread that is in order, and its next number.
Whole(th, n) == th \in Seq(Events) /\ n \in 1..(MaxSeq + 1) /\ Sound(th) /\ Under(th, n)

\* The branches of a session, and the one that is active.
BranchesOK(list, active) ==
    /\ list \in Seq([parent : Nat, fork : Nat])
    /\ Len(list) \in 1..MaxBranches /\ active \in DOMAIN list

MetaTyped ==
    /\ BranchesOK(branches, here)
    /\ status \in {"idle", "running", "blocked"}

TurnTyped ==
    /\ turn \in Turns
    /\ running \in SUBSET Nat /\ zombies \in SUBSET [use : Nat, branch : Nat]

DiskOK ==
    /\ disk = [thread |-> disk.thread, branches |-> disk.branches,
               here |-> disk.here, status |-> disk.status]
    /\ \E n \in 1..(MaxSeq + 1) : Whole(disk.thread, n)
    /\ BranchesOK(disk.branches, disk.here)
    /\ disk.status \in {"idle", "running", "blocked"}
    /\ restarts \in 0..MaxRestarts

\* The calls of the batch have no results yet, and those that run started together.
BatchInv ==
    /\ (running # {}) = (turn.pc = "tools")
    /\ turn.pc = "tools" =>
         LET batch == turn.batch
         IN  /\ \A k \in DOMAIN batch :
                  /\ batch[k].use < seq
                  /\ \A i \in Results(thread) : thread[i].use # batch[k].use
             /\ \A j, k \in DOMAIN batch : batch[j].use = batch[k].use => j = k
             /\ \E after \in 0..Len(batch) :
                  running \subseteq {batch[k].use : k \in Chunk(batch, after)}

\* A compaction knows what it takes and the number of its summary.
CompactInv ==
    /\ turn.pc \in {"compactMid", "compactEnd"} => turn.cut \in 1..Len(thread) /\ turn.block < seq
    /\ turn.aborted => turn.pc \in {"compactMid", "compactEnd"}

ThreadInv ==
    /\ Whole(thread, seq) /\ MetaTyped /\ TurnTyped /\ DiskOK
    /\ BatchInv /\ CompactInv


-----------------------------------------------------------------------------
(* What may be written into a thread.                                      *)

\* The thread th2 has all that th has, where it was.
Extends(th, th2) ==
    /\ th2 \in Seq(Events) /\ Len(th) <= Len(th2)
    /\ \A i \in DOMAIN th : th2[i] = th[i]

\* The fields of the events of a thread.
LEMMA EventFields ==
    ASSUME NEW th \in Seq(Events), NEW i \in DOMAIN th
    PROVE  /\ th[i] \in Events /\ i \in Nat
           /\ th[i].kind \in Kinds /\ th[i].seq \in Nat /\ th[i].use \in Nat /\ th[i].branch \in Nat
<1>1. th[i] \in Events /\ i \in Nat
  OBVIOUS
<1> QED
  BY <1>1 DEF Events

\* A message, a notice or a fact changes nothing between calls and results.
LEMMA NotedIsSound ==
    ASSUME NEW th \in Seq(Events), NEW n \in Nat, Sound(th), Under(th, n),
           NEW kind \in Kinds \ {"call", "result"}, NEW b \in Nat
    PROVE  /\ Extends(th, Append(th, Event(kind, n, b, 0)))
           /\ Sound(Append(th, Event(kind, n, b, 0)))
           /\ Under(Append(th, Event(kind, n, b, 0)), n + 1)
           /\ Results(Append(th, Event(kind, n, b, 0))) = Results(th)
<1> DEFINE e == Event(kind, n, b, 0)
           th2 == Append(th, e)
<1>1. e \in Events /\ e.kind = kind /\ e.seq = n
  BY DEF Event, Events
<1> HIDE DEF e
<1>2. /\ th2 \in Seq(Events) /\ Len(th2) = Len(th) + 1 /\ Len(th) \in Nat
      /\ \A i \in DOMAIN th : i \in DOMAIN th2 /\ th2[i] = th[i]
      /\ \A i \in DOMAIN th2 : i \in DOMAIN th \/ i = Len(th) + 1
      /\ th2[Len(th) + 1] = e
  BY <1>1
<1> HIDE DEF th2
<1>3. Results(th2) = Results(th) /\ Calls(th2) = Calls(th)
  BY <1>1, <1>2 DEF Results, Calls
<1>4. \A i \in Results(th) \cup Calls(th) : i \in DOMAIN th /\ th2[i] = th[i]
  BY <1>2 DEF Results, Calls
<1>5. Sound(th2)
  BY <1>3, <1>4 DEF Sound, UsesAreOlder, CallsDiffer, ResultsFollow, OneResult
<1>6. Under(th2, n + 1)
  <2>1. \A i \in DOMAIN th : th[i].seq \in Nat /\ th[i].seq < n
    BY EventFields DEF Under
  <2> QED
    BY <1>1, <1>2, <2>1 DEF Under
<1> QED
  BY <1>2, <1>3, <1>5, <1>6 DEF th2, e, Extends

\* What may follow a thread whose next number is n: calls with new numbers, and results
\* of calls that have none, one for each.
MayFollow(new, th, n) ==
    /\ \A i \in DOMAIN new : new[i].seq >= n
    /\ CallsDiffer(new) /\ OneResult(new)
    /\ \A i \in Results(new) :
           new[i].use < n /\ \A k \in Results(th) : th[k].use # new[i].use

LEMMA GrownIsSound ==
    ASSUME NEW th \in Seq(Events), NEW n \in Nat, Sound(th), Under(th, n),
           NEW new \in Seq(Events), MayFollow(new, th, n),
           NEW m \in Nat, n <= m, Under(new, m)
    PROVE  /\ Extends(th, th \o new) /\ Len(th \o new) = Len(th) + Len(new)
           /\ Sound(th \o new) /\ Under(th \o new, m)
<1> DEFINE th2 == th \o new
           Old(i) == i \in DOMAIN th /\ th2[i] = th[i]
           New(i) == i - Len(th) \in DOMAIN new /\ th2[i] = new[i - Len(th)] /\ i > Len(th)
<1>1. /\ th2 \in Seq(Events) /\ Len(th2) = Len(th) + Len(new)
      /\ Len(th) \in Nat /\ Len(new) \in Nat
  OBVIOUS
<1>2. \A i \in DOMAIN th : i \in DOMAIN th2 /\ th2[i] = th[i]
  OBVIOUS
<1>3. \A i \in DOMAIN th2 : i \in Nat /\ (Old(i) \/ New(i))
  OBVIOUS
<1>4. \A i \in DOMAIN th : th[i].seq \in Nat /\ th[i].use \in Nat /\ th[i].seq < n
  BY EventFields DEF Under
<1>5. \A i \in DOMAIN new : /\ new[i].seq \in Nat /\ new[i].use \in Nat
                            /\ new[i].seq >= n /\ new[i].seq < m
  BY EventFields DEF Under, MayFollow
<1> HIDE DEF th2
<1>6. Extends(th, th2)
  BY <1>1, <1>2 DEF Extends
<1>7. Under(th2, m)
  BY <1>3, <1>4, <1>5 DEF Under
<1>8. \A i \in Results(th2) : \/ Old(i) /\ i \in Results(th)
                              \/ New(i) /\ i - Len(th) \in Results(new)
  BY <1>3 DEF Results
<1>9. \A i \in Calls(th2) : \/ Old(i) /\ i \in Calls(th)
                            \/ New(i) /\ i - Len(th) \in Calls(new)
  BY <1>3 DEF Calls
<1>10. \A i \in Results(new) : /\ i \in DOMAIN new /\ new[i].use < n
                               /\ \A k \in Results(th) : th[k].use # new[i].use
  BY DEF MayFollow, Results
<1>11. \A i \in Results(th) : i \in DOMAIN th /\ th[i].use < th[i].seq
  BY DEF Sound, UsesAreOlder, Results
<1>12. UsesAreOlder(th2)
  BY <1>4, <1>5, <1>8, <1>10, <1>11 DEF UsesAreOlder
<1>13. CallsDiffer(th2)
  <2> SUFFICES ASSUME NEW i \in Calls(th2), NEW k \in Calls(th2), th2[i].seq = th2[k].seq
               PROVE  i = k
    BY DEF CallsDiffer
  <2>0. i \in Nat /\ k \in Nat
    BY <1>3 DEF Calls
  <2>1. CASE Old(i) /\ i \in Calls(th)
    BY <1>4, <1>5, <1>9, <2>1 DEF Sound, CallsDiffer
  <2>2. CASE New(i) /\ i - Len(th) \in Calls(new)
    <3>1. New(k) /\ k - Len(th) \in Calls(new)
      BY <1>4, <1>5, <1>9, <2>2
    <3>2. i - Len(th) = k - Len(th)
      BY <2>2, <3>1 DEF MayFollow, CallsDiffer
    <3> QED
      BY <1>1, <2>0, <3>2
  <2> QED
    BY <1>9, <2>1, <2>2
<1>14. ResultsFollow(th2)
  <2> SUFFICES ASSUME NEW i \in Results(th2), NEW k \in Calls(th2), th2[i].use = th2[k].seq
               PROVE  k < i
    BY DEF ResultsFollow
  <2>0. i \in Nat /\ k \in Nat
    BY <1>3 DEF Calls, Results
  <2>1. th2[i].use < n
    BY <1>4, <1>8, <1>10, <1>11
  <2>2. Old(k) /\ k \in Calls(th)
    BY <1>5, <1>9, <2>1 DEF Calls
  <2>3. CASE Old(i) /\ i \in Results(th)
    BY <2>2, <2>3 DEF Sound, ResultsFollow
  <2>4. CASE New(i)
    BY <1>1, <2>0, <2>2, <2>4
  <2> QED
    BY <1>8, <2>3, <2>4
<1>15. OneResult(th2)
  <2> SUFFICES ASSUME NEW i \in Results(th2), NEW k \in Results(th2), th2[i].use = th2[k].use
               PROVE  i = k
    BY DEF OneResult
  <2>0. i \in Nat /\ k \in Nat
    BY <1>3 DEF Results
  <2>1. CASE i \in Results(th) /\ k \in Results(th) /\ Old(i) /\ Old(k)
    BY <2>1 DEF Sound, OneResult
  <2>2. CASE New(i) /\ i - Len(th) \in Results(new) /\ New(k) /\ k - Len(th) \in Results(new)
    <3>1. i - Len(th) = k - Len(th)
      BY <2>2 DEF MayFollow, OneResult
    <3> QED
      BY <1>1, <2>0, <3>1
  <2> QED
    BY <1>8, <1>10, <2>1, <2>2
<1> QED
  BY <1>1, <1>6, <1>7, <1>12, <1>13, <1>14, <1>15 DEF th2, Sound


\* The repair of an aborted turn or of a restart: one result for each call that has none.
LEMMA RepairedIsSound ==
    ASSUME NEW th \in Seq(Events), NEW n \in Nat, Sound(th), Under(th, n), NEW from \in Nat
    PROVE  LET th2 == Repaired(th, from, n)
               m   == n + (Len(th2) - Len(th))
           IN  /\ Extends(th, th2) /\ Sound(th2) /\ Under(th2, m) /\ m \in Nat /\ n <= m
               /\ Len(th2) \in Nat
<1> DEFINE D == Dangling(th, from)
           c == Cardinality(D)
           calls == EventsAt(th, D)
           new == [i \in 1..c |-> Event("result", n + i - 1, Main, calls[i].seq)]
<1>1. D \in SUBSET DOMAIN th /\ D \in SUBSET Calls(th)
  BY DEF Dangling, Calls
<1>2. /\ calls \in Seq(Events) /\ Len(calls) = c /\ c \in Nat
      /\ \A i \in 1..c : Nth(D, i) \in D /\ calls[i] = th[Nth(D, i)]
      /\ \A i, k \in 1..c : Nth(D, i) = Nth(D, k) => i = k
  BY <1>1, EventsAtAre
<1>3. Repaired(th, from, n) = th \o new
  BY <1>2 DEF Repaired
<1>4. \A p \in D : th[p].seq \in Nat /\ th[p].seq < n
  BY <1>1, EventFields DEF Under
<1>5. \A p \in D, k \in Results(th) : th[k].use # th[p].seq
  <2> SUFFICES ASSUME NEW p \in D, NEW k \in Results(th), th[k].use = th[p].seq PROVE FALSE
    OBVIOUS
  <2>1. p < k
    BY <1>1 DEF Sound, ResultsFollow
  <2>2. k \in (from + 1)..Len(th) /\ th[k].kind = "result"
    <3>1. p \in (from + 1)..Len(th) /\ k \in DOMAIN th /\ th[k].kind = "result"
      BY DEF Dangling, Results
    <3> QED
      BY <2>1, <3>1
  <2> QED
    BY <2>2 DEF Dangling
<1> HIDE DEF D, c, calls
<1>6. \A i \in 1..c : /\ n + i - 1 \in Nat /\ n + i - 1 >= n /\ n + i - 1 < n + c
                      /\ calls[i].seq = th[Nth(D, i)].seq /\ Nth(D, i) \in D
  BY <1>2
<1>7. \A i \in 1..c : /\ new[i] = Event("result", n + i - 1, Main, calls[i].seq)
                      /\ Event("result", n + i - 1, Main, calls[i].seq) \in Events
                      /\ new[i].kind = "result" /\ new[i].seq = n + i - 1
                      /\ new[i].use = calls[i].seq
  BY <1>4, <1>6 DEF Event, Events, Main, Kinds
<1>8. new \in Seq(Events) /\ Len(new) = c /\ DOMAIN new = 1..c
  BY <1>2, <1>7
<1> HIDE DEF new
<1>9. MayFollow(new, th, n)
  <2>1. Calls(new) = {} /\ Results(new) = 1..c
    BY <1>7, <1>8 DEF Calls, Results
  <2>2. CallsDiffer(new)
    BY <2>1 DEF CallsDiffer
  <2>3. OneResult(new)
    <3> SUFFICES ASSUME NEW i \in 1..c, NEW k \in 1..c, new[i].use = new[k].use
                 PROVE  i = k
      BY <2>1 DEF OneResult
    <3>1. th[Nth(D, i)].seq = th[Nth(D, k)].seq
      BY <1>6, <1>7
    <3>2. Nth(D, i) = Nth(D, k)
      BY <1>1, <1>6, <3>1 DEF Sound, CallsDiffer
    <3> QED
      BY <1>2, <3>2
  <2>4. \A i \in 1..c : new[i].use < n /\ \A k \in Results(th) : th[k].use # new[i].use
    BY <1>4, <1>5, <1>6, <1>7
  <2> QED
    BY <1>6, <1>7, <1>8, <2>1, <2>2, <2>3, <2>4 DEF MayFollow
<1>10. Under(new, n + c)
  BY <1>6, <1>7, <1>8 DEF Under
<1>11. n + c \in Nat /\ n <= n + c /\ Len(th) \in Nat
  BY <1>2
<1>12. /\ Extends(th, th \o new) /\ Len(th \o new) = Len(th) + c
       /\ Sound(th \o new) /\ Under(th \o new, n + c)
  BY <1>8, <1>9, <1>10, <1>11, GrownIsSound
<1>13. n + (Len(th \o new) - Len(th)) = n + c
  BY <1>2, <1>11, <1>12
<1> QED
  BY <1>3, <1>11, <1>12, <1>13

\* Where the parts of a sequence are.
LEMMA Joined ==
    ASSUME NEW E, NEW a \in Seq(E), NEW e \in E, NEW b \in Seq(E),
           NEW s, s = a \o <<e>> \o b
    PROVE  /\ s \in Seq(E) /\ Len(s) = Len(a) + 1 + Len(b)
           /\ \A i \in 1..Len(a) : i \in DOMAIN s /\ s[i] = a[i]
           /\ Len(a) + 1 \in DOMAIN s /\ s[Len(a) + 1] = e
           /\ \A i \in 1..Len(b) : Len(a) + 1 + i \in DOMAIN s /\ s[Len(a) + 1 + i] = b[i]
<1> DEFINE front == a \o <<e>>
<1>1. /\ front \in Seq(E) /\ Len(front) = Len(a) + 1 /\ front[Len(a) + 1] = e
      /\ \A i \in 1..Len(a) : front[i] = a[i]
      /\ Len(a) \in Nat /\ Len(b) \in Nat
  OBVIOUS
<1>0. s = front \o b
  OBVIOUS
<1> HIDE DEF front
<1>2. s \in Seq(E) /\ Len(s) = Len(front) + Len(b) /\ DOMAIN s = 1..(Len(front) + Len(b))
  BY <1>0, <1>1
<1>3. \A i \in 1..Len(front) : s[i] = front[i]
  BY <1>0, <1>1
<1>4. \A i \in 1..Len(b) : s[Len(front) + i] = b[i]
  BY <1>0, <1>1
<1>5. \A i \in 1..Len(a) : i \in DOMAIN s /\ s[i] = a[i]
  BY <1>1, <1>2, <1>3
<1>6. Len(a) + 1 \in DOMAIN s /\ s[Len(a) + 1] = e
  BY <1>1, <1>2, <1>3
<1>7. \A i \in 1..Len(b) : Len(a) + 1 + i \in DOMAIN s /\ s[Len(a) + 1 + i] = b[i]
  BY <1>1, <1>2, <1>4
<1> QED
  BY <1>1, <1>2, <1>5, <1>6, <1>7

\* A compaction keeps what follows its boundary and, of what comes before, the facts.
\* A compaction keeps what follows its boundary and, of what comes before, the facts:
\* these and the summary fill the first d positions.
CompactedTo(th2, d) ==
    /\ th2 \in Seq(Events) /\ d \in Nat
    /\ \A i \in DOMAIN th2 :
           \/ th2[i].kind \in {"notice", "fact", "block"} /\ th2[i].seq < seq
           \/ /\ i > d /\ turn.cut + (i - d) \in DOMAIN thread
              /\ th2[i] = thread[turn.cut + (i - d)]
    /\ \A k \in DOMAIN thread : k > turn.cut =>
           d + (k - turn.cut) \in DOMAIN th2 /\ th2[d + (k - turn.cut)] = thread[k]
    /\ \A i \in FactPositions(thread) : \E k \in DOMAIN th2 : th2[k].seq = thread[i].seq

LEMMA CompactedIs ==
    ASSUME Whole(thread, seq), turn \in Turns,
           turn.cut \in 1..Len(thread), turn.block < seq
    PROVE  \E d : CompactedTo(Compacted, d)
<1> DEFINE cut  == turn.cut
           old  == SubSeq(thread, 1, cut)
           F    == FactPositions(old)
           f    == Cardinality(F)
           blk  == [Event("block", turn.block, Main, 0) EXCEPT
                       !.covers = <<old[1].seq, old[Len(old)].seq>>]
           tail == SubSeq(thread, cut + 1, Len(thread))
           th2  == Facts(old) \o <<blk>> \o tail
<1>1. /\ thread \in Seq(Events) /\ Len(thread) \in Nat /\ cut \in Nat /\ cut >= 1
      /\ cut <= Len(thread) /\ turn.block \in Nat /\ seq \in Nat
  BY ThreadAssumptions DEF Whole, Turns
<1>0. Sound(thread) /\ Under(thread, seq)
  BY DEF Whole
<1>2. /\ old \in Seq(Events) /\ Len(old) = cut
      /\ \A i \in 1..cut : old[i] = thread[i]
  BY <1>1
<1>3. /\ tail \in Seq(Events) /\ Len(tail) = Len(thread) - cut
      /\ \A i \in 1..(Len(thread) - cut) : tail[i] = thread[cut + i]
  BY <1>1
<1>4. Compacted = th2
  BY DEF Compacted
<1>5. blk \in Events /\ blk.kind = "block" /\ blk.seq = turn.block
  <2>1. 1 \in DOMAIN old /\ Len(old) \in DOMAIN old
    BY <1>1, <1>2
  <2>2. old[1].seq \in Nat /\ old[Len(old)].seq \in Nat
    BY <1>2, <2>1, EventFields
  <2> QED
    BY <1>1, <2>2 DEF Event, Events, Main, Kinds
<1> HIDE DEF blk, old, tail
<1>6. /\ Facts(old) \in Seq(Events) /\ Len(Facts(old)) = f /\ f \in Nat
      /\ \A i \in 1..f : Nth(F, i) \in F /\ Facts(old)[i] = old[Nth(F, i)]
      /\ \A p \in F : \E i \in 1..f : Nth(F, i) = p
  <2>1. F \in SUBSET DOMAIN old
    BY DEF FactPositions
  <2> HIDE DEF F
  <2> QED
    BY <1>2, <2>1, EventsAtAre DEF Facts, F
<1>7. \A p \in F : p \in 1..cut /\ old[p].kind \in {"notice", "fact"} /\ old[p] = thread[p]
  BY <1>1, <1>2 DEF FactPositions
<1> HIDE DEF F, f, cut
<1>8. /\ th2 \in Seq(Events) /\ Len(th2) = f + 1 + (Len(thread) - cut)
      /\ \A i \in 1..f : i \in DOMAIN th2 /\ th2[i] = Facts(old)[i]
      /\ f + 1 \in DOMAIN th2 /\ th2[f + 1] = blk
      /\ \A i \in 1..(Len(thread) - cut) :
             f + 1 + i \in DOMAIN th2 /\ th2[f + 1 + i] = tail[i]
  <2> DEFINE a == Facts(old)
  <2>1. a \in Seq(Events) /\ Len(a) = f /\ Len(tail) = Len(thread) - cut
    BY <1>3, <1>6
  <2> HIDE DEF a
  <2> DEFINE s == th2
  <2>2. s = a \o <<blk>> \o tail /\ blk \in Events /\ tail \in Seq(Events) /\ a \in Seq(Events)
    BY <1>3, <1>5, <2>1 DEF a
  <2> HIDE DEF s
  <2>3. /\ s \in Seq(Events) /\ Len(s) = Len(a) + 1 + Len(tail)
        /\ \A i \in 1..Len(a) : i \in DOMAIN s /\ s[i] = a[i]
        /\ Len(a) + 1 \in DOMAIN s /\ s[Len(a) + 1] = blk
        /\ \A i \in 1..Len(tail) : Len(a) + 1 + i \in DOMAIN s /\ s[Len(a) + 1 + i] = tail[i]
    BY <2>2, Joined
  <2>4. th2 = s
    BY DEF s
  <2> HIDE DEF th2
  <2>5. \A i : a[i] = Facts(old)[i]
    BY DEF a
  <2> QED
    BY <2>1, <2>3, <2>4, <2>5
<1> DEFINE Later(i) == /\ i > f + 1 /\ i - (f + 1) \in 1..(Len(thread) - cut)
                      /\ cut + (i - (f + 1)) \in DOMAIN thread
                      /\ th2[i] = thread[cut + (i - (f + 1))]
           Early(i) == /\ th2[i].kind \in {"notice", "fact", "block"}
                       /\ th2[i].seq < seq
<1>9. \A i \in DOMAIN th2 : i \in Nat /\ (Early(i) \/ Later(i))
  <2> SUFFICES ASSUME NEW i \in DOMAIN th2 PROVE i \in Nat /\ (Early(i) \/ Later(i))
    OBVIOUS
  <2>1. i \in Nat /\ (i \in 1..f \/ i = f + 1 \/ i - (f + 1) \in 1..(Len(thread) - cut))
    BY <1>1, <1>6, <1>8
  <2>2. CASE i \in 1..f
    <3> DEFINE p == Nth(F, i)
    <3>1. p \in F /\ th2[i] = old[p]
      BY <1>6, <1>8, <2>2
    <3> HIDE DEF p
    <3>2. p \in DOMAIN thread /\ th2[i] = thread[p] /\ thread[p].kind \in {"notice", "fact"}
      BY <1>1, <1>7, <3>1
    <3> QED
      BY <1>0, <2>1, <3>2 DEF Under
  <2>3. CASE i = f + 1
    BY <1>5, <1>8, <2>1, <2>3
  <2>4. CASE i - (f + 1) \in 1..(Len(thread) - cut)
    <3> DEFINE k == i - (f + 1)
    <3>1. i = f + 1 + k /\ k \in Nat /\ k > 0 /\ i > f + 1 /\ cut + k \in DOMAIN thread
      BY <1>1, <1>6, <2>1, <2>4
    <3>2. th2[f + 1 + k] = thread[cut + k]
      BY <1>3, <1>8, <2>4
    <3> QED
      BY <2>1, <2>4, <3>1, <3>2
  <2> QED
    BY <2>1, <2>2, <2>3, <2>4
<1> HIDE DEF th2
<1>10. \A i \in FactPositions(thread) : \E k \in DOMAIN th2 : th2[k].seq = thread[i].seq
  <2> SUFFICES ASSUME NEW i \in FactPositions(thread)
               PROVE  \E k \in DOMAIN th2 : th2[k].seq = thread[i].seq
    OBVIOUS
  <2>1. i \in 1..Len(thread) /\ thread[i].kind \in {"notice", "fact"}
    BY <1>1 DEF FactPositions
  <2>2. CASE i <= cut
    <3>1. i \in F
      BY <1>1, <1>2, <2>1, <2>2 DEF F, FactPositions
    <3>2. PICK k \in 1..f : Nth(F, k) = i
      BY <1>6, <3>1
    <3>3. k \in DOMAIN th2 /\ th2[k] = old[i] /\ old[i] = thread[i]
      BY <1>6, <1>7, <1>8, <3>1, <3>2
    <3> QED
      BY <3>3
  <2>3. CASE i > cut
    <3>1. i - cut \in 1..(Len(thread) - cut) /\ cut + (i - cut) = i
      BY <1>1, <2>1, <2>3
    <3> QED
      BY <1>3, <1>8, <3>1
  <2> QED
    BY <1>1, <2>1, <2>2, <2>3
<1>11. ASSUME NEW k \in DOMAIN thread, k > cut
       PROVE  f + 1 + (k - cut) \in DOMAIN th2 /\ th2[f + 1 + (k - cut)] = thread[k]
  <2>1. k - cut \in 1..(Len(thread) - cut) /\ cut + (k - cut) = k
    BY <1>1, <1>11
  <2> QED
    BY <1>3, <1>8, <2>1
<1>12. CompactedTo(th2, f + 1)
  BY <1>1, <1>6, <1>8, <1>9, <1>10, <1>11 DEF CompactedTo, cut
<1> QED
  BY <1>4, <1>12

LEMMA CompactedIsSound ==
    ASSUME Whole(thread, seq), turn \in Turns,
           turn.cut \in 1..Len(thread), turn.block < seq
    PROVE  /\ Compacted \in Seq(Events) /\ Sound(Compacted) /\ Under(Compacted, seq)
           /\ {thread[i].seq : i \in FactPositions(thread)} \subseteq Seqs(Compacted)
<1> DEFINE th2 == Compacted
           cut == turn.cut
<1>1. Sound(thread) /\ Under(thread, seq) /\ cut \in Nat
  BY DEF Whole
<1>2. PICK d : CompactedTo(th2, d)
  BY CompactedIs
<1> HIDE DEF th2
<1>3. th2 \in Seq(Events) /\ d \in Nat
  BY <1>2 DEF CompactedTo
<1> DEFINE at(i) == cut + (i - d)
           Early(i) == th2[i].kind \in {"notice", "fact", "block"} /\ th2[i].seq < seq
           Later(i) == i > d /\ at(i) \in DOMAIN thread /\ th2[i] = thread[at(i)]
<1>4. \A i \in DOMAIN th2 : i \in Nat /\ (Early(i) \/ Later(i))
  BY <1>2, <1>3 DEF CompactedTo
<1>5. Under(th2, seq)
  BY <1>1, <1>4 DEF Under
<1>6. \A i \in Results(th2) : i \in Nat /\ Later(i) /\ at(i) \in Results(thread)
  BY <1>4 DEF Results
<1>7. \A i \in Calls(th2) : i \in Nat /\ Later(i) /\ at(i) \in Calls(thread)
  BY <1>4 DEF Calls
<1>8. \A i, k \in Nat : /\ at(i) = at(k) => i = k
                        /\ at(i) < at(k) => i < k
  BY <1>1, <1>3
<1>9. Sound(th2)
  <2> HIDE DEF at
  <2>1. UsesAreOlder(th2)
    BY <1>1, <1>6 DEF Sound, UsesAreOlder
  <2>2. CallsDiffer(th2)
    BY <1>1, <1>7, <1>8 DEF Sound, CallsDiffer
  <2>3. ResultsFollow(th2)
    BY <1>1, <1>6, <1>7, <1>8 DEF Sound, ResultsFollow
  <2>4. OneResult(th2)
    BY <1>1, <1>6, <1>8 DEF Sound, OneResult
  <2> QED
    BY <2>1, <2>2, <2>3, <2>4 DEF Sound
<1>10. {thread[i].seq : i \in FactPositions(thread)} \subseteq Seqs(th2)
  BY <1>2 DEF CompactedTo, Seqs
<1> QED
  BY <1>3, <1>5, <1>9, <1>10 DEF th2


-----------------------------------------------------------------------------
(* What each action does to the invariant.                                 *)

\* An event of another kind takes the next number.
LEMMA NotedIsWhole ==
    ASSUME NEW th, NEW n, Whole(th, n), n <= MaxSeq,
           NEW kind \in Kinds \ {"call", "result"}, NEW b \in Nat
    PROVE  LET th2 == Append(th, Event(kind, n, b, 0))
           IN  Extends(th, th2) /\ Whole(th2, n + 1) /\ Results(th2) = Results(th)
<1>1. th \in Seq(Events) /\ n \in Nat /\ n + 1 \in 1..(MaxSeq + 1) /\ Sound(th) /\ Under(th, n)
  BY ThreadAssumptions DEF Whole
<1> QED
  BY <1>1, NotedIsSound DEF Whole, Extends

\* What extends an extension extends the thread.
LEMMA ExtendsTwice ==
    ASSUME NEW a \in Seq(Events), NEW b, NEW c, Extends(a, b), Extends(b, c)
    PROVE  Extends(a, c)
<1>1. b \in Seq(Events) /\ c \in Seq(Events)
  BY DEF Extends
<1>2. /\ Len(a) \in Nat /\ Len(b) \in Nat /\ Len(c) \in Nat
      /\ Len(a) <= Len(b) /\ Len(b) <= Len(c) /\ DOMAIN a = 1..Len(a) /\ DOMAIN b = 1..Len(b)
  BY <1>1 DEF Extends
<1>3. \A i \in DOMAIN a : i \in DOMAIN b
  BY <1>2
<1> QED
  BY <1>1, <1>2, <1>3 DEF Extends

\* The types of the fields of a turn.
LEMMA TurnFields ==
    ASSUME TurnTyped
    PROVE  /\ turn.pc \in Pcs /\ turn.branch \in Nat /\ turn.forked \in BOOLEAN
           /\ turn.start \in Nat /\ turn.cursor \in Nat /\ turn.aborted \in BOOLEAN
           /\ turn.blocks \in Nat /\ turn.batch \in Batches /\ turn.at \in Nat
           /\ turn.cut \in Nat /\ turn.block \in Nat
BY DEF TurnTyped, Turns

LEMMA NoTurnTyped == NoTurn \in Turns /\ NoTurn.pc = "none" /\ NoTurn.aborted = FALSE
<1>1. <<>> \in Batches
  BY DEF Batches
<1> QED
  BY <1>1 DEF NoTurn, Turns, Pcs, Main

\* The calls of a batch.
LEMMA CallFields ==
    ASSUME NEW batch \in Batches, NEW k \in DOMAIN batch
    PROVE  k \in Nat /\ batch[k].use \in Nat /\ batch[k].safe \in BOOLEAN
<1>1. batch[k] \in Asked /\ k \in Nat
  BY DEF Batches
<1> QED
  BY <1>1 DEF Asked

\* Steps that leave the turn where it is.
LEMMA SameTurn ==
    ASSUME ThreadInv, Results(thread') = Results(thread), Extends(thread, thread'),
           seq' \in Nat, seq <= seq', running' = running,
           turn'.pc = turn.pc, turn'.batch = turn.batch, turn'.aborted = turn.aborted,
           turn'.cut = turn.cut, turn'.block = turn.block
    PROVE  BatchInv' /\ CompactInv'
<1>1. /\ seq \in Nat /\ thread \in Seq(Events) /\ Len(thread) \in Nat /\ Len(thread') \in Nat
      /\ Len(thread) <= Len(thread') /\ turn.block \in Nat /\ turn.batch \in Batches
  BY TurnFields, ThreadAssumptions DEF ThreadInv, Whole, Extends
<1>2. \A k \in DOMAIN turn.batch : turn.batch[k].use \in Nat
  BY <1>1, CallFields
<1>3. \A i \in Results(thread) : thread'[i] = thread[i]
  BY DEF Extends, Results
<1>4. BatchInv'
  <2>1. (running' # {}) = (turn'.pc = "tools")
    BY DEF ThreadInv, BatchInv
  <2>2. ASSUME turn'.pc = "tools", NEW k \in DOMAIN turn.batch
        PROVE  /\ turn.batch[k].use < seq'
               /\ \A i \in Results(thread') : thread'[i].use # turn.batch[k].use
    BY <1>1, <1>2, <1>3, <2>2 DEF ThreadInv, BatchInv
  <2> QED
    BY <2>1, <2>2 DEF ThreadInv, BatchInv, Chunk
<1>5. CompactInv'
  BY <1>1 DEF ThreadInv, CompactInv
<1> QED
  BY <1>4, <1>5

\* Steps after which no tool runs and nothing is compacted.
LEMMA NoBatch ==
    ASSUME running' = {}, turn'.pc \in {"none", "model"}, turn'.aborted = FALSE
    PROVE  BatchInv' /\ CompactInv'
BY DEF BatchInv, CompactInv

\* Outside a batch no tool runs.
LEMMA NoneRuns == ASSUME ThreadInv, turn.pc # "tools" PROVE running = {}
BY DEF ThreadInv, BatchInv

LEMMA FinishKeeps ==
    ASSUME ThreadInv, NEW th, NEW n, Finish(th, n), Whole(th, n), running' = {},
           UNCHANGED <<branches, here, zombies, disk, restarts>>
    PROVE  ThreadInv'
<1>1. Whole(thread', seq')
  BY DEF Finish
<1>2. MetaTyped' /\ DiskOK'
  BY DEF ThreadInv, MetaTyped, DiskOK, Finish
<1>3. TurnTyped'
  BY NoTurnTyped DEF ThreadInv, TurnTyped, Finish
<1>4. BatchInv' /\ CompactInv'
  BY NoTurnTyped, NoBatch DEF Finish
<1> QED
  BY <1>1, <1>2, <1>3, <1>4 DEF ThreadInv

LEMMA BlockKeeps ==
    ASSUME ThreadInv, NEW th, NEW n, NEW pushed, Block(th, n, pushed), Whole(th, n),
           n <= MaxSeq, running' = {}, UNCHANGED <<branches, here, zombies, disk, restarts>>
    PROVE  ThreadInv' /\ Extends(th, thread')
<1>1. here \in Nat
  BY DEF ThreadInv, MetaTyped, BranchesOK
<1>2. Whole(thread', seq') /\ Extends(th, thread')
  <2>1. "notice" \in Kinds \ {"call", "result"}
    BY DEF Kinds
  <2>2. thread' = Append(th, Event("notice", n, here, 0)) /\ seq' = n + 1
    BY DEF Block
  <2> QED
    BY <1>1, <2>1, <2>2, NotedIsWhole
<1>3. MetaTyped' /\ DiskOK'
  BY DEF ThreadInv, MetaTyped, DiskOK, Block
<1>4. TurnTyped'
  BY NoTurnTyped DEF ThreadInv, TurnTyped, Block
<1>5. BatchInv' /\ CompactInv'
  BY NoTurnTyped, NoBatch DEF Block
<1> QED
  BY <1>2, <1>3, <1>4, <1>5 DEF ThreadInv


\* A turn goes on, ends, or is compacted first.
LEMMA ProceedKeeps ==
    ASSUME ThreadInv, turn.pc \in {"model", "tools"}, NEW th, NEW n, NEW after,
           Proceed(th, n, after), Whole(th, n), Extends(thread, th), running' = {},
           UNCHANGED <<branches, here, zombies, disk, restarts>>
    PROVE  ThreadInv' /\ Extends(thread, thread')
<1>1. TurnTyped /\ turn.aborted = FALSE
  <2>1. TurnTyped
    BY DEF ThreadInv
  <2>2. ~turn.aborted
    BY DEF ThreadInv, CompactInv
  <2> QED
    BY <2>1, <2>2, TurnFields
<1>2. <<>> \in Batches
  BY DEF Batches
<1>3. MetaTyped /\ DiskOK
  BY DEF ThreadInv
<1>4. CASE Finish(th, n)
  BY <1>4, FinishKeeps DEF Finish
<1>5. CASE /\ thread' = th /\ seq' = n
           /\ turn' = [turn EXCEPT !.pc = "model", !.batch = <<>>, !.at = 0]
           /\ UNCHANGED <<told, status>>
  <2>1. Whole(thread', seq') /\ Extends(thread, thread')
    BY <1>5
  <2>2. MetaTyped' /\ DiskOK'
    BY <1>3, <1>5 DEF MetaTyped, DiskOK
  <2>3. TurnTyped'
    BY <1>1, <1>2, <1>5 DEF TurnTyped, Turns, Pcs
  <2>4. turn'.pc = "model" /\ turn'.aborted = FALSE
    BY <1>1, <1>5 DEF TurnTyped, Turns
  <2> QED
    BY <2>1, <2>2, <2>3, <2>4, NoBatch DEF ThreadInv
<1>6. CASE n <= MaxSeq /\ Block(th, n, {})
  <2>1. ThreadInv' /\ Extends(th, thread')
    BY <1>6, BlockKeeps
  <2> QED
    BY <2>1, ExtendsTwice DEF ThreadInv, Whole
<1>7. ASSUME NEW c \in DOMAIN th, IsBoundary(th, c), n <= MaxSeq,
             turn' = [turn EXCEPT !.pc = IF after = "mid" THEN "compactMid" ELSE "compactEnd",
                                  !.cut = c, !.block = n, !.batch = <<>>, !.at = 0],
             thread' = th, seq' = n + 1, UNCHANGED <<told, status>>
      PROVE  ThreadInv' /\ Extends(thread, thread')
  <2>1. th \in Seq(Events) /\ n \in Nat /\ n >= 1 /\ c \in 1..Len(th) /\ c \in Nat
    BY <1>7, ThreadAssumptions DEF Whole
  <2>2. Whole(thread', seq') /\ Extends(thread, thread')
    <3>1. \A i \in DOMAIN th : th[i].seq < n + 1
      BY <2>1, EventFields DEF Whole, Under
    <3> QED
      BY <1>7, <2>1, <3>1, ThreadAssumptions DEF Whole, Under
  <2>3. MetaTyped' /\ DiskOK'
    BY <1>3, <1>7 DEF MetaTyped, DiskOK
  <2>4. TurnTyped'
    BY <1>1, <1>2, <1>7, <2>1 DEF TurnTyped, Turns, Pcs
  <2>5. /\ turn'.pc \in {"compactMid", "compactEnd"} /\ turn'.aborted = FALSE
        /\ turn'.cut = c /\ turn'.block = n
    BY <1>1, <1>7 DEF TurnTyped, Turns
  <2>6. BatchInv' /\ CompactInv'
    BY <1>7, <2>1, <2>5 DEF BatchInv, CompactInv
  <2> QED
    BY <2>2, <2>3, <2>4, <2>6 DEF ThreadInv
<1> QED
  BY <1>4, <1>5, <1>6, <1>7 DEF Proceed


-----------------------------------------------------------------------------
(* The actions.                                                            *)

\* The parts of the invariant that do not look at the thread.
LEMMA OthersKeep ==
    ASSUME ThreadInv, UNCHANGED <<disk, restarts>>
    PROVE  /\ DiskOK'
           /\ UNCHANGED <<branches, here>> /\ status' \in {"idle", "running", "blocked"} => MetaTyped'
           /\ turn' \in Turns /\ running' \in SUBSET Nat
              /\ zombies' \in SUBSET [use : Nat, branch : Nat] => TurnTyped'
BY DEF ThreadInv, DiskOK, MetaTyped, TurnTyped

LEMMA StoreFacts ==
    ASSUME ThreadInv
    PROVE  /\ Whole(thread, seq) /\ thread \in Seq(Events) /\ Len(thread) \in Nat
           /\ seq \in Nat /\ seq >= 1 /\ Sound(thread) /\ Under(thread, seq)
           /\ Extends(thread, thread)
           /\ TurnTyped /\ MetaTyped /\ DiskOK
           /\ turn \in Turns /\ running \in SUBSET Nat
           /\ zombies \in SUBSET [use : Nat, branch : Nat]
           /\ here \in Nat /\ status \in {"idle", "running", "blocked"}
<1>1. /\ Whole(thread, seq) /\ thread \in Seq(Events) /\ seq \in 1..(MaxSeq + 1)
      /\ Sound(thread) /\ Under(thread, seq)
  BY DEF ThreadInv, Whole
<1>2. TurnTyped /\ MetaTyped /\ DiskOK
  BY DEF ThreadInv
<1>3. here \in Nat
  BY <1>2 DEF MetaTyped, BranchesOK
<1> QED
  BY <1>1, <1>2, <1>3, ThreadAssumptions DEF MetaTyped, TurnTyped, Extends

\* A user message, whichever branch it enters.
LEMMA SayKeeps ==
    ASSUME ThreadInv, NEW b \in Nat, Say(b), BranchesOK(branches', b)
    PROVE  ThreadInv' /\ Extends(thread, thread')
<1>1. /\ thread' = Append(thread, Event("user", seq, b, 0)) /\ seq' = seq + 1
      /\ seq <= MaxSeq /\ here' = b /\ status' = "running"
      /\ UNCHANGED <<turn, running, zombies, disk, restarts>>
  BY StoreFacts, ThreadAssumptions DEF Say, Room
<1>2. "user" \in Kinds \ {"call", "result"}
  BY DEF Kinds
<1>3. Extends(thread, thread') /\ Whole(thread', seq') /\ Results(thread') = Results(thread)
  BY <1>1, <1>2, StoreFacts, NotedIsWhole
<1>4. seq' \in Nat /\ seq <= seq'
  BY <1>1, StoreFacts
<1>5. BatchInv' /\ CompactInv'
  BY <1>1, <1>3, <1>4, SameTurn
<1>6. MetaTyped' /\ DiskOK' /\ TurnTyped'
  BY <1>1, StoreFacts, OthersKeep DEF MetaTyped, TurnTyped
<1> QED
  BY <1>3, <1>5, <1>6 DEF ThreadInv

LEMMA AppendUserMessageKeeps ==
    ASSUME ThreadInv, NEW b \in 1..MaxBranches, AppendUserMessage(b)
    PROVE  ThreadInv' /\ Extends(thread, thread')
<1>1. b \in DOMAIN branches /\ branches' = branches /\ Say(b) /\ b \in Nat
  BY DEF AppendUserMessage
<1>2. BranchesOK(branches', b)
  BY <1>1 DEF ThreadInv, MetaTyped, BranchesOK
<1> QED
  BY <1>1, <1>2, SayKeeps

LEMMA CreateMessageVariantKeeps ==
    ASSUME ThreadInv, NEW i \in DOMAIN thread, CreateMessageVariant(i)
    PROVE  ThreadInv' /\ Extends(thread, thread')
<1>1. /\ branches' = Append(branches, [parent |-> thread[i].branch, fork |-> thread[i].seq])
      /\ Len(branches) < MaxBranches /\ Say(Len(branches) + 1)
  BY DEF CreateMessageVariant
<1>2. thread[i].branch \in Nat /\ thread[i].seq \in Nat
  BY StoreFacts, EventFields
<1>3. /\ branches \in Seq([parent : Nat, fork : Nat]) /\ Len(branches) \in Nat
      /\ Len(branches) \in 1..MaxBranches
  BY DEF ThreadInv, MetaTyped, BranchesOK
<1>4. BranchesOK(branches', Len(branches) + 1)
  <2> DEFINE new == [parent |-> thread[i].branch, fork |-> thread[i].seq]
  <2>1. new \in [parent : Nat, fork : Nat]
    BY <1>2
  <2> HIDE DEF new
  <2>2. /\ Append(branches, new) \in Seq([parent : Nat, fork : Nat])
        /\ Len(Append(branches, new)) = Len(branches) + 1
    BY <1>3, <2>1
  <2>3. branches' = Append(branches, new)
    BY <1>1 DEF new
  <2> QED
    BY <1>1, <1>3, <2>2, <2>3, ThreadAssumptions DEF BranchesOK
<1> QED
  BY <1>1, <1>3, <1>4, SayKeeps

\* Steps that write nothing into the thread.
LEMMA QuietKeeps ==
    ASSUME ThreadInv,
           RetryBlockedSession \/ StartTurn \/ Flush \/ \E z \in zombies : ZombieEnds(z)
    PROVE  ThreadInv' /\ Extends(thread, thread')
<1>1. UNCHANGED <<thread, seq>> /\ UNCHANGED <<branches, here>>
  BY DEF RetryBlockedSession, StartTurn, Flush, ZombieEnds, storeVars, metaVars
<1>2. Whole(thread', seq') /\ Extends(thread, thread')
  BY <1>1, StoreFacts
<1>3. CASE RetryBlockedSession \/ \E z \in zombies : ZombieEnds(z)
  <2>1. /\ UNCHANGED <<turn, running, disk, restarts>> /\ zombies' \in SUBSET zombies
        /\ status' \in {"running", status}
    BY <1>3 DEF RetryBlockedSession, ZombieEnds, storeVars, metaVars
  <2>2. MetaTyped' /\ DiskOK' /\ TurnTyped'
    BY <1>1, <2>1, StoreFacts, OthersKeep
  <2>3. BatchInv' /\ CompactInv'
    BY <1>1, <2>1, StoreFacts, SameTurn
  <2> QED
    BY <1>2, <2>2, <2>3 DEF ThreadInv
<1>4. CASE StartTurn
  <2>1. /\ turn' = [NoTurn EXCEPT !.pc = "model", !.branch = here,
                              !.forked = Len(branches) > 1 \/ here # Main,
                              !.start = Len(thread), !.cursor = Len(thread)]
        /\ status' = status /\ UNCHANGED <<running, zombies, disk, restarts>>
        /\ turn.pc = "none"
    BY <1>4 DEF StartTurn, metaVars, storeVars, Live
  <2>2. turn' \in Turns /\ turn'.pc = "model" /\ turn'.aborted = FALSE
    <3>1. (Len(branches) > 1 \/ here # Main) \in BOOLEAN
      OBVIOUS
    <3> QED
      BY <2>1, <3>1, NoTurnTyped, StoreFacts DEF Turns, Pcs
  <2>3. running' = {}
    BY <2>1, NoneRuns
  <2>4. MetaTyped' /\ DiskOK' /\ TurnTyped'
    BY <1>1, <2>1, <2>2, StoreFacts, OthersKeep
  <2>5. BatchInv' /\ CompactInv'
    BY <2>2, <2>3, NoBatch
  <2> QED
    BY <1>2, <2>4, <2>5 DEF ThreadInv
<1>5. CASE Flush
  <2>1. /\ disk' = [thread |-> thread, branches |-> branches, here |-> here, status |-> status]
        /\ UNCHANGED <<status, turn, running, zombies, restarts>>
    BY <1>5 DEF Flush, metaVars, storeVars
  <2>2. DiskOK'
    <3>1. seq \in 1..(MaxSeq + 1) /\ Whole(thread, seq)
      BY StoreFacts DEF Whole
    <3>2. \E n \in 1..(MaxSeq + 1) : Whole(thread, n)
      BY <3>1
    <3>3. restarts \in 0..MaxRestarts /\ BranchesOK(branches, here)
      BY StoreFacts DEF DiskOK, MetaTyped
    <3> QED
      BY <2>1, <3>2, <3>3, StoreFacts DEF DiskOK
  <2>3. MetaTyped' /\ TurnTyped'
    BY <1>1, <2>1, StoreFacts DEF MetaTyped, TurnTyped
  <2>4. BatchInv' /\ CompactInv'
    BY <1>1, <2>1, StoreFacts, SameTurn
  <2> QED
    BY <1>2, <2>2, <2>3, <2>4 DEF ThreadInv
<1> QED
  BY <1>3, <1>4, <1>5


\* A notice or a fact is appended, by the turn or by a tool of an aborted one.
LEMMA NotesKeep ==
    ASSUME ThreadInv, ProviderStatus \/ ToolRecords \/ \E z \in zombies : ZombieRecords(z)
    PROVE  ThreadInv' /\ Extends(thread, thread')
<1>1. PICK kind \in {"notice", "fact"}, b \in Nat :
          /\ thread' = Append(thread, Event(kind, seq, b, 0)) /\ seq' = seq + 1
          /\ \/ turn' = turn
             \/ turn' = [turn EXCEPT !.cursor = Len(thread')]
          /\ seq <= MaxSeq
          /\ UNCHANGED <<branches, here, status, running, zombies, disk, restarts>>
  <2>1. turn.branch \in Nat /\ \A z \in zombies : z.branch \in Nat
    BY StoreFacts, TurnFields
  <2>2. Room(1) => seq <= MaxSeq
    BY StoreFacts, ThreadAssumptions DEF Room
  <2> QED
    BY <2>1, <2>2 DEF ProviderStatus, ToolRecords, ZombieRecords, AppendPushed, metaVars
<1>2. kind \in Kinds \ {"call", "result"}
  BY DEF Kinds
<1>3. Extends(thread, thread') /\ Whole(thread', seq') /\ Results(thread') = Results(thread)
  BY <1>1, <1>2, StoreFacts, NotedIsWhole
<1>4. /\ turn' \in Turns /\ turn'.pc = turn.pc /\ turn'.batch = turn.batch
      /\ turn'.aborted = turn.aborted /\ turn'.cut = turn.cut /\ turn'.block = turn.block
  <2>1. Len(thread') \in Nat
    BY <1>3 DEF Extends
  <2> QED
    BY <1>1, <2>1, StoreFacts DEF Turns
<1>5. MetaTyped' /\ DiskOK' /\ TurnTyped'
  BY <1>1, <1>4, StoreFacts, OthersKeep
<1>6. BatchInv' /\ CompactInv'
  BY <1>1, <1>3, <1>4, StoreFacts, SameTurn
<1> QED
  BY <1>3, <1>5, <1>6 DEF ThreadInv

LEMMA ReadinessBlocksKeeps ==
    ASSUME ThreadInv, ReadinessBlocks
    PROVE  ThreadInv' /\ Extends(thread, thread')
<1> DEFINE notice == Event("notice", seq, turn.branch, 0)
           fact == Event("fact", seq + 1, turn.branch, 0)
           th == Append(Append(thread, notice), fact)
<1>1. thread \o <<notice, fact>> = th
  <2> HIDE DEF notice, fact
  <2> QED
    BY StoreFacts
<1>2. /\ turn.pc = "model" /\ seq + 2 <= MaxSeq
      /\ UNCHANGED <<branches, here, running, zombies, disk, restarts>>
      /\ \/ Block(th, seq + 2, NewSince(th, turn.cursor, FALSE))
         \/ /\ thread' = th /\ seq' = seq + 2
            /\ turn' = [turn EXCEPT !.blocks = @ + 1, !.cursor = Len(th)]
            /\ UNCHANGED status
  <2>1. Room(3) => seq + 2 <= MaxSeq
    BY StoreFacts, ThreadAssumptions DEF Room
  <2> HIDE DEF th
  <2> QED
    BY <1>1, <2>1 DEF ReadinessBlocks
<1>3. {"notice", "fact"} \subseteq Kinds \ {"call", "result"} /\ turn.branch \in Nat
  BY StoreFacts, TurnFields DEF Kinds
<1>4. /\ Extends(thread, Append(thread, notice)) /\ Whole(Append(thread, notice), seq + 1)
      /\ Results(Append(thread, notice)) = Results(thread)
  BY <1>2, <1>3, StoreFacts, NotedIsWhole, ThreadAssumptions
<1>5. /\ Extends(Append(thread, notice), th) /\ Whole(th, seq + 1 + 1)
      /\ Results(th) = Results(Append(thread, notice))
  BY <1>2, <1>3, <1>4, StoreFacts, NotedIsWhole, ThreadAssumptions
<1> HIDE DEF th
<1>6. seq + 1 + 1 = seq + 2 /\ Extends(thread, th) /\ Len(th) \in Nat
  BY <1>4, <1>5, StoreFacts, ExtendsTwice DEF Extends
<1>7. CASE Block(th, seq + 2, NewSince(th, turn.cursor, FALSE))
  <2>1. running' = {}
    BY <1>2, NoneRuns
  <2>2. ThreadInv' /\ Extends(th, thread')
    BY <1>2, <1>5, <1>6, <1>7, <2>1, BlockKeeps
  <2> QED
    BY <1>6, <2>2, StoreFacts, ExtendsTwice
<1>8. CASE /\ thread' = th /\ seq' = seq + 2
           /\ turn' = [turn EXCEPT !.blocks = @ + 1, !.cursor = Len(th)]
           /\ UNCHANGED status
  <2>1. Extends(thread, thread') /\ Whole(thread', seq') /\ Results(thread') = Results(thread)
    BY <1>4, <1>5, <1>6, <1>8
  <2>2. /\ turn' \in Turns /\ turn'.pc = turn.pc /\ turn'.batch = turn.batch
        /\ turn'.aborted = turn.aborted /\ turn'.cut = turn.cut /\ turn'.block = turn.block
    <3>1. turn' = [turn EXCEPT !.blocks = turn.blocks + 1, !.cursor = Len(th)]
      BY <1>8
    <3>2. turn.blocks + 1 \in Nat
      BY StoreFacts, TurnFields
    <3> QED
      BY <1>6, <3>1, <3>2, StoreFacts DEF Turns
  <2>3. MetaTyped' /\ DiskOK' /\ TurnTyped'
    BY <1>2, <1>8, <2>2, StoreFacts, OthersKeep
  <2>4. BatchInv' /\ CompactInv'
    BY <1>2, <1>8, <2>1, <2>2, StoreFacts, SameTurn
  <2> QED
    BY <2>1, <2>3, <2>4 DEF ThreadInv
<1> QED
  BY <1>2, <1>7, <1>8

\* The model answers, or fails.
LEMMA AnswersKeep ==
    ASSUME ThreadInv, ModelStops \/ ModelFails
    PROVE  ThreadInv' /\ Extends(thread, thread')
<1>1. /\ turn.pc = "model" /\ seq <= MaxSeq
      /\ UNCHANGED <<branches, here, running, zombies, disk, restarts>>
  <2>1. Room(1) => seq <= MaxSeq
    BY StoreFacts, ThreadAssumptions DEF Room
  <2> QED
    BY <2>1 DEF ModelStops, ModelFails
<1>2. running' = {}
  BY <1>1, NoneRuns
<1>3. CASE ModelStops
  <2> DEFINE th == Append(thread, Event("assistant", seq, turn.branch, 0))
  <2>1. "assistant" \in Kinds \ {"call", "result"} /\ turn.branch \in Nat
    BY StoreFacts, TurnFields DEF Kinds
  <2>2. Extends(thread, th) /\ Whole(th, seq + 1)
    BY <1>1, <2>1, StoreFacts, NotedIsWhole
  <2>3. Proceed(th, seq + 1, "end")
    BY <1>3 DEF ModelStops
  <2> HIDE DEF th
  <2> QED
    BY <1>1, <1>2, <2>2, <2>3, ProceedKeeps
<1>4. CASE ModelFails
  <2>1. Block(thread, seq, {})
    BY <1>4 DEF ModelFails
  <2> QED
    BY <1>1, <1>2, <2>1, StoreFacts, BlockKeeps
<1> QED
  BY <1>3, <1>4

\* Some calls start after call number `at`.
LEMMA ChunkIs ==
    ASSUME NEW batch \in Batches, NEW at \in Nat, at < Len(batch)
    PROVE  /\ Chunk(batch, at) \subseteq DOMAIN batch /\ at + 1 \in Chunk(batch, at)
           /\ Cardinality(Chunk(batch, at)) \in Nat /\ at \in 0..Len(batch)
<1>1. Len(batch) \in Nat /\ DOMAIN batch = 1..Len(batch)
  BY DEF Batches
<1>2. Chunk(batch, at) \in SUBSET (1..Len(batch)) /\ at + 1 \in Chunk(batch, at)
  BY <1>1 DEF Chunk
<1>3. Cardinality(Chunk(batch, at)) \in Nat
  <2>1. Cardinality(Chunk(batch, at)) \in 0..Len(batch)
    BY <1>1, <1>2, UpToFinite
  <2> QED
    BY <1>1, <2>1
<1> QED
  BY <1>1, <1>2, <1>3

LEMMA ToolEndsKeeps ==
    ASSUME ThreadInv, NEW c \in running, ToolEnds(c)
    PROVE  ThreadInv' /\ Extends(thread, thread')
<1>1. /\ UNCHANGED <<thread, seq, branches, here, status, zombies, disk, restarts>>
      /\ turn.pc = "tools" /\ turn.batch \in Batches /\ turn.at \in Nat
  BY StoreFacts, TurnFields DEF ToolEnds, storeVars, metaVars, ThreadInv, BatchInv
<1>2. Whole(thread', seq') /\ Extends(thread, thread')
  BY <1>1, StoreFacts
<1>3. CASE running # {c} /\ running' = running \ {c} /\ turn' = turn
  <2>1. running' # {} /\ running' \subseteq running
    BY <1>3
  <2>2. MetaTyped' /\ DiskOK' /\ TurnTyped'
    BY <1>1, <1>3, <2>1, StoreFacts, OthersKeep
  <2>3. CompactInv'
    BY <1>1, <1>3 DEF ThreadInv, CompactInv
  <2>4. PICK after \in 0..Len(turn.batch) :
             running \subseteq {turn.batch[k].use : k \in Chunk(turn.batch, after)}
    BY <1>1 DEF ThreadInv, BatchInv
  <2>5. running' \subseteq {turn'.batch[k].use : k \in Chunk(turn'.batch, after)}
    BY <1>3, <2>1, <2>4
  <2>6. BatchInv'
    BY <1>1, <1>3, <2>1, <2>5 DEF ThreadInv, BatchInv
  <2> QED
    BY <1>2, <2>2, <2>3, <2>6 DEF ThreadInv
<1>4. CASE turn.at < Len(turn.batch) /\ StartChunk(turn, turn.at)
  <2> DEFINE ks == Chunk(turn.batch, turn.at)
  <2>1. /\ ks \subseteq DOMAIN turn.batch /\ turn.at + 1 \in ks
        /\ Cardinality(ks) \in Nat /\ turn.at \in 0..Len(turn.batch)
    BY <1>1, <1>4, ChunkIs
  <2>2. /\ turn' = [turn EXCEPT !.at = turn.at + Cardinality(ks)]
        /\ running' = {turn.batch[k].use : k \in ks}
    BY <1>4 DEF StartChunk
  <2> HIDE DEF ks
  <2>3. \A k \in ks : turn.batch[k].use \in Nat
    BY <1>1, <2>1, CallFields
  <2>4. running' \in SUBSET Nat /\ running' # {}
    BY <2>1, <2>2, <2>3
  <2>5. /\ turn' \in Turns /\ turn'.pc = turn.pc /\ turn'.batch = turn.batch
        /\ turn'.aborted = turn.aborted /\ turn'.cut = turn.cut /\ turn'.block = turn.block
    <3>1. turn.at + Cardinality(ks) \in Nat
      BY <1>1, <2>1
    <3> QED
      BY <2>2, <3>1, StoreFacts DEF Turns
  <2>6. MetaTyped' /\ DiskOK' /\ TurnTyped'
    BY <1>1, <2>4, <2>5, StoreFacts, OthersKeep
  <2>7. CompactInv'
    BY <1>1, <2>5 DEF ThreadInv, CompactInv
  <2>8. running' \subseteq {turn'.batch[k].use : k \in Chunk(turn'.batch, turn.at)}
    BY <2>2, <2>5 DEF ks
  <2>9. BatchInv'
    BY <1>1, <2>1, <2>4, <2>5, <2>8 DEF ThreadInv, BatchInv
  <2> QED
    BY <1>2, <2>6, <2>7, <2>9 DEF ThreadInv
<1> QED
  BY <1>3, <1>4 DEF ToolEnds


\* The model asks for tools.
LEMMA ModelCallsKeeps ==
    ASSUME ThreadInv, NEW n \in 1..BatchSize, NEW safe \in [1..n -> BOOLEAN], ModelCalls(safe)
    PROVE  ThreadInv' /\ Extends(thread, thread')
<1> DEFINE new == [k \in 1..n |-> Event("call", seq + k - 1, turn.branch, 0)]
           batch == [k \in 1..n |-> [use |-> seq + k - 1, safe |-> safe[k]]]
           ks == Chunk(batch, 0)
<1>1. n \in Nat /\ n > 0 /\ Len(safe) = n /\ turn.branch \in Nat
  <2>1. n \in Nat /\ n > 0 /\ DOMAIN safe = 1..n /\ safe \in Seq(BOOLEAN)
    BY ThreadAssumptions
  <2> QED
    BY <2>1, StoreFacts, TurnFields
<1>2. /\ turn.pc = "model" /\ seq + n \in 1..(MaxSeq + 1)
      /\ thread' = thread \o new /\ seq' = seq + n
      /\ turn' = [turn EXCEPT !.pc = "tools", !.blocks = 0, !.batch = batch,
                              !.at = 0 + Cardinality(ks)]
      /\ running' = {batch[k].use : k \in ks}
      /\ UNCHANGED <<branches, here, status, zombies, disk, restarts>>
  <2>1. Room(n) => seq + n \in 1..(MaxSeq + 1)
    BY <1>1, StoreFacts, ThreadAssumptions DEF Room
  <2>2. [turn EXCEPT !.pc = "tools", !.blocks = 0, !.batch = batch].batch = batch
    BY StoreFacts DEF Turns
  <2> HIDE DEF batch
  <2>3. /\ turn.pc = "model" /\ Room(n) /\ thread' = thread \o new /\ seq' = seq + n
        /\ StartChunk([turn EXCEPT !.pc = "tools", !.blocks = 0, !.batch = batch], 0)
        /\ UNCHANGED <<branches, here, status, zombies, disk, restarts>>
    BY <1>1 DEF ModelCalls, metaVars, batch
  <2> QED
    BY <2>1, <2>2, <2>3 DEF StartChunk
<1>3. \A k \in 1..n : /\ seq + k - 1 \in Nat /\ seq + k - 1 >= seq /\ seq + k - 1 < seq + n
                      /\ k \in Nat /\ safe[k] \in BOOLEAN
  BY <1>1, StoreFacts
<1>4. \A k \in 1..n : /\ new[k] \in Events /\ new[k].kind = "call" /\ new[k].seq = seq + k - 1
                      /\ batch[k] \in Asked /\ batch[k].use = seq + k - 1
  BY <1>1, <1>3 DEF Event, Events, Kinds, Asked
<1>5. /\ new \in Seq(Events) /\ Len(new) = n /\ DOMAIN new = 1..n
      /\ batch \in Batches /\ Len(batch) = n /\ DOMAIN batch = 1..n
  <2>1. \A k \in 1..n : Event("call", seq + k - 1, turn.branch, 0) \in Events
    BY <1>1, <1>3 DEF Event, Events, Kinds
  <2>2. \A k \in 1..n : [use |-> seq + k - 1, safe |-> safe[k]] \in Asked
    BY <1>3 DEF Asked
  <2> QED
    BY <1>1, <2>1, <2>2 DEF Batches
<1>15. \A j, k \in 1..n : seq + j - 1 = seq + k - 1 => j = k
  BY <1>1, StoreFacts
<1>16. \A j, k \in 1..n : /\ new[j].seq = new[k].seq => j = k
                          /\ batch[j].use = batch[k].use => j = k
  <2>1. \A k \in 1..n : new[k].seq = seq + k - 1 /\ batch[k].use = seq + k - 1
    BY <1>4
  <2> HIDE DEF new, batch
  <2> QED
    BY <1>15, <2>1
<1> HIDE DEF new, batch
<1>6. MayFollow(new, thread, seq)
  <2>1. Results(new) = {} /\ Calls(new) = 1..n
    BY <1>4, <1>5 DEF Results, Calls
  <2>2. CallsDiffer(new)
    BY <1>16, <2>1, Zenon DEF CallsDiffer
  <2> QED
    BY <1>3, <1>4, <1>5, <2>1, <2>2 DEF MayFollow, OneResult
<1>7. Under(new, seq + n)
  BY <1>3, <1>4, <1>5 DEF Under
<1>8. Extends(thread, thread') /\ Whole(thread', seq')
  <2>1. seq + n \in Nat /\ seq <= seq + n
    BY <1>1, StoreFacts
  <2>2. /\ Extends(thread, thread \o new) /\ Sound(thread \o new)
        /\ Under(thread \o new, seq + n)
    BY <1>5, <1>6, <1>7, <2>1, StoreFacts, GrownIsSound
  <2> QED
    BY <1>2, <2>2 DEF Extends, Whole
<1>9. /\ ks \subseteq DOMAIN batch /\ 1 \in ks /\ Cardinality(ks) \in Nat
  <2>1. 0 \in Nat /\ 0 < Len(batch) /\ 0 + 1 = 1
    BY <1>1, <1>5
  <2> QED
    BY <1>5, <2>1, ChunkIs
<1> HIDE DEF ks
<1>10. running' \in SUBSET Nat /\ running' # {}
  <2>1. \A k \in ks : batch[k].use \in Nat
    BY <1>5, <1>9, CallFields
  <2> QED
    BY <1>2, <1>9, <2>1
<1>11. /\ turn' \in Turns /\ turn'.pc = "tools" /\ turn'.batch = batch
       /\ turn'.aborted = turn.aborted
  <2>1. 0 + Cardinality(ks) \in Nat
    BY <1>9
  <2> QED
    BY <1>2, <1>5, <2>1, StoreFacts DEF Turns, Pcs
<1>12. MetaTyped' /\ DiskOK' /\ TurnTyped'
  BY <1>2, <1>10, <1>11, StoreFacts, OthersKeep
<1>13. CompactInv'
  BY <1>2, <1>11 DEF ThreadInv, CompactInv
<1>14. BatchInv'
  <2>1. Results(thread') = Results(thread)
    <3>1. \A i \in DOMAIN thread' : i \in DOMAIN thread \/ i - Len(thread) \in DOMAIN new
      BY <1>2, <1>5, StoreFacts
    <3>2. \A i \in DOMAIN thread' : i \notin DOMAIN thread => thread'[i] = new[i - Len(thread)]
      BY <1>2, <1>5, StoreFacts
    <3>3. \A i \in DOMAIN thread : i \in DOMAIN thread' /\ thread'[i] = thread[i]
      BY <1>8, StoreFacts DEF Extends
    <3> QED
      BY <1>4, <1>5, <3>1, <3>2, <3>3 DEF Results
  <2>2. \A i \in Results(thread') : thread'[i] = thread[i] /\ thread[i].use \in Nat /\ thread[i].use < seq
    <3>1. \A i \in Results(thread) : /\ i \in DOMAIN thread /\ thread[i].use \in Nat /\ thread[i].seq \in Nat
                                     /\ thread[i].use < thread[i].seq /\ thread[i].seq < seq
      BY StoreFacts, EventFields DEF Results, Sound, UsesAreOlder, Under
    <3> QED
      BY <1>8, <2>1, <3>1, StoreFacts DEF Extends
  <2>3. \A k \in DOMAIN batch :
           /\ batch[k].use < seq'
           /\ \A i \in Results(thread') : thread'[i].use # batch[k].use
    <3>1. \A k \in DOMAIN batch : /\ batch[k].use \in Nat /\ batch[k].use >= seq
                                  /\ batch[k].use < seq + n
      BY <1>3, <1>4, <1>5
    <3>2. \A i \in Results(thread') : thread'[i].use \in Nat /\ thread'[i].use < seq
      BY <2>2
    <3>3. seq' = seq + n /\ seq \in Nat
      BY <1>2, StoreFacts
    <3> QED
      BY <3>1, <3>2, <3>3
  <2>4. \A j, k \in DOMAIN batch : batch[j].use = batch[k].use => j = k
    BY <1>5, <1>16
  <2>5. 0 \in 0..Len(batch) /\ running' \subseteq {batch[k].use : k \in Chunk(batch, 0)}
    BY <1>1, <1>2, <1>5 DEF ks
  <2> QED
    BY <1>10, <1>11, <2>3, <2>4, <2>5 DEF BatchInv
<1> QED
  BY <1>8, <1>12, <1>13, <1>14 DEF ThreadInv

\* The results of a batch are written in the order of its calls.
LEMMA BatchEndsKeeps ==
    ASSUME ThreadInv, BatchEnds
    PROVE  ThreadInv' /\ Extends(thread, thread')
<1> DEFINE n == Len(turn.batch)
           new == [k \in 1..n |-> Event("result", seq + k - 1, turn.branch, turn.batch[k].use)]
           th == thread \o new
<1>1. turn.pc = "tools"
  <2>1. Cardinality(running) = 1
    BY DEF BatchEnds
  <2>2. Cardinality({}) = 0
    BY FS_EmptySet
  <2>3. running # {}
    BY <2>1, <2>2
  <2> QED
    BY <2>3 DEF ThreadInv, BatchInv
<1>2. n \in Nat /\ turn.batch \in Batches /\ DOMAIN turn.batch = 1..n /\ turn.branch \in Nat
  BY StoreFacts, TurnFields DEF Batches
<1>3. \A k \in 1..n : /\ seq + k - 1 \in Nat /\ seq + k - 1 >= seq /\ seq + k - 1 < seq + n
                      /\ k \in Nat /\ turn.batch[k].use \in Nat /\ turn.batch[k].use < seq
                      /\ \A i \in Results(thread) : thread[i].use # turn.batch[k].use
  <2>1. \A k \in 1..n : turn.batch[k].use \in Nat
    BY <1>2, CallFields
  <2>2. \A k \in 1..n : /\ turn.batch[k].use < seq
                        /\ \A i \in Results(thread) : thread[i].use # turn.batch[k].use
    BY <1>1, <1>2 DEF ThreadInv, BatchInv
  <2>3. \A k \in 1..n : k \in Nat /\ seq + k - 1 \in Nat /\ seq + k - 1 >= seq /\ seq + k - 1 < seq + n
    BY <1>2, StoreFacts
  <2> QED
    BY <2>1, <2>2, <2>3
<1>4. \A j, k \in 1..n : turn.batch[j].use = turn.batch[k].use => j = k
  BY <1>1, <1>2 DEF ThreadInv, BatchInv
<1>5. \A k \in 1..n : Event("result", seq + k - 1, turn.branch, turn.batch[k].use) \in Events
  BY <1>2, <1>3 DEF Event, Events, Kinds
<1>6. new \in Seq(Events) /\ Len(new) = n /\ DOMAIN new = 1..n
  BY <1>2, <1>5
<1>7. \A k \in 1..n : /\ new[k].kind = "result" /\ new[k].seq = seq + k - 1
                      /\ new[k].use = turn.batch[k].use
  BY DEF Event
<1> HIDE DEF new
<1>8. MayFollow(new, thread, seq)
  <2>1. Results(new) = 1..n /\ Calls(new) = {}
    BY <1>6, <1>7 DEF Results, Calls
  <2>2. OneResult(new) /\ CallsDiffer(new)
    BY <1>4, <1>7, <2>1 DEF OneResult, CallsDiffer
  <2> QED
    BY <1>3, <1>6, <1>7, <2>1, <2>2 DEF MayFollow
<1>9. Under(new, seq + n)
  BY <1>3, <1>6, <1>7 DEF Under
<1>10. /\ Cardinality(running) = 1 /\ running' = {} /\ Room(n)
       /\ UNCHANGED <<branches, here, zombies, disk, restarts>>
       /\ \/ Proceed(th, seq + n, "mid")
          \/ /\ Room(n + 1)
             /\ Finish(Append(th, Event("assistant", seq + n, turn.branch, 0)), seq + n + 1)
  BY DEF BatchEnds, new
<1>11. Extends(thread, th) /\ Whole(th, seq + n)
  <2>1. seq + n \in Nat /\ seq <= seq + n /\ seq + n \in 1..(MaxSeq + 1)
    BY <1>2, <1>10, StoreFacts, ThreadAssumptions DEF Room
  <2>2. Extends(thread, th) /\ Sound(th) /\ Under(th, seq + n)
    BY <1>6, <1>8, <1>9, <2>1, StoreFacts, GrownIsSound
  <2> QED
    BY <2>1, <2>2 DEF Extends, Whole
<1> HIDE DEF th
<1>12. CASE Proceed(th, seq + n, "mid")
  BY <1>1, <1>10, <1>11, <1>12, ProceedKeeps
<1>13. CASE /\ Room(n + 1)
            /\ Finish(Append(th, Event("assistant", seq + n, turn.branch, 0)), seq + n + 1)
  <2> DEFINE th2 == Append(th, Event("assistant", seq + n, turn.branch, 0))
  <2>1. "assistant" \in Kinds \ {"call", "result"} /\ seq + n <= MaxSeq
    BY <1>2, <1>13, StoreFacts, ThreadAssumptions DEF Kinds, Room
  <2>2. Extends(th, th2) /\ Whole(th2, seq + n + 1)
    BY <1>2, <1>11, <2>1, NotedIsWhole
  <2> HIDE DEF th2
  <2>3. ThreadInv' /\ thread' = th2
    BY <1>10, <1>13, <2>2, FinishKeeps DEF Finish, th2
  <2> QED
    BY <1>11, <2>2, <2>3, StoreFacts, ExtendsTwice
<1> QED
  BY <1>10, <1>12, <1>13


\* An abort: a result for each call of the turn that has none.
LEMMA InterruptKeeps ==
    ASSUME ThreadInv, InterruptSession
    PROVE  ThreadInv' /\ Extends(thread, thread')
<1> DEFINE th == Repaired(thread, turn.start, seq)
           more == Len(th) - Len(thread)
<1>1. /\ status' = "idle" /\ running' = {}
      /\ \/ Live /\ Room(more) /\ thread' = th /\ seq' = seq + more
         \/ ~Live /\ UNCHANGED <<thread, seq>>
      /\ turn' = IF turn.pc \in {"compactMid", "compactEnd"}
                 THEN [turn EXCEPT !.aborted = TRUE, !.cursor = Len(th)] ELSE NoTurn
      /\ zombies' = zombies \cup {[use |-> c, branch |-> turn.branch] : c \in running}
      /\ UNCHANGED <<branches, here, disk, restarts>>
  <2> HIDE DEF th
  <2> QED
    BY DEF InterruptSession, th
<1>2. /\ Extends(thread, th) /\ Sound(th) /\ Under(th, seq + more) /\ Len(th) \in Nat
      /\ seq + more \in Nat /\ seq <= seq + more
  BY StoreFacts, TurnFields, RepairedIsSound
<1> HIDE DEF th, more
<1>3. Extends(thread, thread') /\ Whole(thread', seq') /\ seq <= seq' /\ seq' \in Nat
  <2>1. CASE thread' = th /\ seq' = seq + more /\ Room(more)
    <3>1. seq + more \in 1..(MaxSeq + 1)
      BY <1>2, <2>1, StoreFacts, ThreadAssumptions DEF Room
    <3> QED
      BY <1>2, <2>1, <3>1 DEF Extends, Whole
  <2> QED
    BY <1>1, <2>1, StoreFacts
<1>4. zombies' \in SUBSET [use : Nat, branch : Nat]
  BY <1>1, StoreFacts, TurnFields
<1>5. CASE turn.pc \in {"compactMid", "compactEnd"}
  <2>1. turn' = [turn EXCEPT !.aborted = TRUE, !.cursor = Len(th)]
    BY <1>1, <1>5
  <2>2. turn' \in Turns /\ turn'.pc = turn.pc /\ turn'.cut = turn.cut /\ turn'.block = turn.block
    BY <1>2, <2>1, StoreFacts DEF Turns
  <2>3. MetaTyped' /\ DiskOK' /\ TurnTyped'
    BY <1>1, <1>4, <2>2, StoreFacts, OthersKeep
  <2>4. BatchInv'
    BY <1>1, <1>5, <2>2 DEF BatchInv
  <2>5. CompactInv'
    <3>1. turn.cut \in 1..Len(thread) /\ turn.block < seq /\ turn.block \in Nat
      BY <1>5, StoreFacts, TurnFields DEF ThreadInv, CompactInv
    <3>2. Len(thread) <= Len(thread') /\ Len(thread) \in Nat /\ Len(thread') \in Nat
      BY <1>3, StoreFacts DEF Extends
    <3>3. turn.cut \in 1..Len(thread') /\ turn.block < seq'
      BY <1>3, <3>1, <3>2, StoreFacts
    <3> QED
      BY <1>5, <2>2, <3>3 DEF CompactInv
  <2> QED
    BY <1>3, <2>3, <2>4, <2>5 DEF ThreadInv
<1>6. CASE turn.pc \notin {"compactMid", "compactEnd"}
  <2>1. turn' = NoTurn
    BY <1>1, <1>6
  <2>2. MetaTyped' /\ DiskOK' /\ TurnTyped'
    BY <1>1, <1>4, <2>1, NoTurnTyped, StoreFacts, OthersKeep
  <2>3. BatchInv' /\ CompactInv'
    BY <1>1, <2>1, NoTurnTyped, NoBatch
  <2> QED
    BY <1>3, <2>2, <2>3 DEF ThreadInv
<1> QED
  BY <1>5, <1>6

\* A compaction ends; it takes events from the thread, but no fact.
LEMMA CompactDoneKeeps ==
    ASSUME ThreadInv, CompactDone
    PROVE  /\ ThreadInv'
           /\ {thread[i].seq : i \in FactPositions(thread)} \subseteq Seqs(thread')
<1>1. /\ turn.pc \in {"compactMid", "compactEnd"} /\ turn.aborted = FALSE
      /\ UNCHANGED <<branches, here, running, zombies, disk, restarts>>
      /\ \/ /\ thread' = Compacted /\ turn' = [turn EXCEPT !.pc = "model", !.cut = 0, !.block = 0]
            /\ UNCHANGED <<seq, told, status>>
         \/ Finish(Compacted, seq)
  <2>1. ~turn.aborted /\ turn.aborted \in BOOLEAN
    BY StoreFacts, TurnFields DEF CompactDone
  <2> QED
    BY <2>1 DEF CompactDone
<1>2. turn.cut \in 1..Len(thread) /\ turn.block < seq
  BY <1>1 DEF ThreadInv, CompactInv
<1>3. /\ Compacted \in Seq(Events) /\ Sound(Compacted) /\ Under(Compacted, seq)
      /\ {thread[i].seq : i \in FactPositions(thread)} \subseteq Seqs(Compacted)
  BY <1>2, StoreFacts, CompactedIsSound
<1>4. Whole(Compacted, seq)
  BY <1>3, StoreFacts DEF Whole
<1>5. running' = {}
  BY <1>1, NoneRuns
<1>6. thread' = Compacted
  BY <1>1 DEF Finish
<1>7. CASE /\ turn' = [turn EXCEPT !.pc = "model", !.cut = 0, !.block = 0]
           /\ UNCHANGED <<seq, told, status>>
  <2>1. turn' \in Turns /\ turn'.pc = "model" /\ turn'.aborted = FALSE
    BY <1>1, <1>7, StoreFacts DEF Turns, Pcs
  <2>2. MetaTyped' /\ DiskOK' /\ TurnTyped'
    BY <1>1, <1>7, <2>1, StoreFacts, OthersKeep
  <2>3. BatchInv' /\ CompactInv'
    BY <1>5, <2>1, NoBatch
  <2>4. Whole(thread', seq')
    BY <1>4, <1>6, <1>7
  <2> QED
    BY <1>3, <1>6, <2>2, <2>3, <2>4 DEF ThreadInv
<1>8. CASE Finish(Compacted, seq)
  BY <1>1, <1>3, <1>4, <1>5, <1>6, <1>8, FinishKeeps
<1> QED
  BY <1>1, <1>7, <1>8

LEMMA CompactFailsKeeps ==
    ASSUME ThreadInv, CompactFails
    PROVE  ThreadInv' /\ Extends(thread, thread')
<1>1. /\ turn.pc \in {"compactMid", "compactEnd"} /\ Room(1) /\ Block(thread, seq, {})
      /\ UNCHANGED <<branches, here, running, zombies, disk, restarts>>
  BY DEF CompactFails
<1>2. running' = {} /\ seq <= MaxSeq
  BY <1>1, NoneRuns, StoreFacts, ThreadAssumptions DEF Room
<1> QED
  BY <1>1, <1>2, StoreFacts, BlockKeeps

LEMMA CompactAbortedKeeps ==
    ASSUME ThreadInv, CompactAborted
    PROVE  ThreadInv' /\ Extends(thread, thread')
<1> DEFINE th == Repaired(thread, turn.start, seq)
           more == Len(th) - Len(thread)
<1>1. /\ turn.aborted /\ Room(more) /\ thread' = th /\ seq' = seq + more /\ turn' = NoTurn
      /\ status' = IF status = "running" THEN "idle" ELSE status
      /\ UNCHANGED <<branches, here, told, running, zombies, disk, restarts>>
  <2> HIDE DEF th
  <2> QED
    BY DEF CompactAborted, th
<1>2. /\ Extends(thread, th) /\ Sound(th) /\ Under(th, seq + more) /\ Len(th) \in Nat
      /\ seq + more \in Nat /\ seq <= seq + more
  BY StoreFacts, TurnFields, RepairedIsSound
<1> HIDE DEF th, more
<1>3. Extends(thread, thread') /\ Whole(thread', seq')
  <2>1. seq + more \in 1..(MaxSeq + 1)
    BY <1>1, <1>2, StoreFacts, ThreadAssumptions DEF Room
  <2> QED
    BY <1>1, <1>2, <2>1 DEF Extends, Whole
<1>4. running' = {}
  <2>1. turn.pc # "tools"
    BY <1>1 DEF ThreadInv, CompactInv
  <2> QED
    BY <1>1, <2>1, NoneRuns
<1>5. MetaTyped' /\ DiskOK' /\ TurnTyped'
  BY <1>1, NoTurnTyped, StoreFacts, OthersKeep
<1>6. BatchInv' /\ CompactInv'
  BY <1>1, <1>4, NoTurnTyped, NoBatch
<1> QED
  BY <1>3, <1>5, <1>6 DEF ThreadInv

\* The next number after a restart is above all numbers of the thread.
LEMMA HighestIs ==
    ASSUME NEW th, NEW n, Whole(th, n)
    PROVE  Highest(th) \in Nat /\ Under(th, Highest(th) + 1)
<1>1. th \in Seq(Events) /\ n \in Nat /\ \A i \in DOMAIN th : th[i].seq \in Nat
  BY EventFields, ThreadAssumptions DEF Whole
<1>2. CASE th = <<>>
  BY <1>2 DEF Highest, Under
<1>3. CASE th # <<>>
  <2> DEFINE Bounds == {m \in Nat : Under(th, m)}
  <2>1. n \in Bounds
    BY <1>1 DEF Whole
  <2>2. PICK m \in Bounds : \A k \in Bounds : m <= k
    <3>1. Bounds \in SUBSET Nat /\ Bounds # {}
      BY <2>1
    <3> HIDE DEF Bounds
    <3> QED
      BY <3>1, Smallest
  <2>3. m \in Nat /\ \A i \in DOMAIN th : th[i].seq < m
    BY <2>2 DEF Under
  <2>4. m > 0 /\ m - 1 \in Nat
    <3>1. 1 \in DOMAIN th
      BY <1>1, <1>3
    <3> QED
      BY <1>1, <2>3, <3>1
  <2>5. ~Under(th, m - 1)
    BY <2>2, <2>3, <2>4
  <2>6. PICK i \in DOMAIN th : ~(th[i].seq < m - 1)
    BY <2>5 DEF Under
  <2>7. th[i].seq = m - 1
    BY <1>1, <2>3, <2>4, <2>6
  <2>8. m - 1 \in Seqs(th) /\ \A k \in Seqs(th) : k \in Nat /\ k <= m - 1
    BY <1>1, <2>3, <2>4, <2>7 DEF Seqs
  <2>9. \A k \in Seqs(th) : (\A j \in Seqs(th) : j <= k) => k = m - 1
    BY <2>4, <2>8
  <2>10. Highest(th) = m - 1
    BY <1>3, <2>8, <2>9 DEF Highest
  <2>11. m - 1 + 1 = m
    BY <2>3
  <2> QED
    BY <2>3, <2>4, <2>10, <2>11 DEF Under
<1> QED
  BY <1>2, <1>3

\* After a crash the thread is what the disk has, with a result for every call if the
\* session was running.
LEMMA CrashKeeps ==
    ASSUME ThreadInv, CrashAndRestart
    PROVE  ThreadInv' /\ restarts' # restarts
<1> DEFINE last == Highest(disk.thread)
           th == Repaired(disk.thread, 0, last + 1)
           n == last + 1 + Len(th) - Len(disk.thread)
<1>1. /\ restarts < MaxRestarts /\ n <= MaxSeq /\ restarts' = restarts + 1
      /\ branches' = disk.branches /\ here' = disk.here
      /\ turn' = NoTurn /\ running' = {} /\ zombies' = {} /\ disk' = disk
      /\ \/ /\ thread' = Append(th, Event("notice", n, Main, 0))
            /\ seq' = n + 1 /\ status' = "blocked"
         \/ /\ thread' = disk.thread /\ seq' = last + 1
            /\ status' = disk.status
  <2> HIDE DEF th
  <2> QED
    BY DEF CrashAndRestart, th
<1>2. PICK m \in 1..(MaxSeq + 1) : Whole(disk.thread, m)
  BY StoreFacts DEF DiskOK
<1>3. last \in Nat /\ last + 1 \in Nat /\ Under(disk.thread, last + 1)
  BY <1>2, HighestIs
<1>4. disk.thread \in Seq(Events) /\ Sound(disk.thread) /\ Len(disk.thread) \in Nat
  BY <1>2 DEF Whole
<1>5. /\ Extends(disk.thread, th) /\ Sound(th) /\ Len(th) \in Nat
      /\ Under(th, last + 1 + (Len(th) - Len(disk.thread)))
      /\ last + 1 <= last + 1 + (Len(th) - Len(disk.thread))
  BY <1>3, <1>4, RepairedIsSound
<1> HIDE DEF th, last
<1>6. n = last + 1 + (Len(th) - Len(disk.thread)) /\ n \in Nat /\ last + 1 <= n
  <2> DEFINE before == Len(disk.thread)
             after == Len(th)
  <2>1. before \in Nat /\ after \in Nat /\ last + 1 <= last + 1 + (after - before)
    BY <1>4, <1>5
  <2> HIDE DEF before, after
  <2>2. /\ last + 1 + after - before = last + 1 + (after - before)
        /\ last + 1 + (after - before) \in Nat
    BY <1>3, <2>1
  <2> QED
    BY <2>1, <2>2 DEF before, after
<1> HIDE DEF n
<1>7. Whole(th, n) /\ Whole(disk.thread, last + 1)
  <2>1. n \in 1..(MaxSeq + 1) /\ last + 1 \in 1..(MaxSeq + 1)
    <3>1. n <= MaxSeq
      BY <1>1
    <3>2. n \in Nat /\ last \in Nat /\ last + 1 <= n /\ MaxSeq \in Nat
      BY <1>3, <1>6, ThreadAssumptions
    <3> QED
      BY <3>1, <3>2
  <2> QED
    BY <1>3, <1>4, <1>5, <1>6, <2>1 DEF Whole, Extends
<1>8. Whole(thread', seq')
  <2>1. "notice" \in Kinds \ {"call", "result"} /\ Main \in Nat
    BY DEF Kinds, Main
  <2> QED
    BY <1>1, <1>7, <2>1, NotedIsWhole
<1>9. restarts' \in 0..MaxRestarts /\ restarts' # restarts
  BY <1>1, StoreFacts, ThreadAssumptions DEF DiskOK
<1>10. DiskOK' /\ MetaTyped' /\ TurnTyped'
  BY <1>1, <1>9, NoTurnTyped, StoreFacts DEF DiskOK, MetaTyped, TurnTyped
<1>11. BatchInv' /\ CompactInv'
  BY <1>1, NoTurnTyped, NoBatch
<1> QED
  BY <1>8, <1>9, <1>10, <1>11 DEF ThreadInv


-----------------------------------------------------------------------------
(* The theorems.                                                           *)

LEMMA ThreadInit == Init => ThreadInv
<1> SUFFICES ASSUME Init PROVE ThreadInv
  OBVIOUS
<1>1. /\ thread = <<>> /\ seq = 1 /\ branches = <<[parent |-> 0, fork |-> 0]>> /\ here = 1
      /\ status = "idle" /\ turn = NoTurn /\ running = {} /\ zombies = {} /\ restarts = 0
      /\ disk = [thread |-> <<>>, branches |-> branches, here |-> 1, status |-> "idle"]
  BY DEF Init, Main
<1>2. Whole(<<>>, 1)
  <2>1. <<>> \in Seq(Events) /\ 1 \in 1..(MaxSeq + 1) /\ Under(<<>>, 1)
    BY ThreadAssumptions DEF Under
  <2>2. Results(<<>>) = {} /\ Calls(<<>>) = {}
    BY DEF Results, Calls
  <2> QED
    BY <2>1, <2>2 DEF Whole, Sound, UsesAreOlder, CallsDiffer, ResultsFollow, OneResult
<1>3. BranchesOK(branches, here)
  <2> DEFINE first == [parent |-> 0, fork |-> 0]
  <2>1. first \in [parent : Nat, fork : Nat]
    OBVIOUS
  <2> HIDE DEF first
  <2>2. <<first>> \in Seq([parent : Nat, fork : Nat]) /\ Len(<<first>>) = 1 /\ 1 \in DOMAIN <<first>>
    BY <2>1
  <2>3. branches = <<first>>
    BY <1>1 DEF first
  <2> QED
    BY <1>1, <2>2, <2>3, ThreadAssumptions DEF BranchesOK
<1>4. MetaTyped /\ TurnTyped
  BY <1>1, <1>3, NoTurnTyped DEF MetaTyped, TurnTyped
<1>5. DiskOK
  <2>1. 1 \in 1..(MaxSeq + 1)
    BY ThreadAssumptions
  <2>2. \E n \in 1..(MaxSeq + 1) : Whole(<<>>, n)
    BY <1>2, <2>1
  <2> QED
    BY <1>1, <1>3, <2>2, ThreadAssumptions DEF DiskOK
<1>6. BatchInv /\ CompactInv
  BY <1>1, NoTurnTyped DEF BatchInv, CompactInv
<1> QED
  BY <1>1, <1>2, <1>4, <1>5, <1>6 DEF ThreadInv

\* What a step may do to the thread.
FactsStay == {thread[i].seq : i \in FactPositions(thread)} \subseteq Seqs(thread')

LEMMA ExtendedKeepsFacts ==
    ASSUME ThreadInv, Extends(thread, thread')
    PROVE  FactsStay
<1>1. \A i \in DOMAIN thread : i \in DOMAIN thread' /\ thread'[i] = thread[i]
  BY StoreFacts DEF Extends
<1>2. \A i \in FactPositions(thread) : i \in DOMAIN thread
  BY DEF FactPositions
<1>3. \A i \in FactPositions(thread) : thread[i].seq \in Seqs(thread')
  BY <1>1, <1>2 DEF Seqs
<1> QED
  BY <1>3 DEF FactsStay

LEMMA ThreadNext ==
    ASSUME ThreadInv, [Next]_vars
    PROVE  ThreadInv' /\ (restarts' = restarts => FactsStay)
<1>1. CASE ThreadInv' /\ Extends(thread, thread')
  BY <1>1, ExtendedKeepsFacts
<1>2. CASE UNCHANGED vars
  <2>1. UNCHANGED <<thread, seq, branches, here, status, turn, running, zombies, disk, restarts>>
    BY <1>2 DEF vars, storeVars, metaVars
  <2>2. ThreadInv'
    BY <2>1 DEF ThreadInv, MetaTyped, TurnTyped, DiskOK, BatchInv, CompactInv
  <2> QED
    BY <1>1, <2>1, <2>2, StoreFacts
<1>3. CASE CompactDone
  BY <1>3, CompactDoneKeeps DEF FactsStay
<1>4. CASE CrashAndRestart
  BY <1>4, CrashKeeps
<1>5. CASE \/ \E b \in 1..MaxBranches : AppendUserMessage(b)
           \/ \E i \in DOMAIN thread : CreateMessageVariant(i)
  BY <1>1, <1>5, AppendUserMessageKeeps, CreateMessageVariantKeeps
<1>6. CASE RetryBlockedSession \/ StartTurn \/ Flush \/ \E z \in zombies : ZombieEnds(z)
  BY <1>1, <1>6, QuietKeeps
<1>7. CASE InterruptSession
  BY <1>1, <1>7, InterruptKeeps
<1>8. CASE ModelStops \/ ModelFails \/ ReadinessBlocks
  BY <1>1, <1>8, AnswersKeep, ReadinessBlocksKeeps
<1>9. CASE ProviderStatus \/ ToolRecords \/ \E z \in zombies : ZombieRecords(z)
  BY <1>1, <1>9, NotesKeep
<1>10. CASE \E n \in 1..BatchSize : \E safe \in [1..n -> BOOLEAN] : ModelCalls(safe)
  BY <1>1, <1>10, ModelCallsKeeps
<1>11. CASE (\E c \in running : ToolEnds(c)) \/ BatchEnds
  BY <1>1, <1>11, ToolEndsKeeps, BatchEndsKeeps
<1>12. CASE CompactFails \/ CompactAborted
  BY <1>1, <1>12, CompactFailsKeeps, CompactAbortedKeeps
<1> QED
  BY <1>2, <1>3, <1>4, <1>5, <1>6, <1>7, <1>8, <1>9, <1>10, <1>11, <1>12 DEF Next

LEMMA ThreadAlways == Spec => []ThreadInv
<1>1. ThreadInv /\ [Next]_vars => ThreadInv'
  BY ThreadNext
<1> QED
  BY ThreadInit, <1>1, PTL DEF Spec

\* The parts of a session's thread fit together, whatever the bounds are: every event has
\* a kind and a number below the next one, the active branch exists, and tools run for the
\* turn exactly while it is at a batch (session-thread-store.ts, agent-loop.ts).
THEOREM ThreadIsTyped == Spec => []ThreadTypeOK
<1>1. ThreadInv => ThreadTypeOK
  <2> SUFFICES ASSUME ThreadInv PROVE ThreadTypeOK
    OBVIOUS
  <2>1. \A i \in DOMAIN thread : thread[i].kind \in Kinds /\ thread[i].seq < seq
    BY StoreFacts, EventFields DEF Under
  <2>2. seq \in 1..(MaxSeq + 1)
    BY StoreFacts DEF Whole
  <2>3. turn.pc \in {"none", "model", "tools", "compactMid", "compactEnd"}
    BY StoreFacts, TurnFields DEF Pcs
  <2> QED
    BY <2>1, <2>2, <2>3, StoreFacts DEF ThreadTypeOK, MetaTyped, BranchesOK, DiskOK,
       ThreadInv, BatchInv
<1> QED
  BY <1>1, ThreadAlways, PTL

\* No tool call ever gets two results: neither the abort of a turn, which writes results
\* for what is unfinished, and again when the turn unwinds, nor the repair at start-up of
\* what an earlier repair left, nor the turn's own answers
\* (session-thread-store.ts, core-api.ts, agent-loop.ts).
THEOREM CallsAreAnsweredOnce == Spec => []AnsweredOnce
<1>1. ThreadInv => AnsweredOnce
  BY DEF ThreadInv, Whole, Sound, OneResult, Results, AnsweredOnce, Positions
<1> QED
  BY <1>1, ThreadAlways, PTL

\* A tool that is not safe to run beside others runs alone in its turn, whatever the
\* model asked for before and after it in one answer (agent-loop.ts).
THEOREM ExclusiveToolsRunAlone == Spec => []ExclusiveRunsAlone
<1>1. ThreadInv => ExclusiveRunsAlone
  <2> SUFFICES ASSUME ThreadInv, NEW k \in DOMAIN turn.batch,
                      turn.batch[k].use \in running, ~turn.batch[k].safe
               PROVE  running = {turn.batch[k].use}
    BY DEF ExclusiveRunsAlone
  <2>1. turn.pc = "tools" /\ turn.batch \in Batches
    BY StoreFacts, TurnFields DEF ThreadInv, BatchInv
  <2>2. \A j, m \in DOMAIN turn.batch : turn.batch[j].use = turn.batch[m].use => j = m
    BY <2>1 DEF ThreadInv, BatchInv
  <2>3. PICK after \in 0..Len(turn.batch) :
           running \subseteq {turn.batch[m].use : m \in Chunk(turn.batch, after)}
    BY <2>1 DEF ThreadInv, BatchInv
  <2>4. Len(turn.batch) \in Nat /\ DOMAIN turn.batch = 1..Len(turn.batch) /\ after \in Nat
    BY <2>1 DEF Batches
  <2>5. \A m \in Chunk(turn.batch, after) :
           /\ m \in DOMAIN turn.batch /\ m \in Nat /\ m >= after + 1
           /\ m = after + 1 \/ \A j \in (after + 1)..m : turn.batch[j].safe
    BY <2>4 DEF Chunk
  <2>6. k \in Chunk(turn.batch, after)
    BY <2>2, <2>3, <2>5
  <2>7. k = after + 1
    BY <2>4, <2>5, <2>6
  <2>8. \A m \in Chunk(turn.batch, after) : m = k
    <3> SUFFICES ASSUME NEW m \in Chunk(turn.batch, after), m # k PROVE FALSE
      OBVIOUS
    <3>1. k \in (after + 1)..m
      BY <2>4, <2>5, <2>7
    <3> QED
      BY <2>5, <2>7, <3>1
  <2> QED
    BY <2>3, <2>8
<1> QED
  BY <1>1, ThreadAlways, PTL

\* Whatever compactions, aborts, late tools and message variants there are, a structured
\* fact in the thread stays in it; only a crash takes facts
\* (preserveDuringCompaction(), compactEvents()).
THEOREM FactsAreNeverLost == Spec => FactsSurvive
<1>1. ThreadInv /\ [Next]_vars =>
          [restarts' = restarts =>
             {thread[i].seq : i \in FactPositions(thread)} \subseteq Seqs(thread')]_vars
  BY ThreadNext DEF FactsStay
<1> QED
  BY <1>1, ThreadAlways, PTL DEF Spec, FactsSurvive

-----------------------------------------------------------------------------
(* Calls and results in the thread.                                        *)

AllCalls(th, i, k)  == \A j \in i..k : th[j].kind = "call"
HasResult(th, i)    == \E r \in Results(th) : th[r].use = th[i].seq

\* Every result has its call, and between a call and its result there are only calls
\* that were written with it.
Ordered(th) ==
    /\ \A r \in Results(th) : \E i \in Calls(th) : th[i].seq = th[r].use
    /\ \A i, k \in Calls(th), r \in Results(th) :
           th[r].use = th[i].seq /\ i < k /\ k < r => AllCalls(th, i, k)

Complete(th) == \A i \in Calls(th) : HasResult(th, i)

\* The calls up to position q have their results there; those after it, written
\* together, have none.
OpenFrom(th, q) ==
    /\ \A i \in Calls(th) : i <= q => \E r \in Results(th) : r <= q /\ th[r].use = th[i].seq
    /\ \A i \in Calls(th) : i > q => ~HasResult(th, i)
    /\ \A i, k \in Calls(th) : q < i /\ i < k => AllCalls(th, i, k)

\* The calls without results are those of the turn's batch.
BatchIsOpen ==
    \E q \in 0..Len(thread) :
        /\ OpenFrom(thread, q)
        /\ \A i \in Calls(thread) : i > q => \E k \in DOMAIN turn.batch : turn.batch[k].use = thread[i].seq
        /\ \A k \in DOMAIN turn.batch :
               \E i \in Calls(thread) : i > q /\ turn.batch[k].use = thread[i].seq

TurnReplies ==
    /\ Ordered(thread)
    /\ turn.pc # "none" /\ turn.aborted = FALSE => status = "running"
    /\ turn.pc = "tools" => BatchIsOpen
    /\ turn.pc # "tools" => Complete(thread)
    /\ turn.pc \in {"compactMid", "compactEnd"} /\ turn.aborted = FALSE =>
           ~TailHasDanglingToolResult(thread, turn.cut)

DiskReplies ==
    /\ Ordered(disk.thread)
    /\ \E q \in 0..Len(disk.thread) : OpenFrom(disk.thread, q)
    /\ disk.status # "running" => Complete(disk.thread)

\* Until an abort leaves calls of its turn behind, calls and results are in order.
ReplyInv == forgotten \in BOOLEAN /\ (~forgotten => TurnReplies /\ DiskReplies)

\* Two threads with the same calls and results, at the same places.
Alike(th, th2) ==
    /\ Calls(th2) = Calls(th) /\ Results(th2) = Results(th)
    /\ \A i \in DOMAIN th : i \in DOMAIN th2 /\ th2[i] = th[i]
    /\ th \in Seq(Events) /\ th2 \in Seq(Events)

LEMMA AlikeReplies ==
    ASSUME NEW th, NEW th2, Alike(th, th2)
    PROVE  /\ Ordered(th) => Ordered(th2)
           /\ Complete(th) => Complete(th2)
           /\ \A q : OpenFrom(th, q) => OpenFrom(th2, q)
           /\ \A q \in 0..Len(th) : q \in 0..Len(th2)
<1>1. /\ Calls(th2) = Calls(th) /\ Results(th2) = Results(th)
      /\ \A i \in DOMAIN th : i \in DOMAIN th2 /\ th2[i] = th[i]
      /\ DOMAIN th = 1..Len(th) /\ DOMAIN th2 = 1..Len(th2) /\ Len(th) \in Nat /\ Len(th2) \in Nat
  BY DEF Alike
<1>2. \A i \in Calls(th) \cup Results(th) : i \in DOMAIN th /\ th2[i] = th[i] /\ i \in Nat
  BY <1>1 DEF Calls, Results
<1>3. \A i, k \in Calls(th) : AllCalls(th, i, k) => AllCalls(th2, i, k)
  <2> SUFFICES ASSUME NEW i \in Calls(th), NEW k \in Calls(th), AllCalls(th, i, k), NEW j \in i..k
               PROVE  th2[j].kind = "call"
    BY DEF AllCalls
  <2>1. j \in DOMAIN th /\ th[j].kind = "call"
    BY <1>1, <1>2 DEF AllCalls
  <2> QED
    BY <1>1, <2>1
<1>4. \A i \in Calls(th) : HasResult(th, i) <=> HasResult(th2, i)
  BY <1>1, <1>2 DEF HasResult
<1>5. Ordered(th) => Ordered(th2)
  <2> SUFFICES ASSUME Ordered(th) PROVE Ordered(th2)
    OBVIOUS
  <2>1. \A r \in Results(th2) : \E i \in Calls(th2) : th2[i].seq = th2[r].use
    BY <1>1, <1>2 DEF Ordered
  <2>2. ASSUME NEW i \in Calls(th2), NEW k \in Calls(th2), NEW r \in Results(th2),
               th2[r].use = th2[i].seq, i < k, k < r
        PROVE  AllCalls(th2, i, k)
    <3>1. th[r].use = th[i].seq /\ i \in Calls(th) /\ k \in Calls(th) /\ r \in Results(th)
      BY <1>1, <1>2, <2>2
    <3>2. AllCalls(th, i, k)
      BY <2>2, <3>1 DEF Ordered
    <3> QED
      BY <1>3, <3>1, <3>2
  <2> QED
    BY <2>1, <2>2 DEF Ordered
<1>6. Complete(th) => Complete(th2)
  BY <1>1, <1>4 DEF Complete
<1>7. ASSUME NEW q, OpenFrom(th, q) PROVE OpenFrom(th2, q)
  <2>1. \A i \in Calls(th2) : i <= q => \E r \in Results(th2) : r <= q /\ th2[r].use = th2[i].seq
    BY <1>1, <1>2, <1>7 DEF OpenFrom
  <2>2. \A i \in Calls(th2) : i > q => ~HasResult(th2, i)
    BY <1>1, <1>4, <1>7 DEF OpenFrom
  <2>3. \A i, k \in Calls(th2) : q < i /\ i < k => AllCalls(th2, i, k)
    BY <1>1, <1>3, <1>7 DEF OpenFrom
  <2> QED
    BY <2>1, <2>2, <2>3 DEF OpenFrom
<1>8. \A q \in 0..Len(th) : q \in 0..Len(th2)
  <2>1. Len(th) <= Len(th2)
    <3>1. Len(th) = 0 \/ Len(th) \in DOMAIN th
      BY <1>1
    <3> QED
      BY <1>1, <3>1
  <2> QED
    BY <1>1, <2>1
<1> QED
  BY <1>5, <1>6, <1>7, <1>8

\* An event of another kind.
LEMMA NotedIsAlike ==
    ASSUME NEW th \in Seq(Events), NEW kind \in Kinds \ {"call", "result"}, NEW n \in Nat, NEW b \in Nat
    PROVE  Alike(th, Append(th, Event(kind, n, b, 0)))
<1> DEFINE e == Event(kind, n, b, 0)
           th2 == Append(th, e)
<1>1. e \in Events /\ e.kind = kind
  BY DEF Event, Events
<1> HIDE DEF e
<1>2. /\ th2 \in Seq(Events) /\ Len(th2) = Len(th) + 1 /\ Len(th) \in Nat
      /\ \A i \in DOMAIN th : i \in DOMAIN th2 /\ th2[i] = th[i]
      /\ \A i \in DOMAIN th2 : i \in DOMAIN th \/ i = Len(th) + 1
      /\ th2[Len(th) + 1] = e
  BY <1>1
<1> HIDE DEF th2
<1>3. Results(th2) = Results(th) /\ Calls(th2) = Calls(th)
  BY <1>1, <1>2 DEF Results, Calls
<1>4. Alike(th, th2)
  BY <1>2, <1>3 DEF Alike
<1> QED
  BY <1>4 DEF th2, e

LEMMA AlikeTwice ==
    ASSUME NEW a, NEW b, NEW c, Alike(a, b), Alike(b, c) PROVE Alike(a, c)
BY DEF Alike

\* Complete threads are those that are open from their end.
LEMMA CompleteIsOpen ==
    ASSUME NEW th \in Seq(Events)
    PROVE  Complete(th) <=> OpenFrom(th, Len(th))
<1>1. \A i \in Calls(th) \cup Results(th) : i \in Nat /\ i <= Len(th) /\ Len(th) \in Nat
  BY DEF Calls, Results
<1> QED
  BY <1>1 DEF Complete, OpenFrom, HasResult

\* Results for calls that have none.
LEMMA AnsweredReplies ==
    ASSUME NEW th \in Seq(Events), CallsDiffer(th), Ordered(th), NEW q \in Nat, OpenFrom(th, q),
           NEW new \in Seq(Events),
           \A j \in DOMAIN new : /\ new[j].kind = "result"
                                 /\ \E i \in Calls(th) : ~HasResult(th, i) /\ new[j].use = th[i].seq
    PROVE  /\ Ordered(th \o new)
           /\ (\A i \in Calls(th) : HasResult(th, i) \/ \E j \in DOMAIN new : new[j].use = th[i].seq)
                 => Complete(th \o new)
<1> DEFINE th2 == th \o new
<1>1. /\ th2 \in Seq(Events) /\ Len(th2) = Len(th) + Len(new) /\ Len(th) \in Nat /\ Len(new) \in Nat
      /\ \A i \in DOMAIN th : i \in DOMAIN th2 /\ th2[i] = th[i]
      /\ \A i \in DOMAIN th2 : i \in Nat /\ (i \in DOMAIN th
             \/ (i - Len(th) \in DOMAIN new /\ th2[i] = new[i - Len(th)]))
      /\ \A j \in DOMAIN new : j + Len(th) \in DOMAIN th2 /\ th2[j + Len(th)] = new[j]
      /\ DOMAIN th = 1..Len(th)
  OBVIOUS
<1> HIDE DEF th2
<1>2. Calls(th2) = Calls(th)
  BY <1>1 DEF Calls
<1>3. /\ \A i \in Calls(th) : i \in DOMAIN th /\ i \in Nat /\ th2[i] = th[i]
      /\ \A r \in Results(th) : r \in Results(th2) /\ th2[r] = th[r]
  BY <1>1 DEF Calls, Results
<1>4. \A r \in Results(th2) : r \in Results(th)
          \/ \E i \in Calls(th) : ~HasResult(th, i) /\ th2[r].use = th[i].seq
  <2> SUFFICES ASSUME NEW r \in Results(th2), r \notin Results(th)
               PROVE  \E i \in Calls(th) : ~HasResult(th, i) /\ th2[r].use = th[i].seq
    OBVIOUS
  <2>1. r \in DOMAIN th2 /\ th2[r].kind = "result" /\ r \notin DOMAIN th
    BY <1>1 DEF Results
  <2>2. r - Len(th) \in DOMAIN new /\ th2[r] = new[r - Len(th)]
    BY <1>1, <2>1
  <2> QED
    BY <2>2
<1>5. \A i, k \in Calls(th) : AllCalls(th, i, k) => AllCalls(th2, i, k)
  <2> SUFFICES ASSUME NEW i \in Calls(th), NEW k \in Calls(th), AllCalls(th, i, k), NEW j \in i..k
               PROVE  th2[j].kind = "call"
    BY DEF AllCalls
  <2>1. j \in DOMAIN th /\ th[j].kind = "call"
    BY <1>1, <1>3 DEF AllCalls
  <2> QED
    BY <1>1, <2>1
<1>6. Ordered(th2)
  <2>1. ASSUME NEW r \in Results(th2) PROVE \E i \in Calls(th2) : th2[i].seq = th2[r].use
    <3>1. CASE r \in Results(th)
      BY <1>2, <1>3, <3>1 DEF Ordered
    <3>2. CASE \E i \in Calls(th) : ~HasResult(th, i) /\ th2[r].use = th[i].seq
      BY <1>2, <1>3, <3>2
    <3> QED
      BY <1>4, <3>1, <3>2
  <2>2. ASSUME NEW i \in Calls(th), NEW k \in Calls(th), NEW r \in Results(th2),
               th2[r].use = th2[i].seq, i < k, k < r
        PROVE  AllCalls(th, i, k)
    <3>1. CASE r \in Results(th)
      BY <1>3, <2>2, <3>1 DEF Ordered
    <3>2. CASE \E j \in Calls(th) : ~HasResult(th, j) /\ th2[r].use = th[j].seq
      <4>1. ~HasResult(th, i)
        BY <1>3, <2>2, <3>2 DEF CallsDiffer
      <4>2. ~(i <= q)
        BY <4>1 DEF OpenFrom, HasResult
      <4>3. q < i
        BY <1>3, <4>2
      <4> QED
        BY <2>2, <4>3 DEF OpenFrom
    <3> QED
      BY <1>4, <3>1, <3>2
  <2> QED
    BY <1>2, <1>5, <2>1, <2>2 DEF Ordered
<1>7. ASSUME \A i \in Calls(th) : HasResult(th, i) \/ \E j \in DOMAIN new : new[j].use = th[i].seq
      PROVE  Complete(th2)
  <2> SUFFICES ASSUME NEW i \in Calls(th) PROVE HasResult(th2, i)
    BY <1>2 DEF Complete
  <2>1. CASE HasResult(th, i)
    BY <1>3, <2>1 DEF HasResult
  <2>2. CASE \E j \in DOMAIN new : new[j].use = th[i].seq
    <3>1. PICK j \in DOMAIN new : new[j].use = th[i].seq
      BY <2>2
    <3>2. j + Len(th) \in Results(th2) /\ th2[j + Len(th)].use = th2[i].seq
      BY <1>1, <1>3, <3>1 DEF Results
    <3> QED
      BY <3>2 DEF HasResult
  <2> QED
    BY <1>7, <2>1, <2>2
<1> QED
  BY <1>6, <1>7 DEF th2

\* What the repair writes.
RepairOf(th, from, n, new) ==
    /\ new \in Seq(Events) /\ Repaired(th, from, n) = th \o new
    /\ \A j \in DOMAIN new : /\ new[j].kind = "result"
                             /\ \E p \in Dangling(th, from) : new[j].use = th[p].seq
    /\ \A p \in Dangling(th, from) : \E j \in DOMAIN new : new[j].use = th[p].seq

LEMMA RepairedIs ==
    ASSUME NEW th \in Seq(Events), NEW n \in Nat, NEW from \in Nat
    PROVE  \E new : RepairOf(th, from, n, new)
<1> DEFINE D == Dangling(th, from)
           c == Cardinality(D)
           calls == EventsAt(th, D)
           new == [i \in 1..c |-> Event("result", n + i - 1, Main, calls[i].seq)]
<1>1. D \in SUBSET DOMAIN th
  BY DEF Dangling
<1>2. /\ calls \in Seq(Events) /\ Len(calls) = c /\ c \in Nat
      /\ \A i \in 1..c : Nth(D, i) \in D /\ calls[i] = th[Nth(D, i)]
      /\ \A p \in D : \E i \in 1..c : Nth(D, i) = p
  BY <1>1, EventsAtAre
<1>3. Repaired(th, from, n) = th \o new
  BY <1>2 DEF Repaired
<1>4. \A p \in D : th[p].seq \in Nat
  BY <1>1, EventFields
<1> HIDE DEF D, c, calls
<1>5. \A i \in 1..c : n + i - 1 \in Nat /\ calls[i].seq = th[Nth(D, i)].seq /\ Nth(D, i) \in D
  BY <1>2
<1>6. \A i \in 1..c : /\ Event("result", n + i - 1, Main, calls[i].seq) \in Events
                      /\ new[i].kind = "result" /\ new[i].use = th[Nth(D, i)].seq
  BY <1>4, <1>5 DEF Event, Events, Main, Kinds
<1>7. new \in Seq(Events) /\ DOMAIN new = 1..c
  BY <1>2, <1>6
<1> HIDE DEF new
<1>8. \A j \in DOMAIN new : new[j].kind = "result" /\ \E p \in D : new[j].use = th[p].seq
  BY <1>5, <1>6, <1>7
<1>9. ASSUME NEW p \in D PROVE \E j \in DOMAIN new : new[j].use = th[p].seq
  <2>1. PICK j \in 1..c : Nth(D, j) = p
    BY <1>2
  <2>2. new[j].use = th[p].seq
    BY <1>6, <2>1
  <2> QED
    BY <1>7, <2>2
<1> QED
  BY <1>3, <1>7, <1>8, <1>9 DEF D, RepairOf

\* A call that the repair of what follows a position misses has no result at all.
LEMMA DanglingIs ==
    ASSUME NEW th \in Seq(Events), Sound(th), NEW from \in Nat
    PROVE  /\ \A p \in Dangling(th, from) : p \in Calls(th) /\ ~HasResult(th, p)
           /\ \A p \in Calls(th) : ~HasResult(th, p) => p \in Dangling(th, 0)
<1>1. \A i \in DOMAIN th : i \in 1..Len(th) /\ i \in Nat /\ Len(th) \in Nat
  OBVIOUS
<1>2. ASSUME NEW p \in Dangling(th, from) PROVE p \in Calls(th) /\ ~HasResult(th, p)
  <2>1. p \in Calls(th) /\ p \in (from + 1)..Len(th)
    BY DEF Dangling, Calls
  <2>2. ASSUME NEW r \in Results(th), th[r].use = th[p].seq PROVE FALSE
    <3>1. p < r
      BY <2>1, <2>2 DEF Sound, ResultsFollow
    <3>2. r \in (from + 1)..Len(th) /\ th[r].kind = "result"
      BY <1>1, <2>1, <3>1 DEF Results
    <3> QED
      BY <2>2, <3>2 DEF Dangling
  <2> QED
    BY <2>1, <2>2 DEF HasResult
<1>3. ASSUME NEW p \in Calls(th), ~HasResult(th, p) PROVE p \in Dangling(th, 0)
  <2>1. p \in 1..Len(th) /\ th[p].kind = "call"
    BY <1>1 DEF Calls
  <2>2. \A k \in 1..Len(th) : ~(th[k].kind = "result" /\ th[k].use = th[p].seq)
    BY <1>1, <1>3 DEF HasResult, Results
  <2> QED
    BY <2>1, <2>2 DEF Dangling
<1> QED
  BY <1>2, <1>3

\* A repair from the start of the thread, one with nothing to do, or one that left no call
\* behind.
LEMMA RepairedReplies ==
    ASSUME NEW th \in Seq(Events), NEW n \in Nat, NEW from \in Nat, Sound(th), Under(th, n),
           Ordered(th), NEW q \in Nat, OpenFrom(th, q),
           NEW th2, th2 = Repaired(th, from, n),
           from = 0 \/ Complete(th) \/ Dangling(th2, 0) = {}
    PROVE  Ordered(th2) /\ Complete(th2)
<1>1. PICK new : RepairOf(th, from, n, new)
  BY RepairedIs
<1>2. /\ new \in Seq(Events) /\ th2 = th \o new
      /\ \A j \in DOMAIN new : /\ new[j].kind = "result"
                               /\ \E p \in Dangling(th, from) : new[j].use = th[p].seq
      /\ \A p \in Dangling(th, from) : \E j \in DOMAIN new : new[j].use = th[p].seq
  BY <1>1 DEF RepairOf
<1>3. \A j \in DOMAIN new : /\ new[j].kind = "result"
                            /\ \E i \in Calls(th) : ~HasResult(th, i) /\ new[j].use = th[i].seq
  BY <1>2, DanglingIs
<1>4. CallsDiffer(th)
  BY DEF Sound
<1>5. Ordered(th2)
  BY <1>2, <1>3, <1>4, AnsweredReplies
<1>6. CASE from = 0 \/ Complete(th)
  <2>1. \A i \in Calls(th) : HasResult(th, i) \/ \E j \in DOMAIN new : new[j].use = th[i].seq
    BY <1>2, <1>6, DanglingIs DEF Complete
  <2>2. Complete(th2)
    BY <1>2, <1>3, <1>4, <2>1, AnsweredReplies
  <2> QED
    BY <1>5, <2>2
<1>7. CASE Dangling(th2, 0) = {}
  <2>1. Sound(th2) /\ th2 \in Seq(Events)
    BY RepairedIsSound DEF Extends
  <2>2. Complete(th2)
    BY <1>7, <2>1, DanglingIs DEF Complete
  <2> QED
    BY <1>5, <2>2
<1> QED
  BY <1>6, <1>7

\* Calls, after a thread in which each call has its result.
LEMMA CalledReplies ==
    ASSUME NEW th \in Seq(Events), Ordered(th), Complete(th),
           NEW new \in Seq(Events), \A j \in DOMAIN new : new[j].kind = "call",
           ResultsFollow(th \o new)
    PROVE  Ordered(th \o new) /\ OpenFrom(th \o new, Len(th))
<1> DEFINE th2 == th \o new
           n == Len(th)
<1>1. /\ th2 \in Seq(Events) /\ n \in Nat
      /\ \A i \in DOMAIN th : i \in DOMAIN th2 /\ th2[i] = th[i] /\ i \in Nat /\ i <= n
      /\ \A i \in DOMAIN th2 : i \in Nat /\ (i \in DOMAIN th
             \/ (i - n \in DOMAIN new /\ th2[i] = new[i - n] /\ i > n))
      /\ DOMAIN th = 1..n /\ DOMAIN th2 = 1..Len(th2) /\ Len(th2) \in Nat
  OBVIOUS
<1>2. ResultsFollow(th2)
  OBVIOUS
<1> HIDE DEF th2, n
<1>3. \A i \in DOMAIN th2 : i > n => th2[i].kind = "call"
  BY <1>1
<1>4. Results(th2) = Results(th)
  BY <1>1, <1>3 DEF Results
<1>5. /\ \A i \in Calls(th) \cup Results(th) : i \in DOMAIN th /\ i \in Nat /\ i <= n /\ th2[i] = th[i]
      /\ \A i \in Calls(th) : i \in Calls(th2)
      /\ \A i \in Calls(th2) : i \in Nat /\ i <= Len(th2) /\ (i <= n => i \in Calls(th))
  BY <1>1 DEF Calls, Results
<1>6. Ordered(th2)
  <2>1. \A r \in Results(th2) : \E i \in Calls(th2) : th2[i].seq = th2[r].use
    BY <1>4, <1>5 DEF Ordered
  <2>2. ASSUME NEW i \in Calls(th2), NEW k \in Calls(th2), NEW r \in Results(th2),
               th2[r].use = th2[i].seq, i < k, k < r
        PROVE  AllCalls(th2, i, k)
    <3>1. i \in Calls(th) /\ k \in Calls(th) /\ r \in Results(th) /\ th[r].use = th[i].seq
      BY <1>1, <1>4, <1>5, <2>2
    <3>2. AllCalls(th, i, k)
      BY <2>2, <3>1 DEF Ordered
    <3> SUFFICES ASSUME NEW j \in i..k PROVE th2[j].kind = "call"
      BY DEF AllCalls
    <3>3. j \in DOMAIN th
      BY <1>1, <1>5, <3>1
    <3> QED
      BY <1>1, <3>2, <3>3 DEF AllCalls
  <2> QED
    BY <2>1, <2>2 DEF Ordered
<1>7. OpenFrom(th2, n)
  <2>1. \A i \in Calls(th2) : i <= n => \E r \in Results(th2) : r <= n /\ th2[r].use = th2[i].seq
    BY <1>4, <1>5 DEF Complete, HasResult
  <2>2. \A i \in Calls(th2) : i > n => ~HasResult(th2, i)
    BY <1>1, <1>2, <1>4, <1>5 DEF HasResult, ResultsFollow
  <2>3. ASSUME NEW i \in Calls(th2), NEW k \in Calls(th2), n < i, i < k PROVE AllCalls(th2, i, k)
    <3> SUFFICES ASSUME NEW j \in i..k PROVE th2[j].kind = "call"
      BY DEF AllCalls
    <3>1. j \in DOMAIN th2 /\ j > n
      BY <1>1, <1>5, <2>3
    <3> QED
      BY <1>3, <3>1
  <2> QED
    BY <2>1, <2>2, <2>3 DEF OpenFrom
<1> QED
  BY <1>6, <1>7 DEF th2, n

\* A compaction whose boundary separates no result from its call.
LEMMA CompactedReplies ==
    ASSUME Whole(thread, seq), turn \in Turns,
           turn.cut \in 1..Len(thread), turn.block < seq,
           Ordered(thread), Complete(thread), ~TailHasDanglingToolResult(thread, turn.cut)
    PROVE  Ordered(Compacted) /\ Complete(Compacted)
<1> DEFINE th2 == Compacted
           cut == turn.cut
<1>1. /\ Sound(thread) /\ cut \in Nat /\ thread \in Seq(Events) /\ Len(thread) \in Nat
      /\ DOMAIN thread = 1..Len(thread)
  BY DEF Whole
<1>2. PICK d : CompactedTo(th2, d)
  BY CompactedIs
<1>3. ~TailHasDanglingToolResult(thread, cut)
  OBVIOUS
<1> HIDE DEF th2, cut
<1>4. th2 \in Seq(Events) /\ d \in Nat
  BY <1>2 DEF CompactedTo
<1> DEFINE at(i) == cut + (i - d)
           to(k) == d + (k - cut)
<1>5. \A k \in DOMAIN thread : k > cut => to(k) \in DOMAIN th2 /\ th2[to(k)] = thread[k]
  BY <1>2 DEF CompactedTo, cut
<1>6. \A i \in DOMAIN th2 : i \in Nat /\
          ( \/ th2[i].kind \in {"notice", "fact", "block"}
            \/ i > d /\ at(i) \in DOMAIN thread /\ th2[i] = thread[at(i)])
  BY <1>2, <1>4 DEF CompactedTo, cut
<1>7. \A i \in Calls(th2) : i \in Nat /\ i > d /\ at(i) \in Calls(thread) /\ th2[i] = thread[at(i)]
  BY <1>6 DEF Calls
<1>8. \A r \in Results(th2) : r \in Nat /\ r > d /\ at(r) \in Results(thread) /\ th2[r] = thread[at(r)]
  BY <1>6 DEF Results
<1>9. \A i, k \in Nat : /\ i < k => at(i) < at(k)
                        /\ i > d => at(i) > cut /\ at(i) \in Nat
                        /\ to(at(i)) = i
  BY <1>1, <1>4
<1>10. \A k \in Nat : k > cut => to(k) \in Nat /\ to(k) > d /\ at(to(k)) = k
  BY <1>1, <1>4
<1>11. \A k \in Calls(thread) : k \in DOMAIN thread /\ k \in Nat
  BY <1>1 DEF Calls
<1>12. \A k \in Results(thread) : k \in DOMAIN thread /\ k \in Nat
  BY <1>1 DEF Results
<1>13. ASSUME NEW r \in Results(th2) PROVE \E i \in Calls(th2) : th2[i].seq = th2[r].use
  <2>1. at(r) \in (cut + 1)..Len(thread) /\ thread[at(r)].kind = "result"
    BY <1>1, <1>8, <1>9, <1>12 DEF Results
  <2>2. PICK k \in (cut + 1)..Len(thread) : thread[k].kind = "call" /\ thread[k].seq = thread[at(r)].use
    BY <1>3, <2>1 DEF TailHasDanglingToolResult
  <2>3. k \in DOMAIN thread /\ k > cut
    BY <1>1, <2>2
  <2>4. to(k) \in DOMAIN th2 /\ th2[to(k)] = thread[k]
    BY <1>5, <2>3
  <2>5. to(k) \in Calls(th2)
    BY <2>2, <2>4 DEF Calls
  <2> QED
    BY <1>8, <2>2, <2>4, <2>5
<1>14. ASSUME NEW i \in Calls(th2), NEW k \in Calls(th2), NEW r \in Results(th2),
              th2[r].use = th2[i].seq, i < k, k < r
       PROVE  AllCalls(th2, i, k)
  <2>1. /\ at(i) \in Calls(thread) /\ at(k) \in Calls(thread) /\ at(r) \in Results(thread)
        /\ thread[at(r)].use = thread[at(i)].seq /\ at(i) < at(k) /\ at(k) < at(r)
        /\ i \in Nat /\ i > d /\ k \in Nat
    BY <1>7, <1>8, <1>9, <1>14
  <2>2. AllCalls(thread, at(i), at(k))
    <3> HIDE DEF at
    <3> QED
      BY <2>1 DEF Ordered
  <2> SUFFICES ASSUME NEW j \in i..k PROVE th2[j].kind = "call"
    BY DEF AllCalls
  <2>3. at(j) \in at(i)..at(k) /\ j \in Nat /\ j > d /\ at(j) > cut
    BY <1>1, <1>4, <2>1
  <2>4. at(j) \in DOMAIN thread /\ thread[at(j)].kind = "call"
    <3>1. at(k) \in 1..Len(thread) /\ at(i) \in 1..Len(thread)
      BY <1>1, <1>11, <2>1
    <3> HIDE DEF at
    <3> QED
      BY <1>1, <2>2, <2>3, <3>1 DEF AllCalls
  <2>5. th2[to(at(j))] = thread[at(j)] /\ to(at(j)) = j
    <3>1. to(at(j)) = j
      BY <1>9, <2>3
    <3>2. th2[to(at(j))] = thread[at(j)]
      <4> HIDE DEF at, to
      <4> QED
        BY <1>5, <2>3, <2>4
    <3> QED
      BY <3>1, <3>2
  <2> QED
    BY <2>4, <2>5
<1>15. ASSUME NEW i \in Calls(th2) PROVE HasResult(th2, i)
  <2>1. at(i) \in Calls(thread) /\ th2[i] = thread[at(i)] /\ at(i) \in Nat /\ at(i) > cut
    BY <1>7, <1>9
  <2>2. PICK r \in Results(thread) : thread[r].use = thread[at(i)].seq
    <3> HIDE DEF at
    <3> QED
      BY <2>1 DEF Complete, HasResult
  <2>3. at(i) < r /\ r \in DOMAIN thread /\ r \in Nat
    <3> HIDE DEF at
    <3> QED
      BY <1>1, <1>12, <2>1, <2>2 DEF Sound, ResultsFollow
  <2>4. r > cut
    <3> HIDE DEF at
    <3> QED
      BY <1>1, <2>1, <2>3
  <2>5. to(r) \in DOMAIN th2 /\ th2[to(r)] = thread[r]
    BY <1>5, <2>3, <2>4
  <2>6. to(r) \in Results(th2)
    BY <2>2, <2>5 DEF Results
  <2> QED
    BY <2>1, <2>2, <2>5, <2>6 DEF HasResult
<1> QED
  BY <1>13, <1>14, <1>15 DEF Ordered, Complete, th2

-----------------------------------------------------------------------------
(* What each action does to calls and results.                             *)

\* No batch is open and nothing is compacted.
LEMMA Settled ==
    ASSUME Ordered(thread'), Complete(thread'), turn'.pc \in {"none", "model"},
           turn'.pc = "none" \/ status' = "running"
    PROVE  TurnReplies'
BY DEF TurnReplies

\* The thread has the same calls and results, and the turn is where it was.
LEMMA NotedReplies ==
    ASSUME TurnReplies, TurnTyped, Alike(thread, thread'), status' \in {status, "running"},
           turn'.pc = turn.pc, turn'.batch = turn.batch, turn'.aborted = turn.aborted,
           turn'.cut = turn.cut
    PROVE  TurnReplies'
<1>1. /\ Calls(thread') = Calls(thread) /\ Results(thread') = Results(thread)
      /\ \A i \in DOMAIN thread : i \in DOMAIN thread' /\ thread'[i] = thread[i]
      /\ DOMAIN thread = 1..Len(thread) /\ Len(thread) \in Nat
      /\ DOMAIN thread' = 1..Len(thread') /\ Len(thread') \in Nat
  BY DEF Alike
<1>2. \A i \in Calls(thread) : i \in DOMAIN thread /\ thread'[i] = thread[i]
  BY <1>1 DEF Calls
<1>3. Ordered(thread') /\ (turn'.pc # "tools" => Complete(thread'))
  BY AlikeReplies DEF TurnReplies
<1>4. BatchIsOpen => BatchIsOpen'
  <2> SUFFICES ASSUME BatchIsOpen PROVE BatchIsOpen'
    OBVIOUS
  <2>1. PICK q \in 0..Len(thread) :
          /\ OpenFrom(thread, q)
          /\ \A i \in Calls(thread) : i > q => \E k \in DOMAIN turn.batch : turn.batch[k].use = thread[i].seq
          /\ \A k \in DOMAIN turn.batch :
                 \E i \in Calls(thread) : i > q /\ turn.batch[k].use = thread[i].seq
    BY DEF BatchIsOpen
  <2>2. q \in 0..Len(thread') /\ OpenFrom(thread', q)
    BY <2>1, AlikeReplies
  <2>3. \A i \in Calls(thread') : i > q =>
            \E k \in DOMAIN turn'.batch : turn'.batch[k].use = thread'[i].seq
    BY <1>1, <1>2, <2>1
  <2>4. \A k \in DOMAIN turn'.batch :
            \E i \in Calls(thread') : i > q /\ turn'.batch[k].use = thread'[i].seq
    BY <1>1, <1>2, <2>1
  <2> QED
    BY <2>2, <2>3, <2>4 DEF BatchIsOpen
<1>5. ASSUME ~TailHasDanglingToolResult(thread, turn.cut)
      PROVE  ~TailHasDanglingToolResult(thread', turn'.cut)
  <2>1. turn.cut \in Nat
    BY TurnFields
  <2> DEFINE c == turn.cut
  <2> SUFFICES ASSUME NEW i \in (c + 1)..Len(thread'), thread'[i].kind = "result"
               PROVE  \E k \in (c + 1)..Len(thread') : thread'[k].kind = "call" /\ thread'[k].seq = thread'[i].use
    BY DEF TailHasDanglingToolResult
  <2>2. i \in Results(thread') /\ i \in Results(thread)
    BY <1>1, <2>1 DEF Results
  <2>3. i \in DOMAIN thread /\ thread'[i] = thread[i] /\ i \in (c + 1)..Len(thread)
    BY <1>1, <2>1, <2>2 DEF Results
  <2>4. PICK k \in (c + 1)..Len(thread) : thread[k].kind = "call" /\ thread[k].seq = thread[i].use
    BY <1>5, <2>3 DEF TailHasDanglingToolResult
  <2>5. k \in DOMAIN thread
    BY <1>1, <2>1, <2>4
  <2>6. k \in (c + 1)..Len(thread') /\ thread'[k] = thread[k]
    BY <1>1, <2>1, <2>4, <2>5
  <2> QED
    BY <2>3, <2>4, <2>6
<1> QED
  BY <1>3, <1>4, <1>5 DEF TurnReplies

\* The turn goes on, ends, or is compacted first.
LEMMA ProceedReplies ==
    ASSUME NEW th \in Seq(Events), NEW n \in Nat, Ordered(th), Complete(th), here \in Nat,
           TurnTyped, turn.pc \in {"model", "tools"}, turn.aborted = FALSE, status = "running",
           NEW after, Proceed(th, n, after)
    PROVE  TurnReplies'
<1>1. CASE Finish(th, n)
  BY <1>1, NoTurnTyped, Settled DEF Finish
<1>2. CASE thread' = th /\ turn' = [turn EXCEPT !.pc = "model", !.batch = <<>>, !.at = 0]
           /\ UNCHANGED <<told, status>>
  <2>1. turn'.pc = "model"
    BY <1>2 DEF TurnTyped, Turns
  <2> QED
    BY <1>2, <2>1, Settled
<1>3. CASE Block(th, n, {})
  <2>1. thread' = Append(th, Event("notice", n, here, 0)) /\ turn' = NoTurn
    BY <1>3 DEF Block
  <2>2. Alike(th, thread')
    BY <2>1, NotedIsAlike DEF Kinds
  <2> QED
    BY <2>1, <2>2, NoTurnTyped, AlikeReplies, Settled
<1>4. ASSUME NEW c \in DOMAIN th, IsBoundary(th, c), thread' = th, status' = status,
             turn' = [turn EXCEPT !.pc = IF after = "mid" THEN "compactMid" ELSE "compactEnd",
                                  !.cut = c, !.block = n, !.batch = <<>>, !.at = 0]
      PROVE  TurnReplies'
  <2>1. turn'.pc \in {"compactMid", "compactEnd"} /\ turn'.cut = c /\ turn'.aborted = turn.aborted
    BY <1>4 DEF TurnTyped, Turns
  <2>2. ~TailHasDanglingToolResult(th, c)
    BY <1>4 DEF IsBoundary
  <2> QED
    BY <1>4, <2>1, <2>2 DEF TurnReplies
<1> QED
  BY <1>1, <1>2, <1>3, <1>4, Zenon DEF Proceed

\* Steps that write nothing.
LEMMA QuietReplies ==
    ASSUME ThreadInv, TurnReplies,
           \/ RetryBlockedSession \/ Flush \/ \E z \in zombies : ZombieEnds(z)
           \/ \E c \in running : ToolEnds(c)
    PROVE  TurnReplies'
<1>1. thread' = thread /\ thread \in Seq(Events) /\ turn \in Turns /\ TurnTyped
  BY StoreFacts DEF RetryBlockedSession, Flush, ZombieEnds, ToolEnds, storeVars, metaVars
<1>2. Alike(thread, thread')
  BY <1>1 DEF Alike
<1>3. status' \in {status, "running"}
  BY DEF RetryBlockedSession, Flush, ZombieEnds, ToolEnds, storeVars, metaVars
<1>4. /\ turn'.pc = turn.pc /\ turn'.batch = turn.batch /\ turn'.aborted = turn.aborted
      /\ turn'.cut = turn.cut
  <2>1. CASE UNCHANGED turn
    BY <2>1
  <2>2. CASE StartChunk(turn, turn.at)
    <3>1. turn' = [turn EXCEPT !.at = turn.at + Cardinality(Chunk(turn.batch, turn.at))]
      BY <2>2 DEF StartChunk
    <3> QED
      BY <1>1, <3>1 DEF Turns
  <2>3. UNCHANGED turn \/ StartChunk(turn, turn.at)
    BY Zenon DEF RetryBlockedSession, Flush, ZombieEnds, ToolEnds
  <2> QED
    BY <2>1, <2>2, <2>3
<1> QED
  BY <1>1, <1>2, <1>3, <1>4, NotedReplies

LEMMA SayReplies ==
    ASSUME ThreadInv, TurnReplies, NEW b \in Nat, Say(b)
    PROVE  TurnReplies'
<1>1. /\ thread' = Append(thread, Event("user", seq, b, 0)) /\ status' = "running"
      /\ UNCHANGED turn
  BY DEF Say
<1>2. Alike(thread, thread')
  BY <1>1, StoreFacts, NotedIsAlike DEF Kinds
<1> QED
  BY <1>1, <1>2, StoreFacts, NotedReplies

LEMMA NotesReplies ==
    ASSUME ThreadInv, TurnReplies,
           ProviderStatus \/ ToolRecords \/ \E z \in zombies : ZombieRecords(z)
    PROVE  TurnReplies'
<1>1. PICK kind \in {"notice", "fact"}, b \in Nat :
          /\ thread' = Append(thread, Event(kind, seq, b, 0))
          /\ \/ turn' = turn
             \/ turn' = [turn EXCEPT !.cursor = Len(thread')]
          /\ UNCHANGED status
  <2>1. turn.branch \in Nat /\ \A z \in zombies : z.branch \in Nat
    BY StoreFacts, TurnFields
  <2> QED
    BY <2>1 DEF ProviderStatus, ToolRecords, ZombieRecords, AppendPushed, metaVars
<1>2. Alike(thread, thread')
  BY <1>1, StoreFacts, NotedIsAlike DEF Kinds
<1>3. /\ turn'.pc = turn.pc /\ turn'.batch = turn.batch /\ turn'.aborted = turn.aborted
      /\ turn'.cut = turn.cut
  BY <1>1, StoreFacts DEF Turns
<1> QED
  BY <1>1, <1>2, <1>3, StoreFacts, NotedReplies

\* What is so while the model is awaited.
LEMMA AwaitsModel ==
    ASSUME ThreadInv, TurnReplies, turn.pc = "model"
    PROVE  /\ turn.aborted = FALSE /\ status = "running"
           /\ Ordered(thread) /\ Complete(thread)
<1>1. turn.aborted = FALSE
  BY StoreFacts, TurnFields DEF ThreadInv, CompactInv
<1> QED
  BY <1>1 DEF TurnReplies

LEMMA ReadinessReplies ==
    ASSUME ThreadInv, TurnReplies, ReadinessBlocks
    PROVE  TurnReplies'
<1> DEFINE notice == Event("notice", seq, turn.branch, 0)
           fact == Event("fact", seq + 1, turn.branch, 0)
           th == Append(Append(thread, notice), fact)
<1>1. thread \o <<notice, fact>> = th
  <2> HIDE DEF notice, fact
  <2> QED
    BY StoreFacts
<1>2. /\ turn.pc = "model"
      /\ \/ Block(th, seq + 2, NewSince(th, turn.cursor, FALSE))
         \/ /\ thread' = th /\ turn' = [turn EXCEPT !.blocks = @ + 1, !.cursor = Len(th)]
            /\ UNCHANGED status
  <2> HIDE DEF th
  <2> QED
    BY <1>1 DEF ReadinessBlocks
<1>3. Alike(thread, th)
  <2>1. turn.branch \in Nat /\ seq \in Nat /\ thread \in Seq(Events)
    BY StoreFacts, TurnFields
  <2>2. Alike(thread, Append(thread, notice))
    BY <2>1, NotedIsAlike DEF Kinds
  <2>3. Append(thread, notice) \in Seq(Events)
    BY <2>2 DEF Alike
  <2>4. Alike(Append(thread, notice), th)
    <3>1. "fact" \in Kinds \ {"call", "result"} /\ seq + 1 \in Nat
      BY <2>1 DEF Kinds
    <3> QED
      BY <2>1, <2>3, <3>1, NotedIsAlike
  <2> QED
    BY <2>2, <2>4, AlikeTwice
<1> HIDE DEF th
<1>4. CASE Block(th, seq + 2, NewSince(th, turn.cursor, FALSE))
  <2>1. thread' = Append(th, Event("notice", seq + 2, here, 0)) /\ turn' = NoTurn
    BY <1>4 DEF Block
  <2>2. th \in Seq(Events) /\ seq + 2 \in Nat /\ here \in Nat
    BY <1>3, StoreFacts DEF Alike
  <2>3. Alike(th, thread')
    BY <2>1, <2>2, NotedIsAlike DEF Kinds
  <2>4. Ordered(thread') /\ Complete(thread')
    BY <1>2, <1>3, <2>3, AwaitsModel, AlikeReplies
  <2> QED
    BY <2>1, <2>4, NoTurnTyped, Settled
<1>5. CASE /\ thread' = th /\ turn' = [turn EXCEPT !.blocks = @ + 1, !.cursor = Len(th)]
           /\ UNCHANGED status
  <2>1. /\ turn'.pc = turn.pc /\ turn'.batch = turn.batch /\ turn'.aborted = turn.aborted
        /\ turn'.cut = turn.cut
    BY <1>5, StoreFacts DEF Turns
  <2> QED
    BY <1>3, <1>5, <2>1, StoreFacts, NotedReplies
<1> QED
  BY <1>2, <1>4, <1>5

LEMMA AnswersReplies ==
    ASSUME ThreadInv, TurnReplies, ModelStops \/ ModelFails
    PROVE  TurnReplies'
<1>1. turn.pc = "model"
  BY DEF ModelStops, ModelFails
<1>2. /\ Ordered(thread) /\ Complete(thread) /\ turn.aborted = FALSE /\ status = "running"
      /\ thread \in Seq(Events) /\ seq \in Nat /\ seq + 1 \in Nat /\ here \in Nat /\ TurnTyped
  <2>1. thread \in Seq(Events) /\ seq \in Nat /\ here \in Nat /\ TurnTyped
    BY StoreFacts
  <2>2. seq + 1 \in Nat
    BY <2>1
  <2> QED
    BY <1>1, <2>1, <2>2, AwaitsModel, Zenon
<1>3. CASE ModelStops
  <2> DEFINE th == Append(thread, Event("assistant", seq, turn.branch, 0))
  <2>1. Alike(thread, th)
    BY <1>2, TurnFields, NotedIsAlike DEF Kinds
  <2>2. Proceed(th, seq + 1, "end")
    BY <1>3 DEF ModelStops
  <2> HIDE DEF th
  <2>3. th \in Seq(Events) /\ Ordered(th) /\ Complete(th)
    BY <1>2, <2>1, AlikeReplies DEF Alike
  <2> QED
    BY <1>1, <1>2, <2>2, <2>3, ProceedReplies
<1>4. CASE ModelFails
  <2>1. thread' = Append(thread, Event("notice", seq, here, 0)) /\ turn' = NoTurn
    BY <1>4 DEF ModelFails, Block
  <2>2. Alike(thread, thread')
    BY <1>2, <2>1, NotedIsAlike DEF Kinds
  <2> QED
    BY <1>2, <2>1, <2>2, AlikeReplies, NoTurnTyped, Settled
<1> QED
  BY <1>3, <1>4

LEMMA StartReplies ==
    ASSUME ThreadInv, TurnReplies, StartTurn
    PROVE  TurnReplies'
<1>1. thread' = thread /\ turn'.pc = "model" /\ status' = "running" /\ turn.pc = "none"
  BY NoTurnTyped DEF StartTurn, storeVars, metaVars, Live, NoTurn
<1>2. Ordered(thread) /\ Complete(thread)
  BY <1>1 DEF TurnReplies
<1> QED
  BY <1>1, <1>2, Settled

\* The model asks for tools: their calls are the ones without results.
LEMMA ModelCallsReplies ==
    ASSUME ThreadInv, TurnReplies, NEW n \in 1..BatchSize, NEW safe \in [1..n -> BOOLEAN],
           ModelCalls(safe)
    PROVE  TurnReplies'
<1> DEFINE new == [k \in 1..n |-> Event("call", seq + k - 1, turn.branch, 0)]
           batch == [k \in 1..n |-> [use |-> seq + k - 1, safe |-> safe[k]]]
           asking == [turn EXCEPT !.pc = "tools", !.blocks = 0, !.batch = batch]
<1>1. n \in Nat /\ n > 0 /\ Len(safe) = n /\ turn.branch \in Nat
  <2>1. n \in Nat /\ n > 0 /\ DOMAIN safe = 1..n /\ safe \in Seq(BOOLEAN)
    BY ThreadAssumptions
  <2> QED
    BY <2>1, StoreFacts, TurnFields
<1>2. /\ turn.pc = "model" /\ thread' = thread \o new /\ StartChunk(asking, 0)
      /\ status' = status
  BY <1>1 DEF ModelCalls, metaVars
<1>3. /\ thread \in Seq(Events) /\ seq \in Nat /\ turn \in Turns /\ Len(thread) \in Nat
      /\ Ordered(thread) /\ Complete(thread) /\ turn.aborted = FALSE /\ status = "running"
  BY <1>2, StoreFacts, AwaitsModel, Zenon
<1>4. ResultsFollow(thread')
  BY ModelCallsKeeps DEF ThreadInv, Whole, Sound
<1>5. \A k \in 1..n : Event("call", seq + k - 1, turn.branch, 0) \in Events
  BY <1>1, <1>3 DEF Event, Events, Kinds
<1>6. /\ new \in Seq(Events) /\ DOMAIN new = 1..n /\ Len(new) = n
      /\ \A k \in 1..n : new[k].kind = "call" /\ new[k].seq = seq + k - 1
  BY <1>1, <1>5 DEF Event
<1>7. DOMAIN batch = 1..n /\ \A k \in 1..n : batch[k].use = seq + k - 1
  OBVIOUS
<1>8. turn'.pc = "tools" /\ turn'.batch = batch /\ turn'.aborted = FALSE
  <2> HIDE DEF batch
  <2>1. asking.pc = "tools" /\ asking.batch = batch /\ asking.aborted = FALSE
    BY <1>3 DEF Turns
  <2>2. turn' = [asking EXCEPT !.at = 0 + Cardinality(Chunk(asking.batch, 0))]
    BY <1>2 DEF StartChunk
  <2>3. DOMAIN asking = DOMAIN turn /\ DOMAIN turn = {"pc", "branch", "forked", "start", "cursor",
             "aborted", "blocks", "batch", "at", "cut", "block"}
    BY <1>3 DEF Turns
  <2> HIDE DEF asking
  <2> QED
    BY <2>1, <2>2, <2>3
<1> HIDE DEF new, batch, asking
<1>9. Ordered(thread') /\ OpenFrom(thread', Len(thread))
  BY <1>2, <1>3, <1>4, <1>6, CalledReplies
<1>10. /\ \A i \in DOMAIN thread' : i > Len(thread) =>
              i - Len(thread) \in 1..n /\ thread'[i] = new[i - Len(thread)]
       /\ \A k \in 1..n : /\ Len(thread) + k \in DOMAIN thread' /\ Len(thread) + k > Len(thread)
                          /\ thread'[Len(thread) + k] = new[k]
       /\ Len(thread) \in 0..Len(thread')
  BY <1>1, <1>2, <1>3, <1>6
<1>11. BatchIsOpen'
  <2>1. \A i \in Calls(thread') : i > Len(thread) =>
            \E k \in DOMAIN turn'.batch : turn'.batch[k].use = thread'[i].seq
    <3> SUFFICES ASSUME NEW i \in DOMAIN thread', i > Len(thread)
                 PROVE  \E k \in 1..n : batch[k].use = thread'[i].seq
      BY <1>7, <1>8 DEF Calls
    <3>1. i - Len(thread) \in 1..n /\ thread'[i] = new[i - Len(thread)]
      BY <1>10
    <3>2. batch[i - Len(thread)].use = new[i - Len(thread)].seq
      BY <1>6, <1>7, <3>1
    <3> QED
      BY <3>1, <3>2
  <2>2. \A k \in DOMAIN turn'.batch :
            \E i \in Calls(thread') : i > Len(thread) /\ turn'.batch[k].use = thread'[i].seq
    <3> SUFFICES ASSUME NEW k \in 1..n
                 PROVE  \E i \in Calls(thread') : i > Len(thread) /\ batch[k].use = thread'[i].seq
      BY <1>7, <1>8
    <3>1. Len(thread) + k \in Calls(thread') /\ Len(thread) + k > Len(thread)
      BY <1>6, <1>10 DEF Calls
    <3>2. batch[k].use = thread'[Len(thread) + k].seq
      BY <1>6, <1>7, <1>10
    <3> QED
      BY <3>1, <3>2
  <2> QED
    BY <1>9, <1>10, <2>1, <2>2 DEF BatchIsOpen
<1> QED
  BY <1>2, <1>3, <1>8, <1>9, <1>11 DEF TurnReplies

\* The batch ends: its calls get their results.
LEMMA BatchEndsReplies ==
    ASSUME ThreadInv, TurnReplies, BatchEnds
    PROVE  TurnReplies'
<1> DEFINE n == Len(turn.batch)
           new == [k \in 1..n |-> Event("result", seq + k - 1, turn.branch, turn.batch[k].use)]
           th == thread \o new
<1>1. turn.pc = "tools"
  <2>1. Cardinality(running) = 1
    BY DEF BatchEnds
  <2>2. Cardinality({}) = 0
    BY FS_EmptySet
  <2>3. running # {}
    BY <2>1, <2>2
  <2> QED
    BY <2>3 DEF ThreadInv, BatchInv
<1>2. n \in Nat /\ turn.batch \in Batches /\ DOMAIN turn.batch = 1..n /\ turn.branch \in Nat
  BY StoreFacts, TurnFields DEF Batches
<1>3. /\ thread \in Seq(Events) /\ seq \in Nat /\ here \in Nat /\ TurnTyped /\ CallsDiffer(thread)
      /\ seq + n \in Nat
  BY <1>2, StoreFacts DEF Sound
<1>4. turn.aborted = FALSE /\ status = "running" /\ Ordered(thread)
  <2>1. turn.aborted = FALSE
    BY <1>1, <1>3, TurnFields DEF ThreadInv, CompactInv
  <2> QED
    BY <1>1, <2>1 DEF TurnReplies
<1>5. PICK q \in 0..Len(thread) :
          /\ OpenFrom(thread, q)
          /\ \A i \in Calls(thread) : i > q => \E k \in DOMAIN turn.batch : turn.batch[k].use = thread[i].seq
          /\ \A k \in DOMAIN turn.batch :
                 \E i \in Calls(thread) : i > q /\ turn.batch[k].use = thread[i].seq
  BY <1>1 DEF TurnReplies, BatchIsOpen
<1>6. q \in Nat /\ \A i \in Calls(thread) : i \in Nat
  BY <1>3, <1>5 DEF Calls
<1>7. \A k \in 1..n : turn.batch[k].use \in Nat /\ seq + k - 1 \in Nat
  BY <1>2, <1>3, CallFields
<1>8. \A k \in 1..n : Event("result", seq + k - 1, turn.branch, turn.batch[k].use) \in Events
  BY <1>2, <1>7 DEF Event, Events, Kinds
<1>9. /\ new \in Seq(Events) /\ DOMAIN new = 1..n
      /\ \A k \in 1..n : new[k].kind = "result" /\ new[k].use = turn.batch[k].use
  BY <1>2, <1>8 DEF Event
<1>10. \/ Proceed(th, seq + n, "mid")
       \/ Finish(Append(th, Event("assistant", seq + n, turn.branch, 0)), seq + n + 1)
  BY Zenon DEF BatchEnds
<1> HIDE DEF new
<1>11. th \in Seq(Events)
  BY <1>3, <1>9
<1>12. Ordered(th) /\ Complete(th)
  <2>1. ASSUME NEW j \in DOMAIN new
        PROVE  new[j].kind = "result" /\ \E i \in Calls(thread) : ~HasResult(thread, i) /\ new[j].use = thread[i].seq
    BY <1>2, <1>5, <1>9 DEF OpenFrom
  <2>2. ASSUME NEW i \in Calls(thread)
        PROVE  HasResult(thread, i) \/ \E j \in DOMAIN new : new[j].use = thread[i].seq
    <3>1. CASE i <= q
      BY <1>5, <3>1 DEF OpenFrom, HasResult
    <3>2. CASE i > q
      BY <1>2, <1>5, <1>9, <3>2
    <3> QED
      BY <1>6, <3>1, <3>2
  <2> QED
    BY <1>3, <1>4, <1>5, <1>6, <1>9, <2>1, <2>2, AnsweredReplies
<1> HIDE DEF th, n
<1>13. CASE Proceed(th, seq + n, "mid")
  BY <1>1, <1>3, <1>4, <1>11, <1>12, <1>13, ProceedReplies
<1>14. CASE Finish(Append(th, Event("assistant", seq + n, turn.branch, 0)), seq + n + 1)
  <2>1. Alike(th, Append(th, Event("assistant", seq + n, turn.branch, 0)))
    BY <1>2, <1>3, <1>11, NotedIsAlike DEF Kinds
  <2>2. Ordered(thread') /\ Complete(thread') /\ turn' = NoTurn
    BY <1>12, <1>14, <2>1, AlikeReplies DEF Finish
  <2> QED
    BY <2>2, NoTurnTyped, Settled
<1> QED
  BY <1>10, <1>13, <1>14

\* In every state some position of the thread parts answered calls from open ones.
LEMMA OpensSomewhere ==
    ASSUME ThreadInv, TurnReplies
    PROVE  \E q \in 0..Len(thread) : OpenFrom(thread, q)
<1>1. thread \in Seq(Events) /\ Len(thread) \in 0..Len(thread)
  BY StoreFacts
<1>2. CASE turn.pc = "tools"
  BY <1>2 DEF TurnReplies, BatchIsOpen
<1>3. CASE turn.pc # "tools"
  BY <1>1, <1>3, CompleteIsOpen DEF TurnReplies
<1> QED
  BY <1>2, <1>3

\* An abort that leaves no call of its turn behind.
LEMMA InterruptReplies ==
    ASSUME ThreadInv, TurnReplies, InterruptSession, forgotten' = FALSE
    PROVE  TurnReplies'
<1> DEFINE th == Repaired(thread, turn.start, seq)
<1>1. /\ turn' = IF turn.pc \in {"compactMid", "compactEnd"}
                 THEN [turn EXCEPT !.aborted = TRUE, !.cursor = Len(th)] ELSE NoTurn
      /\ \/ Live /\ thread' = th
         \/ ~Live /\ thread' = thread
  <2> HIDE DEF th
  <2> QED
    BY DEF InterruptSession, th
<1>2. Live => Dangling(th, 0) = {}
  <2> HIDE DEF th
  <2> QED
    BY Zenon DEF InterruptSession, th
<1>3. /\ thread \in Seq(Events) /\ Sound(thread) /\ Under(thread, seq) /\ seq \in Nat
      /\ Len(thread) \in Nat /\ turn \in Turns
  BY StoreFacts
<1>4. turn.start \in Nat
  BY StoreFacts, TurnFields
<1>5. PICK q \in 0..Len(thread) : OpenFrom(thread, q)
  BY OpensSomewhere
<1>6. Ordered(thread') /\ Complete(thread')
  <2>1. CASE Live /\ thread' = th
    <3>1. q \in Nat /\ Ordered(thread)
      BY <1>3, <1>5 DEF TurnReplies
    <3>2. Dangling(thread', 0) = {}
      BY <1>2, <2>1
    <3> QED
      BY <1>3, <1>4, <1>5, <2>1, <3>1, <3>2, RepairedReplies
  <2>2. CASE ~Live /\ thread' = thread
    BY <2>2 DEF TurnReplies, Live
  <2> QED
    BY <1>1, <2>1, <2>2
<1> HIDE DEF th
<1>7. CASE turn.pc \in {"compactMid", "compactEnd"}
  <2>1. turn' = [turn EXCEPT !.aborted = TRUE, !.cursor = Len(th)]
    BY <1>1, <1>7
  <2>2. turn'.pc = turn.pc /\ turn'.aborted = TRUE
    BY <1>3, <2>1 DEF Turns
  <2> QED
    BY <1>6, <1>7, <2>2 DEF TurnReplies
<1>8. CASE turn.pc \notin {"compactMid", "compactEnd"}
  BY <1>1, <1>6, <1>8, NoTurnTyped, Settled
<1> QED
  BY <1>7, <1>8

LEMMA CompactingReplies ==
    ASSUME ThreadInv, TurnReplies, CompactDone \/ CompactFails \/ CompactAborted
    PROVE  TurnReplies'
<1>1. turn.pc \in {"compactMid", "compactEnd"}
  BY DEF CompactDone, CompactFails, CompactAborted, ThreadInv, CompactInv
<1>2. /\ turn.cut \in 1..Len(thread) /\ turn.block < seq
      /\ thread \in Seq(Events) /\ Sound(thread) /\ Under(thread, seq) /\ seq \in Nat
      /\ Len(thread) \in Nat /\ turn \in Turns /\ here \in Nat /\ Whole(thread, seq)
  BY <1>1, StoreFacts DEF ThreadInv, CompactInv
<1>3. Ordered(thread) /\ Complete(thread)
  BY <1>1 DEF TurnReplies
<1>4. turn.aborted \in BOOLEAN /\ turn.start \in Nat
  BY StoreFacts, TurnFields
<1>5. CASE CompactDone
  <2>1. turn.aborted = FALSE
    BY <1>4, <1>5 DEF CompactDone
  <2>2. status = "running" /\ ~TailHasDanglingToolResult(thread, turn.cut)
    BY <1>1, <2>1 DEF TurnReplies
  <2>3. Ordered(Compacted) /\ Complete(Compacted)
    BY <1>2, <1>3, <2>2, CompactedReplies
  <2>4. \/ /\ thread' = Compacted /\ turn' = [turn EXCEPT !.pc = "model", !.cut = 0, !.block = 0]
           /\ status' = status
        \/ thread' = Compacted /\ turn' = NoTurn
    BY <1>5 DEF CompactDone, Finish
  <2>5. turn'.pc = "none" \/ (turn'.pc = "model" /\ status' = "running")
    BY <1>2, <2>2, <2>4, NoTurnTyped DEF Turns
  <2> QED
    BY <2>3, <2>4, <2>5, Settled
<1>6. CASE CompactFails
  <2>1. thread' = Append(thread, Event("notice", seq, here, 0)) /\ turn' = NoTurn
    BY <1>6 DEF CompactFails, Block
  <2>2. Alike(thread, thread')
    BY <1>2, <2>1, NotedIsAlike DEF Kinds
  <2> QED
    BY <1>3, <2>1, <2>2, AlikeReplies, NoTurnTyped, Settled
<1>7. CASE CompactAborted
  <2>1. thread' = Repaired(thread, turn.start, seq) /\ turn' = NoTurn
    BY <1>7 DEF CompactAborted
  <2>2. OpenFrom(thread, Len(thread))
    BY <1>2, <1>3, CompleteIsOpen
  <2>3. Ordered(thread') /\ Complete(thread')
    BY <1>2, <1>3, <1>4, <2>1, <2>2, RepairedReplies
  <2> QED
    BY <2>1, <2>3, NoTurnTyped, Settled
<1> QED
  BY <1>5, <1>6, <1>7

\* A restart: a result for each call that has none, if the session was running.
LEMMA CrashReplies ==
    ASSUME ThreadInv, DiskReplies, CrashAndRestart
    PROVE  TurnReplies' /\ DiskReplies'
<1> DEFINE last == Highest(disk.thread)
           th == Repaired(disk.thread, 0, last + 1)
           n == last + 1 + Len(th) - Len(disk.thread)
<1>1. /\ turn' = NoTurn /\ disk' = disk
      /\ \/ thread' = Append(th, Event("notice", n, Main, 0))
         \/ disk.status # "running" /\ thread' = disk.thread
  <2> HIDE DEF th
  <2> QED
    BY DEF CrashAndRestart, th
<1>2. PICK m \in 1..(MaxSeq + 1) : Whole(disk.thread, m)
  BY StoreFacts DEF DiskOK
<1>3. last + 1 \in Nat /\ Under(disk.thread, last + 1)
  BY <1>2, HighestIs
<1>4. disk.thread \in Seq(Events) /\ Sound(disk.thread) /\ Len(disk.thread) \in Nat
  BY <1>2 DEF Whole
<1>5. PICK q \in 0..Len(disk.thread) : OpenFrom(disk.thread, q)
  BY DEF DiskReplies
<1>6. Ordered(th) /\ Complete(th) /\ th \in Seq(Events) /\ n \in Nat
  <2>1. q \in Nat /\ Ordered(disk.thread)
    BY <1>4, <1>5 DEF DiskReplies
  <2>2. Ordered(th) /\ Complete(th)
    BY <1>3, <1>4, <1>5, <2>1, RepairedReplies
  <2>3. Extends(disk.thread, th) /\ Len(th) \in Nat
    BY <1>3, <1>4, RepairedIsSound
  <2>4. Len(disk.thread) <= Len(th) /\ th \in Seq(Events)
    BY <2>3 DEF Extends
  <2> HIDE DEF th, last
  <2>5. n \in Nat
    BY <1>3, <1>4, <2>3, <2>4
  <2> QED
    BY <2>2, <2>4, <2>5
<1> HIDE DEF th, n
<1>7. Ordered(thread') /\ Complete(thread')
  <2>1. CASE thread' = Append(th, Event("notice", n, Main, 0))
    <3>1. Alike(th, thread')
      BY <1>6, <2>1, NotedIsAlike DEF Kinds, Main
    <3> QED
      BY <1>6, <3>1, AlikeReplies
  <2>2. CASE disk.status # "running" /\ thread' = disk.thread
    BY <2>2 DEF DiskReplies
  <2> QED
    BY <1>1, <2>1, <2>2
<1>8. DiskReplies'
  BY <1>1 DEF DiskReplies
<1> QED
  BY <1>1, <1>7, <1>8, NoTurnTyped, Settled

LEMMA FlushReplies ==
    ASSUME ThreadInv, TurnReplies, Flush
    PROVE  DiskReplies'
<1>1. disk' = [thread |-> thread, branches |-> branches, here |-> here, status |-> status]
  BY DEF Flush
<1>2. disk'.thread = thread /\ disk'.status = status
  BY <1>1
<1>3. Ordered(thread) /\ \E q \in 0..Len(thread) : OpenFrom(thread, q)
  BY OpensSomewhere DEF TurnReplies
<1>4. status # "running" => Complete(thread)
  <2>1. turn.pc = "tools" => turn.aborted = FALSE
    BY StoreFacts, TurnFields DEF ThreadInv, CompactInv
  <2> QED
    BY <2>1 DEF TurnReplies
<1> QED
  BY <1>2, <1>3, <1>4 DEF DiskReplies

LEMMA RepliesInit == Init => ReplyInv
<1> SUFFICES ASSUME Init PROVE ReplyInv
  OBVIOUS
<1>1. /\ thread = <<>> /\ disk.thread = <<>> /\ turn = NoTurn /\ forgotten = FALSE
  BY DEF Init
<1>2. Calls(<<>>) = {} /\ Results(<<>>) = {} /\ Len(<<>>) = 0
  BY DEF Calls, Results
<1>3. Ordered(<<>>) /\ Complete(<<>>) /\ OpenFrom(<<>>, 0)
  BY <1>2 DEF Ordered, Complete, OpenFrom
<1>4. TurnReplies
  BY <1>1, <1>3, NoTurnTyped DEF TurnReplies
<1>5. 0 \in 0..Len(disk.thread) /\ OpenFrom(disk.thread, 0)
  BY <1>1, <1>2, <1>3
<1>6. DiskReplies
  BY <1>1, <1>3, <1>5, Zenon DEF DiskReplies
<1> QED
  BY <1>1, <1>4, <1>6 DEF ReplyInv

LEMMA RepliesNext == ThreadInv /\ ReplyInv /\ [Next]_vars => ReplyInv'
<1> SUFFICES ASSUME ThreadInv, ReplyInv, [Next]_vars PROVE ReplyInv'
  OBVIOUS
<1>1. CASE UNCHANGED vars
  <2>1. UNCHANGED <<thread, turn, status, disk, forgotten>>
    BY <1>1 DEF vars, storeVars, metaVars
  <2>2. TurnReplies <=> TurnReplies'
    BY <2>1 DEF TurnReplies, BatchIsOpen
  <2> QED
    BY <2>1, <2>2 DEF ReplyInv, DiskReplies
<1>2. ASSUME disk' = disk, forgotten' = forgotten, TurnReplies /\ DiskReplies => TurnReplies'
      PROVE  ReplyInv'
  <2>1. DiskReplies => DiskReplies'
    BY <1>2 DEF DiskReplies
  <2>2. forgotten' \in BOOLEAN /\ (~forgotten' => ~forgotten)
    BY <1>2 DEF ReplyInv
  <2>3. ~forgotten => TurnReplies /\ DiskReplies
    BY DEF ReplyInv
  <2> QED
    BY <1>2, <2>1, <2>2, <2>3, Zenon DEF ReplyInv
<1>3. ASSUME forgotten' \in BOOLEAN, ~forgotten' => ~forgotten,
             TurnReplies /\ DiskReplies /\ ~forgotten' => TurnReplies' /\ DiskReplies'
      PROVE  ReplyInv'
  BY <1>3, Zenon DEF ReplyInv
<1>4. forgotten \in BOOLEAN
  BY DEF ReplyInv
<1>5. ASSUME NEW b \in 1..MaxBranches, AppendUserMessage(b) PROVE ReplyInv'
  <2>1. b \in Nat /\ Say(b) /\ disk' = disk /\ forgotten' = forgotten
    BY <1>5 DEF AppendUserMessage, Say
  <2> QED
    BY <1>2, <2>1, SayReplies, Zenon
<1>6. ASSUME NEW i \in DOMAIN thread, CreateMessageVariant(i) PROVE ReplyInv'
  <2>1. Say(Len(branches) + 1) /\ Len(branches) + 1 \in Nat
    BY <1>6 DEF CreateMessageVariant, ThreadInv, MetaTyped, BranchesOK
  <2>2. disk' = disk /\ forgotten' = forgotten
    BY <2>1 DEF Say
  <2> QED
    BY <1>2, <2>1, <2>2, SayReplies, Zenon
<1>7. CASE RetryBlockedSession \/ (\E z \in zombies : ZombieEnds(z)) \/ \E c \in running : ToolEnds(c)
  <2>1. disk' = disk /\ forgotten' = forgotten
    BY <1>7 DEF RetryBlockedSession, ZombieEnds, ToolEnds
  <2> QED
    BY <1>2, <1>7, <2>1, QuietReplies, Zenon
<1>8. CASE Flush
  <2>1. forgotten' = forgotten
    BY <1>8 DEF Flush
  <2> QED
    BY <1>3, <1>4, <1>8, <2>1, QuietReplies, FlushReplies, Zenon
<1>9. CASE StartTurn
  <2>1. disk' = disk /\ forgotten' = forgotten
    BY <1>9 DEF StartTurn
  <2> QED
    BY <1>2, <1>9, <2>1, StartReplies, Zenon
<1>10. CASE ProviderStatus \/ ToolRecords \/ \E z \in zombies : ZombieRecords(z)
  <2>1. disk' = disk /\ forgotten' = forgotten
    BY <1>10 DEF ProviderStatus, ToolRecords, ZombieRecords
  <2> QED
    BY <1>2, <1>10, <2>1, NotesReplies, Zenon
<1>11. CASE ReadinessBlocks
  <2>1. disk' = disk /\ forgotten' = forgotten
    BY <1>11, Zenon DEF ReadinessBlocks
  <2> QED
    BY <1>2, <1>11, <2>1, ReadinessReplies, Zenon
<1>12. CASE ModelStops \/ ModelFails
  <2>1. disk' = disk /\ forgotten' = forgotten
    BY <1>12, Zenon DEF ModelStops, ModelFails
  <2> QED
    BY <1>2, <1>12, <2>1, AnswersReplies, Zenon
<1>13. ASSUME NEW n \in 1..BatchSize, NEW safe \in [1..n -> BOOLEAN], ModelCalls(safe)
       PROVE  ReplyInv'
  <2>1. disk' = disk /\ forgotten' = forgotten
    BY <1>13, Zenon DEF ModelCalls
  <2> QED
    BY <1>2, <1>13, <2>1, ModelCallsReplies, Zenon
<1>14. CASE BatchEnds
  <2>1. disk' = disk /\ forgotten' = forgotten
    BY <1>14, Zenon DEF BatchEnds
  <2> QED
    BY <1>2, <1>14, <2>1, BatchEndsReplies, Zenon
<1>15. CASE CompactDone \/ CompactFails \/ CompactAborted
  <2>1. disk' = disk /\ forgotten' = forgotten
    BY <1>15, Zenon DEF CompactDone, CompactFails, CompactAborted
  <2> QED
    BY <1>2, <1>15, <2>1, CompactingReplies, Zenon
<1>16. CASE InterruptSession
  <2>1. disk' = disk
    BY <1>16, Zenon DEF InterruptSession
  <2>2. forgotten' \in BOOLEAN /\ (~forgotten' => ~forgotten)
    <3>1. forgotten' = (forgotten \/ (Live /\ Dangling(Repaired(thread, turn.start, seq), 0) # {}))
      BY <1>16, Zenon DEF InterruptSession
    <3> QED
      BY <1>4, <3>1
  <2>3. DiskReplies => DiskReplies'
    BY <2>1 DEF DiskReplies
  <2>4. ~forgotten' => forgotten' = FALSE
    BY <2>2
  <2> QED
    BY <1>3, <1>16, <2>2, <2>3, <2>4, InterruptReplies, Zenon
<1>17. CASE CrashAndRestart
  <2>1. forgotten' = forgotten
    BY <1>17, Zenon DEF CrashAndRestart
  <2> QED
    BY <1>3, <1>4, <1>17, <2>1, CrashReplies, Zenon
<1> QED
  BY <1>1, <1>5, <1>6, <1>7, <1>8, <1>9, <1>10, <1>11, <1>12, <1>13, <1>14, <1>15, <1>16, <1>17
     DEF Next

LEMMA RepliesAlways == Spec => [](ThreadInv /\ ReplyInv)
BY ThreadInit, ThreadNext, RepliesInit, RepliesNext, ThreadAlways, PTL DEF Spec

-----------------------------------------------------------------------------
(* What the model is shown.                                                *)

\* What holds at the end, and one step before wherever it holds, holds at the start.
LEMMA Downward ==
    ASSUME NEW n \in Nat, NEW U, n + 1 \in U,
           \A j \in 1..n : (\A k \in (j + 1)..(n + 1) : k \in U) => j \in U
    PROVE  1 \in U
<1> DEFINE above == {m \in 0..n : \A k \in (m + 1)..(n + 1) : k \in U}
<1>1. n \in above /\ above \in SUBSET Nat
  OBVIOUS
<1>2. PICK m \in above : \A k \in above : m <= k
  <2> HIDE DEF above
  <2> QED
    BY <1>1, Smallest
<1>3. CASE m = 0
  BY <1>3
<1>4. CASE m # 0
  <2>1. m \in 1..n /\ m - 1 \in 0..n /\ \A k \in (m + 1)..(n + 1) : k \in U
    BY <1>4
  <2>2. m \in U
    BY <2>1
  <2>3. \A k \in ((m - 1) + 1)..(n + 1) : k = m \/ k \in (m + 1)..(n + 1)
    BY <2>1
  <2>4. m - 1 \in above
    BY <2>1, <2>2, <2>3
  <2> HIDE DEF above
  <2> QED
    BY <1>2, <2>1, <2>4
<1> QED
  BY <1>3, <1>4

\* As many values as positions, when no two have the same.
LEMMA SameNumber ==
    ASSUME NEW n \in Nat, NEW S \in SUBSET (1..n), NEW T, NEW f \in [S -> T],
           \A i, k \in S : f[i] = f[k] => i = k,
           \A t \in T : \E i \in S : f[i] = t
    PROVE  IsFiniteSet(T) /\ Cardinality(T) = Cardinality(S)
<1>1. IsFiniteSet(S)
  BY UpToFinite
<1>2. f \in Bijection(S, T)
  BY DEF Bijection, Injection, Surjection, IsInjective
<1>3. ExistsBijection(S, T)
  BY <1>2 DEF ExistsBijection
<1> QED
  BY <1>1, <1>3, FS_Bijection

\* The last call of a run.
LEMMA LastCallIs ==
    ASSUME NEW ev \in Seq(Events), NEW i \in Calls(ev)
    PROVE  /\ LastCall(ev, i) \in i..Len(ev) /\ LastCall(ev, i) \in Nat
           /\ \A m \in i..LastCall(ev, i) : ev[m].kind = "call"
           /\ LastCall(ev, i) = Len(ev) \/ ev[LastCall(ev, i) + 1].kind # "call"
<1> DEFINE ends == {m \in i..Len(ev) : m = Len(ev) \/ ev[m + 1].kind # "call"}
<1>1. i \in Nat /\ i \in 1..Len(ev) /\ Len(ev) \in Nat /\ ev[i].kind = "call"
  BY DEF Calls
<1>2. Len(ev) \in ends /\ ends \in SUBSET Nat
  BY <1>1
<1>3. PICK m \in ends : \A k \in ends : m <= k
  <2> HIDE DEF ends
  <2> QED
    BY <1>2, Smallest
<1>4. m \in i..Len(ev) /\ m \in Nat /\ (m = Len(ev) \/ ev[m + 1].kind # "call")
  BY <1>1
<1> DEFINE others == {j \in i..m : ev[j].kind # "call"}
<1>5. others = {}
  <2> SUFFICES ASSUME others # {} PROVE FALSE
    OBVIOUS
  <2>1. others \in SUBSET Nat
    BY <1>1, <1>4
  <2>2. PICK j \in others : \A k \in others : j <= k
    <3> HIDE DEF others
    <3> QED
      BY <2>1, Smallest
  <2>3. j \in i..m /\ ev[j].kind # "call" /\ j # i
    BY <1>1
  <2>4. j - 1 \in ends
    BY <1>1, <1>4, <2>3
  <2>5. m <= j - 1
    <3> HIDE DEF ends
    <3> QED
      BY <1>3, <2>4
  <2> QED
    BY <1>1, <1>4, <2>3, <2>5
<1>6. \A j \in i..m : ev[j].kind = "call"
  BY <1>5
<1>7. \E k \in i..Len(ev) : /\ \A j \in i..k : ev[j].kind = "call"
                            /\ k = Len(ev) \/ ev[k + 1].kind # "call"
  BY <1>4, <1>6
<1>8. /\ LastCall(ev, i) \in i..Len(ev)
      /\ \A j \in i..LastCall(ev, i) : ev[j].kind = "call"
      /\ LastCall(ev, i) = Len(ev) \/ ev[LastCall(ev, i) + 1].kind # "call"
  BY <1>7, Zenon DEF LastCall
<1> QED
  BY <1>1, <1>8

\* Where the search for the results of a run ends.
LEMMA StopAtIs ==
    ASSUME NEW ev \in Seq(Events), NEW i \in Calls(ev)
    PROVE  LET l == LastCall(ev, i)
               s == StopAt(ev, i)
           IN  /\ s \in (l + 1)..(Len(ev) + 1) /\ s \in Nat
               /\ s = Len(ev) + 1 \/ ev[s].kind = "call" \/ Answered(ev, i, s) = Run(ev, i)
               /\ \A m \in (l + 1)..(s - 1) : ev[m].kind # "call"
<1> DEFINE l == LastCall(ev, i)
           N == Len(ev)
           Stops(k) == k = N + 1 \/ ev[k].kind = "call" \/ Answered(ev, i, k) = Run(ev, i)
           stops == {k \in (l + 1)..(N + 1) : Stops(k)}
<1>1. l \in Nat /\ N \in Nat /\ l <= N
  BY LastCallIs DEF Calls
<1> HIDE DEF l
<1>2. N + 1 \in stops /\ stops \in SUBSET Nat
  BY <1>1
<1>3. PICK s \in stops : \A k \in stops : s <= k
  <2> HIDE DEF stops
  <2> QED
    BY <1>2, Smallest
<1>4. s \in (l + 1)..(N + 1) /\ s \in Nat /\ Stops(s)
  BY <1>1
<1>5. \A m \in (l + 1)..(s - 1) : m \in (l + 1)..(N + 1) /\ m # N + 1 /\ ~(s <= m)
  BY <1>1, <1>4
<1>6. \A m \in (l + 1)..(s - 1) : ~Stops(m)
  <2> HIDE DEF Stops
  <2> QED
    BY <1>3, <1>5
<1>7. \E k \in (l + 1)..(N + 1) :
        /\ k = N + 1 \/ ev[k].kind = "call" \/ Answered(ev, i, k) = Run(ev, i)
        /\ \A m \in (l + 1)..(k - 1) : ev[m].kind # "call" /\ Answered(ev, i, m) # Run(ev, i)
  BY <1>4, <1>6, Zenon
<1>8. /\ StopAt(ev, i) \in (l + 1)..(N + 1)
      /\ StopAt(ev, i) = N + 1 \/ ev[StopAt(ev, i)].kind = "call"
            \/ Answered(ev, i, StopAt(ev, i)) = Run(ev, i)
      /\ \A m \in (l + 1)..(StopAt(ev, i) - 1) :
             ev[m].kind # "call" /\ Answered(ev, i, m) # Run(ev, i)
  BY <1>7, Zenon DEF StopAt, l
<1>9. StopAt(ev, i) \in Nat
  BY <1>1, <1>8
<1> QED
  BY <1>8, <1>9, Zenon DEF l

\* The messages for the model: the calls of one are finitely many.
Roles == {"user", "assistant", "tool", "system"}
Messages == {m \in [role : Roles, use : Nat, calls : SUBSET Nat] : Cardinality(m.calls) \in Nat}

\* One pairing after the other.
LEMMA PairedJoin ==
    ASSUME NEW p \in Seq(Messages), NEW q \in Seq(Messages), PairedIn(p), PairedIn(q)
    PROVE  p \o q \in Seq(Messages) /\ PairedIn(p \o q)
<1> DEFINE w == p \o q
           n == Len(p)
           Old(i) == i \in DOMAIN p /\ i <= n /\ w[i] = p[i]
           New(i) == i - n \in DOMAIN q /\ w[i] = q[i - n] /\ i > n
<1>1. /\ w \in Seq(Messages) /\ Len(w) = n + Len(q) /\ n \in Nat /\ Len(q) \in Nat
      /\ DOMAIN w = 1..Len(w) /\ DOMAIN p = 1..n /\ DOMAIN q = 1..Len(q)
  OBVIOUS
<1>2. \A i \in DOMAIN w : i \in Nat /\ (Old(i) \/ New(i))
  OBVIOUS
<1>3. \A i \in DOMAIN p : w[i] = p[i]
  OBVIOUS
<1>4. \A i \in DOMAIN q : i + n \in DOMAIN w /\ w[i + n] = q[i]
  OBVIOUS
<1>5. /\ \A i \in DOMAIN p : Cardinality(p[i].calls) \in Nat
      /\ \A i \in DOMAIN q : Cardinality(q[i].calls) \in Nat
  <2>1. /\ \A i \in DOMAIN p : p[i] \in Messages
        /\ \A i \in DOMAIN q : q[i] \in Messages
    OBVIOUS
  <2> QED
    BY <2>1 DEF Messages
<1> HIDE DEF w
<1>6. ASSUME NEW i \in DOMAIN w, w[i].calls # {}
      PROVE  LET k == Cardinality(w[i].calls)
             IN  /\ i + k <= Len(w)
                 /\ {w[m].use : m \in (i + 1)..(i + k)} = w[i].calls
                 /\ \A m \in (i + 1)..(i + k) : w[m].role = "tool"
  <2> DEFINE k == Cardinality(w[i].calls)
  <2>1. CASE Old(i)
    <3>1. /\ k = Cardinality(p[i].calls) /\ k \in Nat /\ i \in Nat
          /\ i + k <= n /\ {p[m].use : m \in (i + 1)..(i + k)} = w[i].calls
          /\ \A m \in (i + 1)..(i + k) : p[m].role = "tool"
      BY <1>1, <1>5, <1>6, <2>1 DEF PairedIn
    <3>2. \A m \in (i + 1)..(i + k) : w[m] = p[m]
      BY <1>1, <1>3, <3>1
    <3> HIDE DEF k
    <3>3. i + k <= Len(w)
      BY <1>1, <3>1
    <3>4. {w[m].use : m \in (i + 1)..(i + k)} = {p[m].use : m \in (i + 1)..(i + k)}
      BY <3>2
    <3>5. \A m \in (i + 1)..(i + k) : w[m].role = "tool"
      BY <3>1, <3>2
    <3> QED
      BY <3>1, <3>3, <3>4, <3>5 DEF k
  <2>2. CASE New(i)
    <3> DEFINE j == i - n
    <3>1. /\ k = Cardinality(q[j].calls) /\ k \in Nat /\ i \in Nat /\ j \in 1..Len(q)
          /\ j + k <= Len(q) /\ {q[m].use : m \in (j + 1)..(j + k)} = w[i].calls
          /\ \A m \in (j + 1)..(j + k) : q[m].role = "tool"
      BY <1>1, <1>2, <1>5, <1>6, <2>2 DEF PairedIn
    <3>7. i = j + n /\ j \in Nat
      BY <1>1, <3>1
    <3> HIDE DEF k, j
    <3>8. n \in Nat /\ Len(q) \in Nat /\ Len(w) = n + Len(q)
      BY <1>1
    <3> HIDE DEF n
    <3>9. /\ \A m \in (i + 1)..(i + k) : m - n \in (j + 1)..(j + k)
          /\ \A m \in (j + 1)..(j + k) : m + n \in (i + 1)..(i + k) /\ m \in 1..Len(q)
      BY <3>1, <3>7, <3>8
    <3>2. \A m \in (j + 1)..(j + k) : m + n \in (i + 1)..(i + k) /\ w[m + n] = q[m]
      BY <1>1, <1>4, <3>9
    <3>11. k \in Nat /\ j + k <= Len(q)
      BY <3>1
    <3>10. \A m \in (i + 1)..(i + k) : m \in 1..Len(w) /\ ~(m <= n)
      BY <3>7, <3>8, <3>11
    <3>3. \A m \in (i + 1)..(i + k) : w[m] = q[m - n]
      BY <1>1, <1>2, <3>10
    <3>4. {w[m].use : m \in (i + 1)..(i + k)} = {q[m].use : m \in (j + 1)..(j + k)}
      <4>1. \A m \in (i + 1)..(i + k) : \E h \in (j + 1)..(j + k) : w[m].use = q[h].use
        BY <3>3, <3>9
      <4>2. \A h \in (j + 1)..(j + k) : \E m \in (i + 1)..(i + k) : w[m].use = q[h].use
        BY <3>2
      <4> QED
        BY <4>1, <4>2
    <3>5. i + k <= Len(w)
      BY <3>1, <3>7, <3>8
    <3>6. \A m \in (i + 1)..(i + k) : w[m].role = "tool"
      BY <3>1, <3>3, <3>9
    <3> QED
      BY <3>1, <3>4, <3>5, <3>6 DEF k
  <2> QED
    BY <1>2, <2>1, <2>2
<1>7. ASSUME NEW i \in DOMAIN w, w[i].role = "tool"
      PROVE  \E m \in 1..(i - 1) : i <= m + Cardinality(w[m].calls)
  <2>1. CASE Old(i)
    <3>1. PICK m \in 1..(i - 1) : i <= m + Cardinality(p[m].calls)
      BY <1>7, <2>1 DEF PairedIn
    <3>2. w[m] = p[m]
      BY <1>1, <1>3, <2>1, <3>1
    <3> QED
      BY <3>1, <3>2
  <2>2. CASE New(i)
    <3>1. PICK m \in 1..(i - n - 1) : i - n <= m + Cardinality(q[m].calls)
      BY <1>7, <2>2 DEF PairedIn
    <3>2. i \in Nat /\ m \in DOMAIN q /\ m + n \in 1..(i - 1) /\ w[m + n] = q[m]
      <4>1. i \in Nat /\ i - n \in 1..Len(q) /\ m \in 1..(i - n - 1)
        BY <1>1, <1>2, <2>2, <3>1
      <4>2. m \in 1..Len(q) /\ m + n \in 1..(i - 1)
        <5>1. n \in Nat /\ Len(q) \in Nat
          BY <1>1
        <5> HIDE DEF n
        <5> QED
          BY <4>1, <5>1
      <4> QED
        BY <1>1, <1>4, <4>1, <4>2
    <3>3. i <= (m + n) + Cardinality(w[m + n].calls)
      <4>1. i - n <= m + Cardinality(q[m].calls) /\ Cardinality(q[m].calls) \in Nat /\ m \in Nat
        BY <1>1, <1>5, <3>1, <3>2
      <4>2. \A c \in Nat : i - n <= m + c => i <= (m + n) + c
        <5>1. n \in Nat /\ i \in Nat /\ m \in Nat
          BY <1>1, <3>2, <4>1
        <5> HIDE DEF n
        <5> QED
          BY <5>1
      <4> QED
        BY <3>2, <4>1, <4>2
    <3> QED
      BY <3>2, <3>3
  <2> QED
    BY <1>2, <2>1, <2>2
<1>8. PairedIn(w)
  BY <1>6, <1>7, Zenon DEF PairedIn
<1> QED
  BY <1>1, <1>8 DEF w

\* Messages that are neither calls nor results.
LEMMA OthersPair ==
    ASSUME NEW p \in Seq(Messages), \A i \in DOMAIN p : p[i].calls = {} /\ p[i].role # "tool"
    PROVE  PairedIn(p)
BY DEF PairedIn

\* Calls, and one result for each.
LEMMA AnsweredPair ==
    ASSUME NEW calls \in SUBSET Nat, Cardinality(calls) \in Nat, NEW ts \in Seq(Messages),
           Len(ts) = Cardinality(calls), {ts[k].use : k \in DOMAIN ts} = calls,
           \A k \in DOMAIN ts : ts[k].role = "tool" /\ ts[k].calls = {}
    PROVE  /\ <<Message("assistant", 0, calls)>> \o ts \in Seq(Messages)
           /\ PairedIn(<<Message("assistant", 0, calls)>> \o ts)
<1> DEFINE a == Message("assistant", 0, calls)
           w == <<a>> \o ts
           n == Len(ts)
<1>1. a \in Messages /\ a.calls = calls /\ a.role = "assistant"
  BY DEF Message, Messages, Roles
<1> HIDE DEF a
<1>2. /\ w \in Seq(Messages) /\ Len(w) = n + 1 /\ n \in Nat /\ w[1] = a
      /\ \A i \in DOMAIN w : i \in Nat /\ (i = 1 \/ (i - 1 \in DOMAIN ts /\ w[i] = ts[i - 1]))
      /\ \A i \in DOMAIN ts : i + 1 \in DOMAIN w /\ w[i + 1] = ts[i]
      /\ DOMAIN ts = 1..n /\ DOMAIN w = 1..(n + 1)
  BY <1>1
<1> HIDE DEF w
<1>3. \A m \in 2..(n + 1) : w[m] = ts[m - 1] /\ m - 1 \in DOMAIN ts
  BY <1>2
<1>4. {w[m].use : m \in 2..(n + 1)} = {ts[k].use : k \in DOMAIN ts}
  <2>1. \A k \in DOMAIN ts : k + 1 \in 2..(n + 1)
    BY <1>2
  <2> QED
    BY <1>2, <1>3, <2>1
<1>5. ASSUME NEW i \in DOMAIN w, w[i].calls # {}
      PROVE  LET k == Cardinality(w[i].calls)
             IN  /\ i + k <= Len(w)
                 /\ {w[m].use : m \in (i + 1)..(i + k)} = w[i].calls
                 /\ \A m \in (i + 1)..(i + k) : w[m].role = "tool"
  <2>1. i = 1
    BY <1>2, <1>5
  <2>2. w[i].calls = calls /\ Cardinality(w[i].calls) = n /\ i + 1 = 2 /\ i + n = n + 1
    BY <1>1, <1>2, <2>1
  <2>5. {ts[k].use : k \in DOMAIN ts} = calls
    OBVIOUS
  <2>3. \A m \in 2..(n + 1) : w[m].role = "tool"
    BY <1>3
  <2>4. (i + 1)..(i + n) = 2..(n + 1) /\ i + n <= Len(w)
    BY <1>2, <2>1
  <2> HIDE DEF n
  <2> QED
    BY <1>4, <2>2, <2>3, <2>4, <2>5
<1>6. ASSUME NEW i \in DOMAIN w, w[i].role = "tool"
      PROVE  \E m \in 1..(i - 1) : i <= m + Cardinality(w[m].calls)
  <2>1. i \in 2..(n + 1)
    BY <1>1, <1>2, <1>6
  <2>2. 1 \in 1..(i - 1) /\ Cardinality(w[1].calls) = n /\ i <= 1 + n
    BY <1>1, <1>2, <2>1
  <2> QED
    BY <2>2
<1>7. PairedIn(w)
  BY <1>5, <1>6, Zenon DEF PairedIn
<1> QED
  BY <1>2, <1>7 DEF w, a

LEMMA RenderedIs ==
    ASSUME NEW e \in Events
    PROVE  /\ Rendered(e) \in Messages /\ Rendered(e).calls = {} /\ Rendered(e).use = e.use
           /\ Rendered(e).role = "tool" <=> e.kind = "result"
<1>1. e.use \in Nat /\ Cardinality({}) = 0
  BY FS_EmptySet DEF Events
<1>2. e.kind \in Kinds
  BY DEF Events
<1> QED
  BY <1>1, <1>2 DEF Rendered, Message, Messages, Roles, Kinds

LEMMA ShowIs ==
    ASSUME NEW ev \in Seq(Events), NEW S \in SUBSET DOMAIN ev
    PROVE  /\ Show(ev, S) \in Seq(Messages)
           /\ Len(Show(ev, S)) = Cardinality(S) /\ Cardinality(S) \in Nat
           /\ \A k \in 1..Cardinality(S) : \E m \in S : Show(ev, S)[k] = Rendered(ev[m])
           /\ \A m \in S : \E k \in 1..Cardinality(S) : Show(ev, S)[k] = Rendered(ev[m])
<1>1. /\ Cardinality(S) \in Nat
      /\ \A k \in 1..Cardinality(S) : Nth(S, k) \in S
      /\ \A m \in S : \E k \in 1..Cardinality(S) : Nth(S, k) = m
  BY EventsAtAre
<1>2. \A m \in S : Rendered(ev[m]) \in Messages
  <2>1. \A m \in S : ev[m] \in Events
    OBVIOUS
  <2> QED
    BY <2>1, RenderedIs
<1>3. Show(ev, S) = [k \in 1..Cardinality(S) |-> Rendered(ev[Nth(S, k)])]
  BY DEF Show
<1>4. Show(ev, S) \in Seq(Messages) /\ Len(Show(ev, S)) = Cardinality(S)
  BY <1>1, <1>2, <1>3
<1>5. \A k \in 1..Cardinality(S) : Show(ev, S)[k] = Rendered(ev[Nth(S, k)])
  BY <1>3
<1> QED
  BY <1>1, <1>4, <1>5

\* What a branch shows when none of its calls is cut from its result: calls that were
\* written together have results together.
Presentable(ev) ==
    /\ CallsDiffer(ev) /\ OneResult(ev) /\ ResultsFollow(ev) /\ Ordered(ev)
    /\ \A i, k \in Calls(ev) : i < k /\ AllCalls(ev, i, k) => (HasResult(ev, i) <=> HasResult(ev, k))

\* The results from position j on answer calls from there on.
SettledAt(ev, j) ==
    \A r \in Results(ev), i \in Calls(ev) : ev[r].use = ev[i].seq /\ j <= r => j <= i

\* The results of a run are found before the search for them ends, and no others are there.
LEMMA SpanIs ==
    ASSUME NEW ev \in Seq(Events), Presentable(ev), NEW i \in Calls(ev), SettledAt(ev, i)
    PROVE  LET l == LastCall(ev, i)
               s == StopAt(ev, i)
           IN  /\ \A r \in Results(ev), c \in Calls(ev) : ev[r].use = ev[c].seq =>
                      /\ r \in Span(ev, i) => c \in i..l
                      /\ c \in i..l => r \in Span(ev, i)
               /\ SettledAt(ev, s)
<1> DEFINE l == LastCall(ev, i)
           s == StopAt(ev, i)
           N == Len(ev)
<1>1. /\ l \in i..N /\ l \in Nat /\ i \in 1..N /\ N \in Nat
      /\ \A m \in i..l : ev[m].kind = "call" /\ m \in Calls(ev)
      /\ l = N \/ ev[l + 1].kind # "call"
  <2>1. i \in 1..N /\ N \in Nat
    BY DEF Calls
  <2>2. /\ l \in i..N /\ l \in Nat /\ \A m \in i..l : ev[m].kind = "call"
        /\ l = N \/ ev[l + 1].kind # "call"
    BY LastCallIs
  <2> HIDE DEF l
  <2> QED
    BY <2>1, <2>2 DEF Calls
<1>2. /\ s \in (l + 1)..(N + 1) /\ s \in Nat
      /\ s = N + 1 \/ ev[s].kind = "call" \/ Answered(ev, i, s) = Run(ev, i)
      /\ \A m \in (l + 1)..(s - 1) : ev[m].kind # "call"
  BY StopAtIs
<1>3. Span(ev, i) = (l + 1)..(s - 1)
  BY DEF Span
<1>4. Run(ev, i) = {ev[m].seq : m \in i..l}
  BY DEF Run
<1>5. Answered(ev, i, s) = Run(ev, i) \cap {ev[m].use : m \in {m \in (l + 1)..(s - 1) : ev[m].kind = "result"}}
  BY DEF Answered
<1> HIDE DEF l, s
<1>6. /\ \A r \in Results(ev) : r \in 1..N /\ ev[r].kind = "result"
      /\ \A c \in Calls(ev) : c \in 1..N /\ ev[c].kind = "call"
  BY DEF Results, Calls
<1>7. \A c \in Calls(ev) : c >= i => c \in i..l \/ c >= s
  <2> SUFFICES ASSUME NEW c \in Calls(ev), c >= i, c \notin i..l, ~(c >= s) PROVE FALSE
    OBVIOUS
  <2>1. c \in (l + 1)..(s - 1)
    BY <1>1, <1>2, <1>6
  <2> QED
    BY <1>2, <1>6, <2>1
<1>8. ASSUME NEW r \in Results(ev), NEW c \in Calls(ev), ev[r].use = ev[c].seq
      PROVE  /\ c < r
             /\ r \in Span(ev, i) => c \in i..l
             /\ c \in i..l => r \in Span(ev, i)
             /\ s <= r => s <= c
  <2>1. c < r
    BY <1>8 DEF Presentable, ResultsFollow
  <2>2. i <= r => i <= c
    BY <1>8 DEF SettledAt
  <2>3. r \in Span(ev, i) => c \in i..l
    BY <1>1, <1>2, <1>3, <1>6, <1>7, <2>1, <2>2
  <2>4. c \in i..l => ~(s <= r)
    <3> SUFFICES ASSUME c \in i..l, s <= r PROVE FALSE
      OBVIOUS
    <3>1. s # N + 1
      BY <1>1, <1>2, <1>6
    <3>2. CASE Answered(ev, i, s) = Run(ev, i)
      <4>1. ev[c].seq \in Run(ev, i)
        BY <1>4
      <4>2. PICK m \in (l + 1)..(s - 1) : ev[m].kind = "result" /\ ev[m].use = ev[c].seq
        BY <1>5, <3>2, <4>1
      <4>3. m \in Results(ev) /\ m < s
        BY <1>1, <1>2, <4>2 DEF Results
      <4>4. m = r
        BY <1>8, <4>2, <4>3 DEF Presentable, OneResult
      <4> QED
        BY <1>2, <1>6, <4>3, <4>4
    <3>3. CASE ev[s].kind = "call"
      <4>1. s \in 1..N /\ s \in Calls(ev)
        BY <1>1, <1>2, <3>1, <3>3 DEF Calls
      <4>2. s < r
        BY <1>2, <1>6, <3>3
      <4>3. c < s
        BY <1>1, <1>2
      <4>4. AllCalls(ev, c, s)
        BY <1>8, <4>1, <4>2, <4>3, Zenon DEF Presentable, Ordered
      <4>5. l + 1 \in c..s
        BY <1>1, <1>2, <1>6
      <4>6. ev[l + 1].kind = "call"
        BY <4>4, <4>5 DEF AllCalls
      <4>7. l = N
        BY <1>1, <4>6
      <4> QED
        BY <1>1, <1>2, <4>1, <4>7
    <3> QED
      BY <1>2, <3>1, <3>2, <3>3
  <2>5. c \in i..l => r \in Span(ev, i)
    <3> SUFFICES ASSUME c \in i..l PROVE r \in Span(ev, i)
      OBVIOUS
    <3>1. r \notin i..l
      BY <1>1, <1>6
    <3>2. r \in Nat /\ i <= r /\ ~(s <= r)
      BY <1>1, <1>2, <1>6, <2>1, <2>4
    <3> QED
      BY <1>1, <1>2, <1>3, <3>1, <3>2
  <2>6. s <= r => s <= c
    BY <1>1, <1>2, <1>6, <1>7, <2>2, <2>4
  <2> QED
    BY <2>1, <2>3, <2>5, <2>6
<1>9. SettledAt(ev, s)
  BY <1>8 DEF SettledAt
<1> QED
  BY <1>8, <1>9 DEF l, s

LEMMA PlaceholderIs == \A n \in Nat : Message("tool", n, {}) \in Messages
<1>1. Cardinality({}) = 0
  BY FS_EmptySet
<1> QED
  BY <1>1 DEF Message, Messages, Roles

\* A run of calls and what answers it make a pairing.
LEMMA GroupIs ==
    ASSUME NEW ev \in Seq(Events), Presentable(ev), NEW i \in Calls(ev), SettledAt(ev, i)
    PROVE  Group(ev, i) \in Seq(Messages) /\ PairedIn(Group(ev, i))
<1> DEFINE l == LastCall(ev, i)
           s == StopAt(ev, i)
           N == Len(ev)
           C == Run(ev, i)
           A == Answers(ev, i)
           P == Pending(ev, i)
           others == Show(ev, Span(ev, i) \ A)
           ts == IF P = {} THEN Show(ev, A)
                 ELSE [k \in 1..Cardinality(P) |-> Message("tool", ev[Nth(P, k)].seq, {})]
<1>1. /\ l \in i..N /\ l \in Nat /\ i \in 1..N /\ N \in Nat /\ DOMAIN ev = 1..N
      /\ \A m \in i..l : m \in Calls(ev) /\ m \in DOMAIN ev
  <2>1. i \in 1..N /\ N \in Nat /\ DOMAIN ev = 1..N
    BY DEF Calls
  <2>2. l \in i..N /\ l \in Nat /\ \A m \in i..l : ev[m].kind = "call"
    BY LastCallIs
  <2> HIDE DEF l
  <2> QED
    BY <2>1, <2>2 DEF Calls
<1>2. /\ s \in (l + 1)..(N + 1) /\ s \in Nat
      /\ \A m \in (l + 1)..(s - 1) : ev[m].kind # "call"
  BY StopAtIs
<1>3. Span(ev, i) = (l + 1)..(s - 1)
  BY DEF Span
<1>4. /\ C = {ev[m].seq : m \in i..l}
      /\ P = {m \in i..l : ev[m].seq \notin Answered(ev, i, s)}
  BY DEF Run, Pending
<1>5. /\ Answered(ev, i, s) = C \cap {ev[m].use : m \in {m \in (l + 1)..(s - 1) : ev[m].kind = "result"}}
      /\ A = {m \in Span(ev, i) : /\ ev[m].kind = "result" /\ ev[m].use \in C
                                  /\ \A k \in (l + 1)..(m - 1) :
                                        ~(ev[k].kind = "result" /\ ev[k].use = ev[m].use)}
  BY DEF Answered, Answers
<1>6. \A r \in Results(ev), c \in Calls(ev) : ev[r].use = ev[c].seq =>
          /\ r \in Span(ev, i) => c \in i..l
          /\ c \in i..l => r \in Span(ev, i)
  BY SpanIs
<1>7. Group(ev, i) = (<<Message("assistant", 0, C)>> \o ts) \o others
  BY DEF Group
<1> HIDE DEF l, s, C, A, P
<1>8. Span(ev, i) \in SUBSET DOMAIN ev /\ A \in SUBSET DOMAIN ev /\ P \in SUBSET (1..N)
  <2>1. Span(ev, i) \in SUBSET DOMAIN ev
    BY <1>1, <1>2, <1>3
  <2>2. A \in SUBSET Span(ev, i) /\ P \in SUBSET (i..l)
    BY <1>4, <1>5
  <2> QED
    BY <1>1, <2>1, <2>2
<1>9. A = {r \in Results(ev) : r \in Span(ev, i)}
  <2>1. ASSUME NEW r \in Results(ev), r \in Span(ev, i) PROVE r \in A
    <3>1. PICK c \in Calls(ev) : ev[r].use = ev[c].seq
      BY DEF Presentable, Ordered
    <3>2. c \in i..l
      BY <1>6, <2>1, <3>1
    <3>3. ev[r].kind = "result" /\ ev[r].use \in C
      BY <1>4, <3>1, <3>2 DEF Results
    <3>4. ASSUME NEW k \in (l + 1)..(r - 1), ev[k].kind = "result", ev[k].use = ev[r].use PROVE FALSE
      <4>1. k \in DOMAIN ev /\ k < r
        BY <1>1, <1>2, <1>3, <2>1
      <4>2. k \in Results(ev) /\ k # r
        BY <1>1, <1>8, <2>1, <3>4, <4>1 DEF Results
      <4> QED
        BY <3>4, <4>2 DEF Presentable, OneResult
    <3> QED
      BY <1>5, <2>1, <3>3, <3>4
  <2>2. \A m \in A : m \in Span(ev, i) /\ m \in Results(ev)
    BY <1>5, <1>8 DEF Results
  <2> QED
    BY <2>1, <2>2
<1>10. C \in SUBSET Nat /\ Cardinality(C) \in Nat /\ Cardinality(C) = Cardinality(i..l)
  <2> DEFINE f == [m \in i..l |-> ev[m].seq]
  <2>1. f \in [i..l -> C] /\ \A t \in C : \E m \in i..l : f[m] = t
    BY <1>4
  <2>2. \A m, k \in i..l : f[m] = f[k] => m = k
    BY <1>1 DEF Presentable, CallsDiffer
  <2> HIDE DEF f
  <2>3. (i..l) \in SUBSET (1..N)
    BY <1>1
  <2>4. Cardinality(C) = Cardinality(i..l)
    BY <1>1, <2>1, <2>2, <2>3, SameNumber
  <2>5. Cardinality(i..l) \in Nat
    <3>1. i \in Int /\ l \in Int /\ i <= l
      BY <1>1
    <3>2. Cardinality(i..l) = l - i + 1
      BY <3>1, FS_Interval
    <3> QED
      BY <3>1, <3>2
  <2>6. \A m \in i..l : ev[m].seq \in Nat
    BY <1>1, EventFields
  <2> QED
    BY <1>4, <2>4, <2>5, <2>6
<1>11. others \in Seq(Messages) /\ PairedIn(others)
  <2> DEFINE R == Span(ev, i) \ A
  <2>1. R \in SUBSET DOMAIN ev
    BY <1>8
  <2>2. \A m \in R : ev[m] \in Events /\ ev[m].kind # "result"
    BY <1>8, <1>9 DEF Results
  <2> HIDE DEF R
  <2>3. /\ Show(ev, R) \in Seq(Messages) /\ Len(Show(ev, R)) = Cardinality(R)
        /\ Cardinality(R) \in Nat
        /\ \A k \in 1..Cardinality(R) : \E m \in R : Show(ev, R)[k] = Rendered(ev[m])
    BY <2>1, ShowIs
  <2>4. \A k \in 1..Cardinality(R) : Show(ev, R)[k].calls = {} /\ Show(ev, R)[k].role # "tool"
    BY <2>2, <2>3, RenderedIs
  <2>5. DOMAIN Show(ev, R) = 1..Cardinality(R)
    BY <2>3
  <2> QED
    BY <2>3, <2>4, <2>5, OthersPair DEF R
<1>12. /\ ts \in Seq(Messages) /\ Len(ts) = Cardinality(C) /\ {ts[k].use : k \in DOMAIN ts} = C
       /\ \A k \in DOMAIN ts : ts[k].role = "tool" /\ ts[k].calls = {}
  <2>1. CASE P = {}
    <3>1. ts = Show(ev, A)
      BY <2>1
    <3>2. /\ Show(ev, A) \in Seq(Messages) /\ Len(Show(ev, A)) = Cardinality(A)
          /\ Cardinality(A) \in Nat
          /\ \A k \in 1..Cardinality(A) : \E m \in A : Show(ev, A)[k] = Rendered(ev[m])
          /\ \A m \in A : \E k \in 1..Cardinality(A) : Show(ev, A)[k] = Rendered(ev[m])
      BY <1>8, ShowIs
    <3>3. \A m \in A : ev[m] \in Events /\ ev[m].kind = "result" /\ ev[m].use \in C
      BY <1>5, <1>8
    <3>4. \A m \in A : /\ Rendered(ev[m]).role = "tool" /\ Rendered(ev[m]).calls = {}
                       /\ Rendered(ev[m]).use = ev[m].use
      BY <3>3, RenderedIs
    <3>5. \A x \in C : \E m \in A : ev[m].use = x
      <4> SUFFICES ASSUME NEW x \in C PROVE \E m \in A : ev[m].use = x
        OBVIOUS
      <4>1. PICK c \in i..l : ev[c].seq = x
        BY <1>4
      <4>2. x \in Answered(ev, i, s)
        BY <1>4, <2>1, <4>1
      <4>3. PICK m \in (l + 1)..(s - 1) : ev[m].kind = "result" /\ ev[m].use = x
        BY <1>5, <4>2
      <4>4. m \in Span(ev, i) /\ m \in Results(ev)
        BY <1>3, <1>8, <4>3 DEF Results
      <4> QED
        BY <1>9, <4>3, <4>4
    <3>6. Cardinality(A) = Cardinality(C)
      <4> DEFINE f == [m \in A |-> ev[m].use]
      <4>1. f \in [A -> C] /\ \A t \in C : \E m \in A : f[m] = t
        BY <3>3, <3>5
      <4>2. \A m, k \in A : f[m] = f[k] => m = k
        BY <1>9 DEF Presentable, OneResult
      <4> HIDE DEF f
      <4> QED
        BY <1>1, <1>8, <4>1, <4>2, SameNumber
    <3>7. DOMAIN Show(ev, A) = 1..Cardinality(A)
      BY <3>2
    <3>8. \A k \in DOMAIN Show(ev, A) : /\ Show(ev, A)[k].role = "tool" /\ Show(ev, A)[k].calls = {}
                                        /\ Show(ev, A)[k].use \in C
      <4> SUFFICES ASSUME NEW k \in 1..Cardinality(A)
                   PROVE  /\ Show(ev, A)[k].role = "tool" /\ Show(ev, A)[k].calls = {}
                          /\ Show(ev, A)[k].use \in C
        BY <3>7
      <4>1. PICK m \in A : Show(ev, A)[k] = Rendered(ev[m])
        BY <3>2
      <4> QED
        BY <3>3, <3>4, <4>1
    <3>9. \A x \in C : \E k \in DOMAIN Show(ev, A) : Show(ev, A)[k].use = x
      <4> SUFFICES ASSUME NEW x \in C PROVE \E k \in 1..Cardinality(A) : Show(ev, A)[k].use = x
        BY <3>7
      <4>1. PICK m \in A : ev[m].use = x
        BY <3>5
      <4> QED
        BY <3>2, <3>4, <4>1
    <3>10. {Show(ev, A)[k].use : k \in DOMAIN Show(ev, A)} = C
      BY <3>8, <3>9
    <3> HIDE DEF ts
    <3> QED
      BY <3>1, <3>2, <3>6, <3>8, <3>10
  <2>2. CASE P # {}
    <3> DEFINE ps == [k \in 1..Cardinality(P) |-> Message("tool", ev[Nth(P, k)].seq, {})]
    <3>1. ts = ps
      BY <2>2
    <3>2. PICK c \in P : TRUE
      BY <2>2
    <3>3. c \in i..l /\ c \in Calls(ev) /\ ev[c].seq \in C /\ ev[c].seq \notin Answered(ev, i, s)
      BY <1>1, <1>4
    <3>4. ~HasResult(ev, c)
      <4> SUFFICES ASSUME NEW r \in Results(ev), ev[r].use = ev[c].seq PROVE FALSE
        BY DEF HasResult
      <4>1. r \in (l + 1)..(s - 1) /\ ev[r].kind = "result"
        BY <1>3, <1>6, <3>3 DEF Results
      <4> QED
        BY <1>5, <3>3, <4>1
    <3>5. \A m \in i..l : ~HasResult(ev, m)
      <4> SUFFICES ASSUME NEW m \in i..l, m # c PROVE ~HasResult(ev, m)
        BY <3>4
      <4>1. m \in Calls(ev) /\ m \in Nat /\ c \in Nat
        BY <1>1, <3>3
      <4>2. (m < c => AllCalls(ev, m, c)) /\ (c < m => AllCalls(ev, c, m))
        <5>1. \A j \in m..c : j \in i..l
          BY <1>1, <3>3
        <5>2. \A j \in c..m : j \in i..l
          BY <1>1, <3>3
        <5> QED
          BY <1>1, <5>1, <5>2 DEF AllCalls, Calls
      <4>3. m < c \/ c < m
        BY <4>1
      <4> QED
        BY <3>3, <3>4, <4>1, <4>2, <4>3 DEF Presentable
    <3>6. \A m \in i..l : ev[m].seq \notin Answered(ev, i, s)
      <4> SUFFICES ASSUME NEW m \in i..l, ev[m].seq \in Answered(ev, i, s) PROVE FALSE
        OBVIOUS
      <4>1. PICK r \in (l + 1)..(s - 1) : ev[r].kind = "result" /\ ev[r].use = ev[m].seq
        BY <1>5
      <4>2. r \in Results(ev)
        BY <1>3, <1>8, <4>1 DEF Results
      <4> QED
        BY <3>5, <4>1, <4>2 DEF HasResult
    <3>7. P = i..l
      BY <1>4, <3>6
    <3>8. /\ Cardinality(P) \in Nat
          /\ \A k \in 1..Cardinality(P) : Nth(P, k) \in P
          /\ \A m \in P : \E k \in 1..Cardinality(P) : Nth(P, k) = m
      <4>1. P \in SUBSET DOMAIN ev
        BY <1>1, <1>8
      <4> QED
        BY <4>1, EventsAtAre
    <3>9. \A m \in P : ev[m].seq \in C /\ Message("tool", ev[m].seq, {}) \in Messages
      <4>1. \A m \in P : ev[m].seq \in C /\ ev[m].seq \in Nat
        BY <1>4, <1>10, <3>7
      <4> QED
        <5>1. \A x \in Nat : Message("tool", x, {}) \in Messages
          BY PlaceholderIs
        <5> QED
          BY <4>1, <5>1
    <3>10. \A k \in 1..Cardinality(P) : /\ ps[k] = Message("tool", ev[Nth(P, k)].seq, {})
                                        /\ ps[k] \in Messages
      BY <3>8, <3>9
    <3>11. ps \in Seq(Messages) /\ Len(ps) = Cardinality(P) /\ DOMAIN ps = 1..Cardinality(P)
      BY <3>8, <3>10
    <3> HIDE DEF ps
    <3>12. \A k \in DOMAIN ps : /\ ps[k].role = "tool" /\ ps[k].calls = {}
                                /\ ps[k].use = ev[Nth(P, k)].seq
      BY <3>10, <3>11 DEF Message
    <3>13. {ps[k].use : k \in DOMAIN ps} = C
      <4>1. \A k \in DOMAIN ps : ps[k].use \in C
        BY <3>8, <3>9, <3>11, <3>12
      <4>2. \A x \in C : \E k \in DOMAIN ps : ps[k].use = x
        <5> SUFFICES ASSUME NEW x \in C PROVE \E k \in DOMAIN ps : ps[k].use = x
          OBVIOUS
        <5>1. PICK m \in P : ev[m].seq = x
          BY <1>4, <3>7
        <5>2. PICK k \in 1..Cardinality(P) : Nth(P, k) = m
          BY <3>8
        <5> QED
          BY <3>11, <3>12, <5>1, <5>2
      <4> QED
        BY <4>1, <4>2
    <3> HIDE DEF ts
    <3>14. Len(ps) = Cardinality(C)
      BY <1>10, <3>7, <3>11
    <3> QED
      BY <3>1, <3>11, <3>12, <3>13, <3>14
  <2> QED
    BY <2>1, <2>2
<1> HIDE DEF ts, others
<1>13. /\ <<Message("assistant", 0, C)>> \o ts \in Seq(Messages)
       /\ PairedIn(<<Message("assistant", 0, C)>> \o ts)
  BY <1>10, <1>12, AnsweredPair
<1> QED
  BY <1>7, <1>11, <1>13, PairedJoin

\* The context from each of the last n positions on.
BuildFrom(ev, f, i) ==
    IF i > Len(ev) THEN <<>>
    ELSE IF ev[i].kind = "call" THEN Group(ev, i) \o f[StopAt(ev, i)]
    ELSE <<Rendered(ev[i])>> \o f[i + 1]

Built(ev, f, n) == f = [i \in (Len(ev) + 1 - n)..(Len(ev) + 1) |-> BuildFrom(ev, f, i)]

LEMMA StopIsLater ==
    ASSUME NEW ev \in Seq(Events), NEW i \in Calls(ev)
    PROVE  StopAt(ev, i) \in (i + 1)..(Len(ev) + 1)
<1>1. /\ LastCall(ev, i) \in i..Len(ev) /\ LastCall(ev, i) \in Nat
      /\ i \in Nat /\ Len(ev) \in Nat
  BY LastCallIs DEF Calls
<1>2. StopAt(ev, i) \in (LastCall(ev, i) + 1)..(Len(ev) + 1)
  BY StopAtIs
<1> QED
  BY <1>1, <1>2

LEMMA BuiltExists ==
    ASSUME NEW ev \in Seq(Events), NEW n \in 0..Len(ev) PROVE \E f : Built(ev, f, n)
<1> DEFINE N == Len(ev)
           bad == {m \in 0..N : ~ \E f : Built(ev, f, m)}
<1>0. N \in Nat /\ n \in Nat
  OBVIOUS
<1> SUFFICES ASSUME bad # {} PROVE FALSE
  OBVIOUS
<1>1. PICK m \in bad : \A k \in bad : m <= k
  <2>1. bad \in SUBSET Nat
    BY <1>0
  <2> HIDE DEF bad
  <2> QED
    BY <2>1, Smallest
<1>2. m \in Nat /\ m <= N /\ ~ \E f : Built(ev, f, m)
  BY <1>0
<1>3. CASE m = 0
  <2> DEFINE f == [i \in (N + 1)..(N + 1) |-> <<>>]
  <2>1. \A i \in (N + 1)..(N + 1) : i > N
    BY <1>0
  <2>2. f = [i \in (N + 1)..(N + 1) |-> BuildFrom(ev, f, i)]
    <3>1. \A i \in (N + 1)..(N + 1) : BuildFrom(ev, f, i) = <<>>
      BY <2>1 DEF BuildFrom
    <3> QED
      BY <3>1
  <2>3. N + 1 - m = N + 1
    BY <1>0, <1>3
  <2> HIDE DEF f
  <2>4. Built(ev, f, m)
    BY <2>2, <2>3 DEF Built
  <2> QED
    BY <1>2, <2>4
<1>4. CASE m # 0
  <2>1. m - 1 \in 0..N /\ m - 1 \in Nat /\ m - 1 \notin bad
    <3>1. m - 1 \in 0..N /\ m - 1 \in Nat /\ ~(m <= m - 1)
      BY <1>0, <1>2, <1>4
    <3> HIDE DEF bad
    <3> QED
      BY <1>1, <3>1
  <2>2. PICK f : Built(ev, f, m - 1)
    BY <2>1
  <2> DEFINE a == N + 1 - m
             g == [i \in a..(N + 1) |-> IF i = a THEN BuildFrom(ev, f, a) ELSE f[i]]
  <2>3. a \in 1..N /\ a + 1 = N + 1 - (m - 1) /\ a \in Nat
    BY <1>0, <1>2, <1>4
  <2> HIDE DEF a
  <2>4. f = [i \in (a + 1)..(N + 1) |-> BuildFrom(ev, f, i)]
    BY <2>2, <2>3 DEF Built
  <2>5. \A k \in (a + 1)..(N + 1) : g[k] = f[k] /\ f[k] = BuildFrom(ev, f, k)
    <3>1. \A k \in (a + 1)..(N + 1) : k \in a..(N + 1) /\ k # a
      BY <1>0, <2>3
    <3>2. \A k \in (a + 1)..(N + 1) : g[k] = f[k]
      BY <3>1
    <3> HIDE DEF g
    <3> QED
      BY <2>4, <3>2
  <2>6. g[a] = BuildFrom(ev, f, a)
    BY <1>0, <2>3
  <2>7. g = [i \in a..(N + 1) |-> g[i]]
    OBVIOUS
  <2> HIDE DEF g
  <2>8. ASSUME NEW i \in a..(N + 1) PROVE g[i] = BuildFrom(ev, g, i)
    <3>1. CASE i > N
      <4>1. i \in (a + 1)..(N + 1)
        BY <1>0, <2>3, <3>1
      <4>2. BuildFrom(ev, f, i) = BuildFrom(ev, g, i)
        BY <3>1 DEF BuildFrom
      <4> QED
        BY <2>5, <4>1, <4>2
    <3>2. CASE ~(i > N)
      <4>1. i \in 1..N /\ i + 1 \in (a + 1)..(N + 1) /\ (i = a \/ i \in (a + 1)..(N + 1))
        BY <1>0, <2>3, <3>2
      <4>2. ev[i].kind = "call" => StopAt(ev, i) \in (a + 1)..(N + 1)
        <5> SUFFICES ASSUME ev[i].kind = "call" PROVE StopAt(ev, i) \in (a + 1)..(N + 1)
          OBVIOUS
        <5>1. i \in Calls(ev)
          BY <4>1 DEF Calls
        <5>2. StopAt(ev, i) \in (i + 1)..(N + 1)
          BY <5>1, StopIsLater
        <5> QED
          BY <1>0, <2>3, <4>1, <5>2
      <4>3. /\ g[i + 1] = f[i + 1]
            /\ ev[i].kind = "call" => g[StopAt(ev, i)] = f[StopAt(ev, i)]
        BY <2>5, <4>1, <4>2
      <4>4. BuildFrom(ev, f, i) = BuildFrom(ev, g, i)
        BY <4>3, Zenon DEF BuildFrom
      <4>5. g[i] = BuildFrom(ev, f, i)
        BY <2>5, <2>6, <4>1
      <4> QED
        BY <4>4, <4>5
    <3> QED
      BY <3>1, <3>2
  <2>9. g = [i \in a..(N + 1) |-> BuildFrom(ev, g, i)]
    BY <2>7, <2>8
  <2>10. Built(ev, g, m)
    BY <2>9 DEF Built, a
  <2> QED
    BY <1>2, <2>10
<1> QED
  BY <1>3, <1>4

\* buildContext(): what is shown of such events pairs their calls and results.
LEMMA ContextPairs ==
    ASSUME NEW ev \in Seq(Events), Presentable(ev)
    PROVE  PairedIn(buildContext(ev))
<1> DEFINE N == Len(ev)
           f == CHOOSE g : g = [i \in 1..(N + 1) |->
                    IF i > N THEN <<>>
                    ELSE IF ev[i].kind = "call" THEN Group(ev, i) \o g[StopAt(ev, i)]
                    ELSE <<Rendered(ev[i])>> \o g[i + 1]]
<1>1. buildContext(ev) = f[1]
  BY Zenon DEF buildContext
<1>2. N \in Nat /\ DOMAIN ev = 1..N
  OBVIOUS
<1>3. f = [i \in 1..(N + 1) |->
             IF i > N THEN <<>>
             ELSE IF ev[i].kind = "call" THEN Group(ev, i) \o f[StopAt(ev, i)]
             ELSE <<Rendered(ev[i])>> \o f[i + 1]]
  <2> HIDE DEF f
  <2>1. \E g : Built(ev, g, N)
    BY <1>2, BuiltExists
  <2>2. PICK g : Built(ev, g, N)
    BY <2>1
  <2>3. N + 1 - N = 1
    BY <1>2
  <2>4. g = [i \in 1..(N + 1) |-> BuildFrom(ev, g, i)]
    BY <2>2, <2>3 DEF Built
  <2>5. \E h : h = [i \in 1..(N + 1) |->
                     IF i > N THEN <<>>
                     ELSE IF ev[i].kind = "call" THEN Group(ev, i) \o h[StopAt(ev, i)]
                     ELSE <<Rendered(ev[i])>> \o h[i + 1]]
    BY <2>4, Zenon DEF BuildFrom
  <2> USE DEF f
  <2> QED
    BY <2>5, Zenon
<1> HIDE DEF f
<1> DEFINE Fine(j) == SettledAt(ev, j) => f[j] \in Seq(Messages) /\ PairedIn(f[j])
           U == {j \in 1..(N + 1) : Fine(j)}
<1>4. N + 1 \in U
  <2>1. f[N + 1] = <<>>
    BY <1>2, <1>3
  <2>2. <<>> \in Seq(Messages) /\ PairedIn(<<>>)
    <3> DEFINE p == <<>>
    <3>1. p \in Seq(Messages) /\ \A i \in DOMAIN p : FALSE
      OBVIOUS
    <3> HIDE DEF p
    <3>2. p \in Seq(Messages) /\ PairedIn(p)
      BY <3>1, OthersPair
    <3> QED
      BY <3>2 DEF p
  <2>3. Fine(N + 1)
    BY <2>1, <2>2
  <2>4. N + 1 \in 1..(N + 1)
    BY <1>2
  <2> HIDE DEF Fine, N
  <2> QED
    BY <2>3, <2>4
<1>5. ASSUME NEW j \in 1..N, \A k \in (j + 1)..(N + 1) : k \in U PROVE j \in U
  <2>1. j \in 1..(N + 1) /\ ~(j > N) /\ j \in Nat
    BY <1>2
  <2> SUFFICES ASSUME SettledAt(ev, j) PROVE f[j] \in Seq(Messages) /\ PairedIn(f[j])
    BY <2>1
  <2>2. \A k \in (j + 1)..(N + 1) : Fine(k)
    BY <1>5
  <2> HIDE DEF U
  <2>3. CASE ev[j].kind = "call"
    <3>1. j \in Calls(ev)
      BY <1>2, <2>3 DEF Calls
    <3>2. StopAt(ev, j) \in (j + 1)..(N + 1)
      BY <3>1, StopIsLater
    <3>3. f[j] = Group(ev, j) \o f[StopAt(ev, j)]
      BY <1>3, <2>1, <2>3
    <3>4. SettledAt(ev, StopAt(ev, j))
      BY <3>1, SpanIs
    <3>5. f[StopAt(ev, j)] \in Seq(Messages) /\ PairedIn(f[StopAt(ev, j)])
      BY <2>2, <3>2, <3>4
    <3>6. Group(ev, j) \in Seq(Messages) /\ PairedIn(Group(ev, j))
      BY <3>1, GroupIs
    <3> QED
      BY <3>3, <3>5, <3>6, PairedJoin
  <2>4. CASE ev[j].kind # "call"
    <3>1. j \notin Results(ev)
      <4> SUFFICES ASSUME j \in Results(ev) PROVE FALSE
        OBVIOUS
      <4>1. PICK c \in Calls(ev) : ev[c].seq = ev[j].use
        BY DEF Presentable, Ordered
      <4>2. c < j /\ c \in Nat
        BY <4>1 DEF Presentable, ResultsFollow, Calls
      <4>3. j <= c
        BY <2>1, <4>1 DEF SettledAt
      <4> QED
        BY <2>1, <4>2, <4>3
    <3>2. SettledAt(ev, j + 1)
      <4> SUFFICES ASSUME NEW r \in Results(ev), NEW c \in Calls(ev), ev[r].use = ev[c].seq, j + 1 <= r
                   PROVE  j + 1 <= c
        BY DEF SettledAt
      <4>1. r \in Nat /\ c \in Nat /\ ev[c].kind = "call"
        BY DEF Results, Calls
      <4>2. j <= c
        BY <2>1, <4>1 DEF SettledAt
      <4>3. c # j
        BY <2>4, <4>1
      <4> QED
        BY <2>1, <4>1, <4>2, <4>3
    <3>3. f[j] = <<Rendered(ev[j])>> \o f[j + 1]
      BY <1>3, <2>1, <2>4
    <3>4. j + 1 \in (j + 1)..(N + 1)
      BY <1>2, <2>1
    <3>5. f[j + 1] \in Seq(Messages) /\ PairedIn(f[j + 1])
      BY <2>2, <3>2, <3>4
    <3>6. /\ Rendered(ev[j]) \in Messages /\ Rendered(ev[j]).calls = {}
          /\ Rendered(ev[j]).role # "tool"
      <4>1. ev[j] \in Events /\ ev[j].kind # "result"
        BY <1>2, <3>1 DEF Results
      <4> QED
        BY <4>1, RenderedIs
    <3>7. <<Rendered(ev[j])>> \in Seq(Messages) /\ PairedIn(<<Rendered(ev[j])>>)
      <4> DEFINE p == <<Rendered(ev[j])>>
      <4>1. p \in Seq(Messages) /\ \A i \in DOMAIN p : p[i] = Rendered(ev[j])
        BY <3>6
      <4> HIDE DEF p
      <4>2. \A i \in DOMAIN p : p[i].calls = {} /\ p[i].role # "tool"
        BY <3>6, <4>1
      <4>3. p \in Seq(Messages) /\ PairedIn(p)
        BY <4>1, <4>2, OthersPair
      <4> QED
        BY <4>3 DEF p
    <3> QED
      BY <3>3, <3>5, <3>7, PairedJoin
  <2> QED
    BY <2>3, <2>4
<1>6. 1 \in U
  <2> HIDE DEF U
  <2> QED
    BY <1>2, <1>4, <1>5, Downward
<1>7. SettledAt(ev, 1)
  BY DEF SettledAt, Calls
<1> QED
  BY <1>1, <1>6, <1>7

\* Of two positions the earlier one has the smaller number.
LEMMA NthOrder ==
    ASSUME NEW n \in Nat, NEW S \in SUBSET (1..n),
           NEW i \in 1..Cardinality(S), NEW k \in 1..Cardinality(S), i < k
    PROVE  Nth(S, i) < Nth(S, k)
<1> DEFINE a == Nth(S, i)
           c == Nth(S, k)
<1>1. /\ a \in S /\ Cardinality(UpTo(S, a)) = i
      /\ c \in S /\ Cardinality(UpTo(S, c)) = k
  BY NthIs
<1> HIDE DEF a, c
<1>2. a \in Nat /\ c \in Nat /\ \A x \in S : x \in Nat
  BY <1>1
<1>3. i \in Nat /\ k \in Nat
  BY UpToFinite
<1>4. ASSUME c <= a PROVE FALSE
  <2>4. \A x \in S : x <= c => x <= a
    BY <1>1, <1>2, <1>4
  <2>1. UpTo(S, c) \in SUBSET UpTo(S, a)
    BY <2>4, Zenon DEF UpTo
  <2>2. IsFiniteSet(UpTo(S, a))
    BY UpToFinite
  <2>3. k <= i
    BY <1>1, <2>1, <2>2, FS_Subset
  <2> QED
    BY <1>3, <2>3
<1>5. a < c
  BY <1>2, <1>4
<1> QED
  BY <1>5 DEF a, c

\* What a branch shows of a thread in order, when none of its calls is cut from its result.
LEMMA ShownIsPresentable ==
    ASSUME NEW th \in Seq(Events), Sound(th), Ordered(th),
           NEW q \in 0..Len(th), OpenFrom(th, q),
           NEW S \in SUBSET DOMAIN th,
           \A i \in Calls(th), r \in Results(th) : th[r].use = th[i].seq => (i \in S <=> r \in S)
    PROVE  EventsAt(th, S) \in Seq(Events) /\ Presentable(EventsAt(th, S))
<1> DEFINE ev == EventsAt(th, S)
           D == 1..Cardinality(S)
           P == [k \in D |-> Nth(S, k)]
<1>1. /\ ev \in Seq(Events) /\ DOMAIN ev = D
      /\ \A k \in D : k \in Nat /\ P[k] \in S /\ ev[k] = th[P[k]]
      /\ \A p \in S : \E k \in D : P[k] = p
  <2>1. /\ EventsAt(th, S) \in Seq(Events)
        /\ Len(EventsAt(th, S)) = Cardinality(S) /\ Cardinality(S) \in Nat
        /\ \A k \in D : Nth(S, k) \in S /\ EventsAt(th, S)[k] = th[Nth(S, k)]
        /\ \A p \in S : \E k \in D : Nth(S, k) = p
    BY EventsAtAre
  <2> QED
    BY <2>1
<1>2. \A i, k \in D : i < k => P[i] < P[k]
  <2>1. S \in SUBSET (1..Len(th)) /\ Len(th) \in Nat
    OBVIOUS
  <2> QED
    BY <2>1, NthOrder
<1> HIDE DEF ev, P, D
<1>3. \A p \in S : p \in Nat /\ p \in DOMAIN th
  OBVIOUS
<1>4. \A i, k \in D : P[i] < P[k] => i < k
  <2> SUFFICES ASSUME NEW i \in D, NEW k \in D, P[i] < P[k], ~(i < k) PROVE FALSE
    OBVIOUS
  <2>1. i = k \/ k < i
    BY <1>1
  <2>2. P[i] \in Nat /\ P[k] \in Nat
    BY <1>1, <1>3
  <2> QED
    BY <1>2, <2>1, <2>2
<1>5. \A i, k \in D : P[i] = P[k] => i = k
  <2> SUFFICES ASSUME NEW i \in D, NEW k \in D, P[i] = P[k], i # k PROVE FALSE
    OBVIOUS
  <2>1. i < k \/ k < i
    BY <1>1
  <2>2. P[i] \in Nat
    BY <1>1, <1>3
  <2> QED
    BY <1>2, <2>1, <2>2
<1>6. /\ \A i \in Calls(ev) : i \in D /\ P[i] \in Calls(th) /\ ev[i] = th[P[i]]
      /\ \A r \in Results(ev) : r \in D /\ P[r] \in Results(th) /\ ev[r] = th[P[r]]
  BY <1>1, <1>3 DEF Calls, Results
<1>7. /\ \A i \in D : P[i] \in Calls(th) => i \in Calls(ev)
      /\ \A r \in D : P[r] \in Results(th) => r \in Results(ev)
  BY <1>1 DEF Calls, Results
<1>8. CallsDiffer(ev) /\ OneResult(ev)
  BY <1>5, <1>6 DEF Sound, CallsDiffer, OneResult
<1>9. ResultsFollow(ev)
  BY <1>4, <1>6 DEF Sound, ResultsFollow
<1>10. \A i \in Calls(ev) : HasResult(ev, i) <=> HasResult(th, P[i])
  <2> SUFFICES ASSUME NEW i \in Calls(ev) PROVE HasResult(ev, i) <=> HasResult(th, P[i])
    OBVIOUS
  <2>1. HasResult(ev, i) => HasResult(th, P[i])
    BY <1>6 DEF HasResult
  <2>2. ASSUME NEW r \in Results(th), th[r].use = th[P[i]].seq PROVE HasResult(ev, i)
    <3>1. r \in S
      BY <1>1, <1>6, <2>2
    <3>2. PICK m \in D : P[m] = r
      BY <1>1, <3>1
    <3>3. m \in Results(ev) /\ ev[m] = th[r] /\ ev[i] = th[P[i]]
      BY <1>1, <1>6, <1>7, <3>2
    <3> QED
      BY <2>2, <3>3 DEF HasResult
  <2> QED
    BY <2>1, <2>2 DEF HasResult
<1>11. Ordered(ev)
  <2>1. ASSUME NEW r \in Results(ev) PROVE \E i \in Calls(ev) : ev[i].seq = ev[r].use
    <3>1. PICK i \in Calls(th) : th[i].seq = th[P[r]].use
      BY <1>6 DEF Ordered
    <3>2. i \in S
      BY <1>1, <1>6, <3>1
    <3>3. PICK m \in D : P[m] = i
      BY <1>1, <3>2
    <3>4. m \in Calls(ev) /\ ev[m] = th[i]
      BY <1>1, <1>7, <3>3
    <3> QED
      BY <1>6, <3>1, <3>4
  <2>2. ASSUME NEW i \in Calls(ev), NEW k \in Calls(ev), NEW r \in Results(ev),
               ev[r].use = ev[i].seq, i < k, k < r
        PROVE  AllCalls(ev, i, k)
    <3>1. P[i] < P[k] /\ P[k] < P[r]
      BY <1>2, <1>6, <2>2
    <3>2. th[P[r]].use = th[P[i]].seq
      BY <1>6, <2>2
    <3>3. AllCalls(th, P[i], P[k])
      BY <1>6, <3>1, <3>2, Zenon DEF Ordered
    <3>4. ASSUME NEW j \in i..k PROVE ev[j].kind = "call"
      <4>1. j \in D /\ (j = i \/ j = k \/ (i < j /\ j < k))
        <5>1. i \in Nat /\ k \in Nat /\ i \in 1..Cardinality(S) /\ k \in 1..Cardinality(S)
              /\ Cardinality(S) \in Nat
          BY <1>1, <1>6, EventsAtAre DEF D
        <5> QED
          BY <5>1 DEF D
      <4>2. P[j] \in P[i]..P[k]
        <5>1. P[i] \in Nat /\ P[k] \in Nat /\ P[j] \in Nat
          BY <1>1, <1>3, <1>6, <4>1
        <5>2. P[j] = P[i] \/ P[j] = P[k] \/ (P[i] < P[j] /\ P[j] < P[k])
          BY <1>2, <1>6, <4>1
        <5> QED
          BY <3>1, <5>1, <5>2
      <4> QED
        BY <1>1, <3>3, <4>1, <4>2 DEF AllCalls
    <3> QED
      BY <3>4 DEF AllCalls
  <2> QED
    BY <2>1, <2>2, Zenon DEF Ordered
<1>12. ASSUME NEW i \in Calls(ev), NEW k \in Calls(ev), i < k, AllCalls(ev, i, k)
       PROVE  HasResult(ev, i) <=> HasResult(ev, k)
  <2>1. /\ P[i] \in Calls(th) /\ P[k] \in Calls(th) /\ P[i] < P[k]
        /\ P[i] \in Nat /\ P[k] \in Nat /\ q \in Nat
    BY <1>1, <1>2, <1>3, <1>6, <1>12
  <2>2. ASSUME HasResult(th, P[i]), ~HasResult(th, P[k]) PROVE FALSE
    <3>1. P[k] > q
      <4>1. P[k] <= q => \E r \in Results(th) : r <= q /\ th[r].use = th[P[k]].seq
        BY <2>1, Zenon DEF OpenFrom
      <4> QED
        BY <2>1, <2>2, <4>1 DEF HasResult
    <3>2. P[i] <= q
      <4>1. P[i] > q => ~HasResult(th, P[i])
        BY <2>1, Zenon DEF OpenFrom
      <4> QED
        BY <2>1, <2>2, <4>1
    <3>3. PICK r \in Results(th) : r <= q /\ th[r].use = th[P[i]].seq
      BY <2>1, <3>2, Zenon DEF OpenFrom
    <3>4. P[i] < r /\ r \in Nat
      BY <2>1, <3>3 DEF Sound, ResultsFollow, Results
    <3>5. r \in S
      BY <1>1, <1>6, <3>3
    <3>6. PICK m \in D : P[m] = r
      BY <1>1, <3>5
    <3>7. i < m /\ m < k
      BY <1>4, <1>6, <2>1, <3>1, <3>3, <3>4, <3>6
    <3>8. m \in i..k
      BY <1>1, <1>6, <3>7
    <3>9. ev[m].kind = "call" /\ m \in Results(ev)
      BY <1>7, <1>12, <3>3, <3>6, <3>8 DEF AllCalls
    <3> QED
      BY <3>9 DEF Results
  <2>3. ASSUME HasResult(th, P[k]), ~HasResult(th, P[i]) PROVE FALSE
    <3>1. P[i] > q
      <4>1. P[i] <= q => \E r \in Results(th) : r <= q /\ th[r].use = th[P[i]].seq
        BY <2>1, Zenon DEF OpenFrom
      <4> QED
        BY <2>1, <2>3, <4>1 DEF HasResult
    <3>2. P[k] > q
      BY <2>1, <3>1
    <3>3. ~HasResult(th, P[k])
      BY <2>1, <3>2, Zenon DEF OpenFrom
    <3> QED
      BY <2>3, <3>3
  <2> QED
    BY <1>10, <2>2, <2>3, Zenon
<1>13. Presentable(ev)
  BY <1>8, <1>9, <1>11, <1>12, Zenon DEF Presentable
<1> QED
  BY <1>1, <1>13 DEF ev

\* visibleThreadForBranch(): what branch b shows are the events at some positions.
LEMMA ViewIs ==
    ASSUME NEW b
    PROVE  \E S \in SUBSET DOMAIN thread :
              /\ View(b) = EventsAt(thread, S)
              /\ \A i \in DOMAIN thread, k \in S : thread[i] = thread[k] => i \in S
<1> DEFINE line == Lineage(b)
           Shown(e) == \E i \in 1..Len(line) :
                         /\ line[i] = e.branch
                         /\ i > 1 => e.seq < branches[line[i - 1]].fork
           S == {i \in DOMAIN thread : Shown(thread[i])}
<1>1. View(b) = EventsAt(thread, S)
  BY Zenon DEF View
<1>2. S \in SUBSET DOMAIN thread
  OBVIOUS
<1>3. \A i \in DOMAIN thread, k \in S : thread[i] = thread[k] => i \in S
  <2> HIDE DEF Shown
  <2> QED
    OBVIOUS
<1> HIDE DEF S
<1> QED
  BY <1>1, <1>2, <1>3

LEMMA RepliesArePaired == ThreadInv /\ ReplyInv => CallsAreAnswered
<1> SUFFICES ASSUME ThreadInv, ReplyInv, ~forgotten, NEW b \in DOMAIN branches, Intact(b)
             PROVE  Paired(b)
  BY Zenon DEF CallsAreAnswered
<1>1. thread \in Seq(Events) /\ Sound(thread)
  BY StoreFacts
<1>2. TurnReplies /\ Ordered(thread)
  BY Zenon DEF ReplyInv, TurnReplies
<1>3. PICK q \in 0..Len(thread) : OpenFrom(thread, q)
  BY <1>2, OpensSomewhere
<1>4. PICK S \in SUBSET DOMAIN thread :
         /\ View(b) = EventsAt(thread, S)
         /\ \A i \in DOMAIN thread, k \in S : thread[i] = thread[k] => i \in S
  BY ViewIs
<1>5. \A i \in DOMAIN thread : thread[i] \in Range(View(b)) <=> i \in S
  <2>1. /\ Len(EventsAt(thread, S)) = Cardinality(S) /\ EventsAt(thread, S) \in Seq(Events)
        /\ \A k \in 1..Cardinality(S) : Nth(S, k) \in S /\ EventsAt(thread, S)[k] = thread[Nth(S, k)]
        /\ \A p \in S : \E k \in 1..Cardinality(S) : Nth(S, k) = p
    BY <1>1, EventsAtAre
  <2>2. Range(View(b)) = {View(b)[k] : k \in 1..Cardinality(S)}
    BY <1>4, <2>1 DEF Range
  <2> QED
    BY <1>4, <2>1, <2>2
<1>6. \A i \in Calls(thread), r \in Results(thread) :
         thread[r].use = thread[i].seq => (i \in S <=> r \in S)
  <2>1. Positions("call") = Calls(thread) /\ Positions("result") = Results(thread)
    BY DEF Positions, Calls, Results
  <2>2. \A i \in Calls(thread), r \in Results(thread) : i \in DOMAIN thread /\ r \in DOMAIN thread
    BY DEF Calls, Results
  <2>3. \A i \in Calls(thread), r \in Results(thread) : thread[r].use = thread[i].seq
           => (thread[i] \in Range(View(b))) = (thread[r] \in Range(View(b)))
    BY <2>1, Zenon DEF Intact
  <2> QED
    BY <1>5, <2>2, <2>3
<1>7. View(b) \in Seq(Events) /\ Presentable(View(b))
  BY <1>1, <1>2, <1>3, <1>4, <1>6, ShownIsPresentable
<1>8. PairedIn(buildContext(View(b)))
  BY <1>7, ContextPairs
<1> QED
  BY <1>8 DEF Paired, Prompts

\* In every state the thread has at most one result for each call; and as long as no abort
\* has left calls of its turn behind, the model's context pairs the calls and results of
\* every branch that shows both or neither of each (buildContext(), interruptSession(),
\* rehydrateAfterStartup()).
THEOREM CallsAndResultsArePaired == Spec => []CallsAndResultsPair
BY RepliesArePaired, RepliesAlways, CallsAreAnsweredOnce, PTL DEF CallsAndResultsPair
=============================================================================
