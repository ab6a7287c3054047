---------------------- MODULE SessionSupervisor_proofs ----------------------
(***************************************************************************)
(* Theorems about the supervisor, for any finite set of sessions and any   *)
(* positive number of slots.  The inductive invariant is TypeOK /\ SlotInv: *)
(* because no slot is idle while a session waits, every call of #drain has *)
(* at most one session to start, and the four parts of SlotInv need each   *)
(* other to be preserved.                                                  *)
(***************************************************************************)
EXTENDS SessionSupervisor, SequenceTheorems, FiniteSetTheorems, TLAPS

Elements(q) == {q[i] : i \in 1..Len(q)}

Distinct(q) == \A i, j \in 1..Len(q) : q[i] = q[j] => i = j

Inv == TypeOK /\ SlotInv

\* What #drain may be called with: a queue and a set of slots that would
\* satisfy the invariant, except that one slot may just have become free, or
\* one session may just have joined an empty queue.
Drainable(q, a) ==
    /\ q \in Seq(Sessions)
    /\ a \in SUBSET Sessions
    /\ Distinct(q)
    /\ a \cap Elements(q) = {}
    /\ Cardinality(a) <= MaxConcurrent
    /\ Len(q) <= 1 \/ MaxConcurrent - Cardinality(a) <= 1

-----------------------------------------------------------------------------

\* #drain (session-supervisor.ts) admits one session at most.
LEMMA AdmitsOne ==
    ASSUME Assumptions, NEW q, NEW a, Drainable(q, a)
    PROVE  /\ IsFiniteSet(a)
           /\ Cardinality(a) \in Nat
           /\ Len(q) \in Nat
           /\ \/ /\ Admitted(q, a) = 0
                 /\ q = <<>> \/ Cardinality(a) = MaxConcurrent
              \/ /\ Admitted(q, a) = 1
                 /\ Len(q) >= 1
                 /\ Cardinality(a) + 1 <= MaxConcurrent
                 /\ Len(q) >= 2 => Cardinality(a) + 1 = MaxConcurrent
<1>1. IsFiniteSet(a) /\ Cardinality(a) \in Nat
  BY FS_Subset, FS_CardinalityType DEF Assumptions, Drainable
<1>2. Len(q) \in Nat /\ (Len(q) = 0 <=> q = <<>>)
  BY LenProperties, EmptySeq DEF Drainable
<1>3. MaxConcurrent \in Nat
  BY DEF Assumptions
<1>4. /\ Cardinality(a) <= MaxConcurrent
      /\ Len(q) <= 1 \/ MaxConcurrent - Cardinality(a) <= 1
  BY DEF Drainable
<1>5. FreeSlots(a) = MaxConcurrent - Cardinality(a)
  BY <1>1, <1>3, <1>4 DEF FreeSlots
<1>6. Admitted(q, a) = IF Len(q) < MaxConcurrent - Cardinality(a)
                       THEN Len(q) ELSE MaxConcurrent - Cardinality(a)
  BY <1>5 DEF Admitted
<1>7. CASE Len(q) = 0 \/ Cardinality(a) = MaxConcurrent
  BY <1>1, <1>2, <1>3, <1>4, <1>6, <1>7
<1>8. CASE Len(q) # 0 /\ Cardinality(a) # MaxConcurrent
  <2>1. \A n, c, m \in Nat :
           (n # 0 /\ c # m /\ c <= m /\ (n <= 1 \/ m - c <= 1)) =>
               (IF n < m - c THEN n ELSE m - c) = 1
    OBVIOUS
  <2>2. Admitted(q, a) = 1
    BY <1>1, <1>2, <1>3, <1>4, <1>6, <1>8, <2>1
  <2>3. Len(q) >= 2 => Cardinality(a) + 1 = MaxConcurrent
    BY <1>1, <1>2, <1>3, <1>4, <1>8
  <2> QED
    BY <1>1, <1>2, <1>3, <1>4, <1>8, <2>2, <2>3
<1> QED
  BY <1>7, <1>8

\* A #drain that admits nothing changes nothing.
LEMMA DrainsNothing ==
    ASSUME NEW q \in Seq(Sessions), NEW a, Admitted(q, a) = 0
    PROVE  Started(q, a) = {} /\ Waiting(q, a) = q
<1>1. Started(q, a) = {}
  BY DEF Started
<1>2. Len(q) \in Nat /\ DOMAIN q = 1..Len(q) /\ \A i \in 1..Len(q) : q[i] \in Sessions
  BY LenProperties, ElementOfSeq
<1>3. /\ SubSeq(q, 1, Len(q)) \in Seq(Sessions)
      /\ Len(SubSeq(q, 1, Len(q))) = Len(q)
      /\ \A i \in 1..Len(q) : SubSeq(q, 1, Len(q))[i] = q[i]
  <2>1. 1 \in Int /\ Len(q) \in Int
    BY <1>2
  <2>2. Len(SubSeq(q, 1, Len(q))) = IF 1 <= Len(q) THEN Len(q) - 1 + 1 ELSE 0
    BY <1>2, <2>1, SubSeqProperties
  <2>3. \A i \in 1..(Len(q) - 1 + 1) : SubSeq(q, 1, Len(q))[i] = q[1 + i - 1]
    BY <1>2, <2>1, SubSeqProperties
  <2>4. SubSeq(q, 1, Len(q)) \in Seq(Sessions)
    BY <1>2, <2>1, SubSeqProperties
  <2> QED
    BY <1>2, <2>2, <2>3, <2>4
<1>4. SubSeq(q, 1, Len(q)) = q
  BY <1>3, SeqEqual
<1> QED
  BY <1>1, <1>2, <1>4 DEF Waiting

\* A #drain that admits one session starts the one at the head.
LEMMA DrainsOne ==
    ASSUME NEW q \in Seq(Sessions), NEW a, Admitted(q, a) = 1, Len(q) >= 1
    PROVE  /\ Started(q, a) = {q[1]}
           /\ q[1] \in Sessions
           /\ Waiting(q, a) \in Seq(Sessions)
           /\ Len(Waiting(q, a)) = Len(q) - 1
           /\ \A i \in 1..(Len(q) - 1) : Waiting(q, a)[i] = q[i + 1]
<1>1. Len(q) \in Nat /\ \A i \in 1..Len(q) : q[i] \in Sessions
  BY LenProperties, ElementOfSeq
<1>2. 1..1 = {1} /\ 1 \in 1..Len(q)
  BY <1>1
<1>3. Started(q, a) = {q[1]} /\ q[1] \in Sessions
  BY <1>1, <1>2 DEF Started
<1>4. \A i \in 2..Len(q) : q[i] \in Sessions
  BY <1>1
<1> DEFINE w == SubSeq(q, 2, Len(q))
<1>5. /\ w \in Seq(Sessions)
      /\ Len(w) = IF 2 <= Len(q) THEN Len(q) - 2 + 1 ELSE 0
      /\ \A i \in 1..(Len(q) - 2 + 1) : w[i] = q[2 + i - 1]
  BY <1>1, <1>4, SubSeqProperties
<1>6. Waiting(q, a) = w
  BY DEF Waiting
<1> HIDE DEF w
<1>7. Len(w) = Len(q) - 1
  <2>1. \A n \in Nat : n >= 1 => (IF 2 <= n THEN n - 2 + 1 ELSE 0) = n - 1
    OBVIOUS
  <2> QED
    BY <1>1, <1>5, <2>1
<1>8. \A i \in 1..(Len(q) - 1) : w[i] = q[i + 1]
  BY <1>1, <1>5
<1> QED
  BY <1>3, <1>5, <1>6, <1>7, <1>8

\* What the invariant says of a queue and a set of slots.
Slots(q, a) ==
    /\ q \in Seq(Sessions)
    /\ a \in SUBSET Sessions
    /\ Cardinality(a) <= MaxConcurrent
    /\ Distinct(q)
    /\ a \cap Elements(q) = {}
    /\ q # <<>> => Cardinality(a) = MaxConcurrent

\* #drain restores the invariant.
LEMMA DrainRestores ==
    ASSUME Assumptions, NEW q, NEW a, Drainable(q, a)
    PROVE  Slots(Waiting(q, a), a \cup Started(q, a))
<1>1. /\ q \in Seq(Sessions)
      /\ a \in SUBSET Sessions
      /\ Distinct(q)
      /\ a \cap Elements(q) = {}
      /\ Cardinality(a) <= MaxConcurrent
  BY DEF Drainable
<1>2. MaxConcurrent \in Nat
  BY DEF Assumptions
<1>3. CASE Admitted(q, a) = 0
  <2>1. Started(q, a) = {} /\ Waiting(q, a) = q
    BY <1>1, <1>3, DrainsNothing
  <2>2. q = <<>> \/ Cardinality(a) = MaxConcurrent
    BY <1>3, AdmitsOne
  <2>3. a \cup {} = a
    OBVIOUS
  <2> QED
    BY <1>1, <2>1, <2>2, <2>3 DEF Slots
<1>4. CASE Admitted(q, a) = 1
  <2>1. /\ IsFiniteSet(a)
        /\ Cardinality(a) \in Nat
        /\ Len(q) \in Nat
        /\ Len(q) >= 1
        /\ Cardinality(a) + 1 <= MaxConcurrent
        /\ Len(q) >= 2 => Cardinality(a) + 1 = MaxConcurrent
    BY <1>4, AdmitsOne
  <2> DEFINE w == Waiting(q, a)
             b == a \cup {q[1]}
  <2>2. /\ Started(q, a) = {q[1]}
        /\ q[1] \in Sessions
        /\ w \in Seq(Sessions)
        /\ Len(w) = Len(q) - 1
        /\ \A i \in 1..(Len(q) - 1) : w[i] = q[i + 1]
    BY <1>1, <1>4, <2>1, DrainsOne
  <2> HIDE DEF w
  <2>3. q[1] \notin a
    BY <1>1, <2>1 DEF Elements
  <2>4. Cardinality(b) = Cardinality(a) + 1
    BY <2>1, <2>3, FS_AddElement
  <2>5. Distinct(w)
    <3>1. SUFFICES ASSUME NEW i \in 1..Len(w), NEW j \in 1..Len(w), w[i] = w[j]
                   PROVE  i = j
      BY DEF Distinct
    <3>2. i + 1 \in 1..Len(q) /\ j + 1 \in 1..Len(q) /\ q[i + 1] = q[j + 1]
      BY <2>1, <2>2, <3>1
    <3> QED
      BY <1>1, <3>2 DEF Distinct
  <2>6. b \cap Elements(w) = {}
    <3>1. SUFFICES ASSUME NEW i \in 1..Len(w), w[i] \in b
                   PROVE  FALSE
      BY DEF Elements
    <3>2. i + 1 \in 1..Len(q) /\ w[i] = q[i + 1] /\ 1 \in 1..Len(q) /\ i + 1 # 1
      BY <2>1, <2>2
    <3>3. q[i + 1] \notin a
      BY <1>1, <3>2 DEF Elements
    <3>4. q[i + 1] # q[1]
      BY <1>1, <3>2 DEF Distinct
    <3> QED
      BY <3>1, <3>2, <3>3, <3>4
  <2>7. w # <<>> => Cardinality(b) = MaxConcurrent
    <3>1. w # <<>> => Len(w) # 0
      BY <2>2, EmptySeq
    <3> QED
      BY <2>1, <2>2, <2>4, <3>1
  <2> QED
    BY <1>1, <2>1, <2>2, <2>4, <2>5, <2>6, <2>7 DEF Slots, w
<1> QED
  BY <1>3, <1>4, AdmitsOne


\* Whatever the queue and the slots, #drain moves sessions from one to the other.
LEMMA DrainTyped ==
    ASSUME Assumptions, NEW q \in Seq(Sessions), NEW a \in SUBSET Sessions
    PROVE  Waiting(q, a) \in Seq(Sessions) /\ Started(q, a) \in SUBSET Sessions
<1>1. Len(q) \in Nat /\ \A i \in 1..Len(q) : q[i] \in Sessions
  BY LenProperties, ElementOfSeq
<1>2. IsFiniteSet(a) /\ Cardinality(a) \in Nat /\ MaxConcurrent \in Nat
  BY FS_Subset, FS_CardinalityType DEF Assumptions
<1>3. FreeSlots(a) \in Nat
  BY <1>2 DEF FreeSlots
<1>4. Admitted(q, a) \in Nat /\ Admitted(q, a) <= Len(q)
  BY <1>1, <1>3 DEF Admitted
<1>5. Started(q, a) \in SUBSET Sessions
  BY <1>1, <1>4 DEF Started
<1>6. \A i \in (Admitted(q, a) + 1)..Len(q) : q[i] \in Sessions
  BY <1>1, <1>4
<1>7. SubSeq(q, Admitted(q, a) + 1, Len(q)) \in Seq(Sessions)
  BY <1>1, <1>4, <1>6, SubSeqProperties
<1> QED
  BY <1>5, <1>7 DEF Waiting

\* Taking a session out of the queue moves those behind it one place up.
LEMMA WithoutShifts ==
    ASSUME NEW q \in Seq(Sessions), NEW s, \E i \in 1..Len(q) : q[i] = s
    PROVE  \E k \in 1..Len(q) :
              /\ q[k] = s
              /\ Without(q, s) \in Seq(Sessions)
              /\ Len(Without(q, s)) = Len(q) - 1
              /\ \A i \in 1..(Len(q) - 1) :
                    Without(q, s)[i] = q[IF i < k THEN i ELSE i + 1]
<1>1. Len(q) \in Nat /\ \A i \in 1..Len(q) : q[i] \in Sessions
  BY LenProperties, ElementOfSeq
<1> DEFINE k == CHOOSE i \in 1..Len(q) : q[i] = s
           l == SubSeq(q, 1, k - 1)
           r == SubSeq(q, k + 1, Len(q))
           w == l \o r
<1>2. k \in 1..Len(q) /\ q[k] = s
  OBVIOUS
<1>3. Without(q, s) = w
  BY DEF Without
<1> HIDE DEF k
<1>4. /\ l \in Seq(Sessions)
      /\ Len(l) = IF 1 <= k - 1 THEN k - 1 - 1 + 1 ELSE 0
      /\ \A i \in 1..(k - 1 - 1 + 1) : l[i] = q[1 + i - 1]
  <2>1. \A i \in 1..(k - 1) : q[i] \in Sessions
    BY <1>1, <1>2
  <2> QED
    BY <1>1, <1>2, <2>1, SubSeqProperties
<1>5. /\ r \in Seq(Sessions)
      /\ Len(r) = IF k + 1 <= Len(q) THEN Len(q) - (k + 1) + 1 ELSE 0
      /\ \A i \in 1..(Len(q) - (k + 1) + 1) : r[i] = q[k + 1 + i - 1]
  <2>1. \A i \in (k + 1)..Len(q) : q[i] \in Sessions
    BY <1>1, <1>2
  <2> QED
    BY <1>1, <1>2, <2>1, SubSeqProperties
<1> HIDE DEF l, r
<1>6. /\ w \in Seq(Sessions)
      /\ Len(w) = Len(l) + Len(r)
      /\ \A i \in 1..(Len(l) + Len(r)) : w[i] = IF i <= Len(l) THEN l[i] ELSE r[i - Len(l)]
  BY <1>4, <1>5, ConcatProperties
<1> HIDE DEF w
<1>7. Len(l) = k - 1 /\ Len(r) = Len(q) - k
  BY <1>1, <1>2, <1>4, <1>5
<1>8. Len(w) = Len(q) - 1
  BY <1>1, <1>2, <1>6, <1>7
<1>9. ASSUME NEW i \in 1..(Len(q) - 1)
      PROVE  w[i] = q[IF i < k THEN i ELSE i + 1]
  <2>1. CASE i < k
    <3>1. i <= Len(l) /\ i \in 1..(Len(l) + Len(r)) /\ i \in 1..(k - 1 - 1 + 1)
      BY <1>1, <1>2, <1>7, <1>8, <2>1
    <3>2. w[i] = l[i] /\ l[i] = q[1 + i - 1] /\ 1 + i - 1 = i
      BY <1>4, <1>6, <3>1
    <3> QED
      BY <2>1, <3>2
  <2>2. CASE ~ (i < k)
    <3>1. /\ ~ (i <= Len(l))
          /\ i \in 1..(Len(l) + Len(r))
          /\ i - Len(l) \in 1..(Len(q) - (k + 1) + 1)
          /\ k + 1 + (i - Len(l)) - 1 = i + 1
      BY <1>1, <1>2, <1>7, <1>8, <2>2
    <3>2. w[i] = r[i - Len(l)]
      BY <1>6, <3>1
    <3>3. r[i - Len(l)] = q[k + 1 + (i - Len(l)) - 1]
      BY <1>5, <3>1
    <3> QED
      BY <2>2, <3>1, <3>2, <3>3
  <2> QED
    BY <2>1, <2>2
<1> QED
  BY <1>2, <1>3, <1>6, <1>8, <1>9

\* dequeue() takes the session out and keeps the order of the others.
LEMMA WithoutKeepsOrder ==
    ASSUME NEW q \in Seq(Sessions), NEW s
    PROVE  /\ Without(q, s) \in Seq(Sessions)
           /\ \E f \in [1..Len(Without(q, s)) -> 1..Len(q)] :
                 /\ \A i \in 1..Len(Without(q, s)) : Without(q, s)[i] = q[f[i]]
                 /\ \A i, j \in 1..Len(Without(q, s)) : i < j => f[i] < f[j]
<1>1. Len(q) \in Nat
  BY LenProperties
<1>2. CASE ~ \E i \in 1..Len(q) : q[i] = s
  <2>1. Without(q, s) = q
    BY <1>2 DEF Without
  <2> DEFINE g == [i \in 1..Len(q) |-> i]
  <2>2. /\ g \in [1..Len(q) -> 1..Len(q)]
        /\ \A i \in 1..Len(q) : q[i] = q[g[i]]
        /\ \A i, j \in 1..Len(q) : i < j => g[i] < g[j]
    OBVIOUS
  <2> HIDE DEF g
  <2> QED
    BY <2>1, <2>2
<1>3. CASE \E i \in 1..Len(q) : q[i] = s
  <2> DEFINE w == Without(q, s)
  <2>1. PICK k \in 1..Len(q) :
           /\ w \in Seq(Sessions)
           /\ Len(w) = Len(q) - 1
           /\ \A i \in 1..(Len(q) - 1) : w[i] = q[IF i < k THEN i ELSE i + 1]
    BY <1>3, WithoutShifts
  <2> HIDE DEF w
  <2> DEFINE f == [i \in 1..(Len(q) - 1) |-> IF i < k THEN i ELSE i + 1]
  <2>2. f \in [1..Len(w) -> 1..Len(q)]
    BY <1>1, <2>1
  <2>3. \A i \in 1..Len(w) : w[i] = q[f[i]]
    BY <1>1, <2>1
  <2>4. \A i, j \in 1..Len(w) : i < j => f[i] < f[j]
    BY <1>1, <2>1
  <2> HIDE DEF f
  <2> QED
    BY <2>1, <2>2, <2>3, <2>4 DEF w
<1> QED
  BY <1>2, <1>3

\* dequeue(s) takes out s and nobody else.
LEMMA WithoutForgets ==
    ASSUME NEW q \in Seq(Sessions), Distinct(q), NEW s
    PROVE  Elements(Without(q, s)) = Elements(q) \ {s}
<1>1. Len(q) \in Nat
  BY LenProperties
<1>2. CASE ~ \E i \in 1..Len(q) : q[i] = s
  BY <1>2 DEF Without, Elements
<1>3. CASE \E i \in 1..Len(q) : q[i] = s
  <2> DEFINE w == Without(q, s)
  <2>1. PICK k \in 1..Len(q) :
           /\ q[k] = s
           /\ Len(w) = Len(q) - 1
           /\ \A i \in 1..(Len(q) - 1) : w[i] = q[IF i < k THEN i ELSE i + 1]
    BY <1>3, WithoutShifts
  <2> HIDE DEF w
  <2>2. ASSUME NEW i \in 1..Len(w)
        PROVE  w[i] \in Elements(q) \ {s}
    <3> DEFINE j == IF i < k THEN i ELSE i + 1
    <3>1. j \in 1..Len(q) /\ j # k /\ w[i] = q[j]
      BY <1>1, <2>1
    <3> QED
      BY <2>1, <3>1 DEF Elements, Distinct
  <2>3. ASSUME NEW j \in 1..Len(q), q[j] # s
        PROVE  q[j] \in Elements(w)
    <3> DEFINE i == IF j < k THEN j ELSE j - 1
    <3>1. /\ i \in 1..Len(w)
          /\ i \in 1..(Len(q) - 1)
          /\ (IF i < k THEN i ELSE i + 1) = j
      BY <1>1, <2>1, <2>3
    <3>2. w[i] = q[j]
      BY <2>1, <3>1
    <3> QED
      BY <3>1, <3>2 DEF Elements
  <2> QED
    BY <2>2, <2>3 DEF Elements, w
<1> QED
  BY <1>2, <1>3

\* dequeue() keeps the invariant.
LEMMA WithoutRestores ==
    ASSUME NEW q, NEW a, Slots(q, a), NEW s
    PROVE  Slots(Without(q, s), a)
<1> DEFINE w == Without(q, s)
<1>1. q \in Seq(Sessions) /\ Distinct(q) /\ a \cap Elements(q) = {}
  BY DEF Slots
<1>2. w \in Seq(Sessions)
  BY <1>1, WithoutKeepsOrder
<1>3. PICK f \in [1..Len(w) -> 1..Len(q)] :
         /\ \A i \in 1..Len(w) : w[i] = q[f[i]]
         /\ \A i, j \in 1..Len(w) : i < j => f[i] < f[j]
  BY <1>1, WithoutKeepsOrder
<1> HIDE DEF w
<1>4. Len(w) \in Nat /\ Len(q) \in Nat
  BY <1>1, <1>2, LenProperties
<1>5. Distinct(w)
  <2>1. SUFFICES ASSUME NEW i \in 1..Len(w), NEW j \in 1..Len(w), w[i] = w[j], i # j
                 PROVE  FALSE
    BY DEF Distinct
  <2>2. /\ f[i] \in 1..Len(q) /\ f[j] \in 1..Len(q)
        /\ q[f[i]] = q[f[j]]
        /\ f[i] < f[j] \/ f[j] < f[i]
    BY <1>3, <1>4, <2>1
  <2> QED
    BY <1>1, <1>4, <2>2 DEF Distinct
<1>6. a \cap Elements(w) = {}
  BY <1>1, <1>3 DEF Elements
<1>7. w # <<>> => q # <<>>
  <2>1. w # <<>> => 1 \in 1..Len(w)
    BY <1>2, <1>4, EmptySeq
  <2>2. q = <<>> => 1..Len(q) = {}
    BY EmptySeq
  <2> QED
    BY <1>3, <2>1, <2>2
<1> QED
  BY <1>2, <1>5, <1>6, <1>7 DEF Slots, w

\* enqueue() calls #drain with one session more at the end of the queue.
LEMMA EnqueueDrainable ==
    ASSUME Assumptions, NEW q, NEW a, Slots(q, a),
           NEW s \in Sessions, s \notin a, s \notin Elements(q)
    PROVE  Drainable(Append(q, s), a)
<1> DEFINE w == Append(q, s)
<1>1. /\ q \in Seq(Sessions) /\ Distinct(q) /\ a \cap Elements(q) = {}
      /\ a \in SUBSET Sessions /\ Cardinality(a) <= MaxConcurrent
      /\ q # <<>> => Cardinality(a) = MaxConcurrent
  BY DEF Slots
<1>2. Len(q) \in Nat /\ MaxConcurrent \in Nat
  BY <1>1, LenProperties DEF Assumptions
<1>3. /\ w \in Seq(Sessions)
      /\ Len(w) = Len(q) + 1
      /\ \A i \in 1..Len(q) : w[i] = q[i]
      /\ w[Len(q) + 1] = s
  BY <1>1, AppendProperties
<1> HIDE DEF w
<1>4. \A i \in 1..Len(w) : i \in 1..Len(q) \/ i = Len(q) + 1
  BY <1>2, <1>3
<1>5. Distinct(w)
  <2>1. SUFFICES ASSUME NEW i \in 1..Len(w), NEW j \in 1..Len(w), w[i] = w[j]
                 PROVE  i = j
    BY DEF Distinct
  <2>2. CASE i \in 1..Len(q) /\ j \in 1..Len(q)
    BY <1>1, <1>3, <2>1, <2>2 DEF Distinct
  <2>3. CASE i = Len(q) + 1 /\ j = Len(q) + 1
    BY <2>3
  <2>4. CASE i \in 1..Len(q) /\ j = Len(q) + 1
    BY <1>3, <2>1, <2>4 DEF Elements
  <2>5. CASE i = Len(q) + 1 /\ j \in 1..Len(q)
    BY <1>3, <2>1, <2>5 DEF Elements
  <2> QED
    BY <1>4, <2>2, <2>3, <2>4, <2>5
<1>6. a \cap Elements(w) = {}
  BY <1>1, <1>3, <1>4 DEF Elements
<1>7. Len(w) <= 1 \/ MaxConcurrent - Cardinality(a) <= 1
  <2>1. q = <<>> => Len(w) = 1
    BY <1>3, EmptySeq
  <2>2. Cardinality(a) = MaxConcurrent => MaxConcurrent - Cardinality(a) <= 1
    BY <1>2
  <2> QED
    BY <1>1, <1>2, <1>3, <2>1, <2>2
<1> QED
  BY <1>1, <1>3, <1>5, <1>6, <1>7 DEF Drainable, w

\* #drain neither loses a queued session nor invents one.
LEMMA DrainSplits ==
    ASSUME Assumptions, NEW q, NEW a, Drainable(q, a)
    PROVE  Elements(q) = Started(q, a) \cup Elements(Waiting(q, a))
<1>1. q \in Seq(Sessions)
  BY DEF Drainable
<1>2. CASE Admitted(q, a) = 0
  BY <1>1, <1>2, DrainsNothing
<1>3. CASE Admitted(q, a) = 1
  <2>1. Len(q) \in Nat /\ Len(q) >= 1
    BY <1>3, AdmitsOne
  <2> DEFINE w == Waiting(q, a)
  <2>2. /\ Started(q, a) = {q[1]}
        /\ Len(w) = Len(q) - 1
        /\ \A i \in 1..(Len(q) - 1) : w[i] = q[i + 1]
    BY <1>1, <1>3, <2>1, DrainsOne
  <2> HIDE DEF w
  <2>3. ASSUME NEW i \in 1..Len(q)
        PROVE  q[i] \in {q[1]} \cup Elements(w)
    <3>1. i = 1 \/ (i - 1 \in 1..(Len(q) - 1) /\ i - 1 + 1 = i)
      BY <2>1
    <3>2. i # 1 => w[i - 1] = q[i] /\ i - 1 \in 1..Len(w)
      BY <2>2, <3>1
    <3> QED
      BY <3>2 DEF Elements
  <2>4. ASSUME NEW i \in 1..Len(w)
        PROVE  w[i] \in Elements(q)
    <3>1. i + 1 \in 1..Len(q) /\ w[i] = q[i + 1]
      BY <2>1, <2>2
    <3> QED
      BY <3>1 DEF Elements
  <2>5. q[1] \in Elements(q)
    BY <2>1 DEF Elements
  <2> QED
    BY <2>2, <2>3, <2>4, <2>5 DEF Elements, w
<1> QED
  BY <1>2, <1>3, AdmitsOne

\* enqueue() starts the session it was called for, or none: whoever waited before
\* still waits.
LEMMA EnqueueStarts ==
    ASSUME Assumptions, NEW q, NEW a, Slots(q, a),
           NEW s \in Sessions, s \notin a, s \notin Elements(q)
    PROVE  LET w == Append(q, s)
           IN  \/ Started(w, a) = {} /\ Elements(Waiting(w, a)) = Elements(q) \cup {s}
               \/ Started(w, a) = {s} /\ Elements(Waiting(w, a)) = Elements(q)
<1> DEFINE w == Append(q, s)
<1>1. Drainable(w, a)
  BY EnqueueDrainable
<1>2. q \in Seq(Sessions) /\ (q # <<>> => Cardinality(a) = MaxConcurrent)
  BY DEF Slots
<1>3. Len(q) \in Nat
  BY <1>2, LenProperties
<1>4. /\ w \in Seq(Sessions)
      /\ Len(w) = Len(q) + 1
      /\ \A i \in 1..Len(q) : w[i] = q[i]
      /\ w[Len(q) + 1] = s
  BY <1>2, AppendProperties
<1> HIDE DEF w
<1>5. Elements(w) = Elements(q) \cup {s}
  <2>1. \A i \in 1..Len(w) : i \in 1..Len(q) \/ i = Len(q) + 1
    BY <1>3, <1>4
  <2>2. \A i \in 1..Len(q) : i \in 1..Len(w)
    BY <1>3, <1>4
  <2>3. Len(q) + 1 \in 1..Len(w)
    BY <1>3, <1>4
  <2> QED
    BY <1>4, <2>1, <2>2, <2>3 DEF Elements
<1>6. Elements(w) = Started(w, a) \cup Elements(Waiting(w, a))
  BY <1>1, DrainSplits
<1>7. CASE Admitted(w, a) = 0
  <2>1. Started(w, a) = {}
    BY <1>4, <1>7, DrainsNothing
  <2> QED
    BY <1>5, <1>6, <2>1 DEF w
<1>8. CASE Admitted(w, a) = 1
  <2>1. /\ Cardinality(a) \in Nat /\ Cardinality(a) + 1 <= MaxConcurrent
        /\ MaxConcurrent \in Nat
    BY <1>1, <1>8, AdmitsOne DEF Assumptions
  <2>2. Cardinality(a) # MaxConcurrent
    BY <2>1
  <2>3. q = <<>>
    BY <1>2, <2>2
  <2>4. Len(q) = 0
    BY <2>3, EmptySeq
  <2>5. w[1] = s /\ Len(w) >= 1
    BY <1>4, <2>4
  <2>6. Started(w, a) = {s}
    BY <1>4, <1>8, <2>5, DrainsOne
  <2>7. s \notin Elements(Waiting(w, a))
    BY <1>1, <2>6, DrainRestores DEF Slots
  <2> QED
    BY <1>5, <1>6, <2>6, <2>7 DEF w
<1> QED
  BY <1>1, <1>7, <1>8, AdmitsOne

\* The `finally` of a turn calls #drain with one slot more.
LEMMA ReleaseDrainable ==
    ASSUME Assumptions, NEW q, NEW a, Slots(q, a), NEW s \in a
    PROVE  Drainable(q, a \ {s})
<1>1. /\ q \in Seq(Sessions) /\ Distinct(q) /\ a \cap Elements(q) = {}
      /\ a \in SUBSET Sessions /\ Cardinality(a) <= MaxConcurrent
      /\ q # <<>> => Cardinality(a) = MaxConcurrent
  BY DEF Slots
<1>2. MaxConcurrent \in Nat /\ IsFiniteSet(a) /\ Cardinality(a) \in Nat
  BY <1>1, FS_Subset, FS_CardinalityType DEF Assumptions
<1>3. Cardinality(a \ {s}) = Cardinality(a) - 1
  BY <1>2, FS_RemoveElement
<1>4. q = <<>> => Len(q) <= 1
  BY EmptySeq
<1>5. Cardinality(a \ {s}) <= MaxConcurrent
  BY <1>1, <1>2, <1>3
<1>6. Len(q) <= 1 \/ MaxConcurrent - Cardinality(a \ {s}) <= 1
  BY <1>1, <1>2, <1>3, <1>4
<1> QED
  BY <1>1, <1>5, <1>6 DEF Drainable

-----------------------------------------------------------------------------

\* The invariant, in terms of the queue and the slots.
LEMMA InvIsSlots == Inv <=> Slots(queue, active) /\ runnable \in SUBSET Sessions
BY DEF Inv, TypeOK, SlotInv, ConcurrencyBound, OneTurnPerSession, WorkConserving,
       Slots, Distinct, Elements, Queued

\* An empty supervisor satisfies the invariant.
LEMMA InitEstablishesInv == ASSUME Assumptions, Init PROVE Inv
<1>1. Slots(<<>>, {})
  BY EmptySeq, FS_EmptySet DEF Assumptions, Slots, Distinct, Elements
<1> QED
  BY <1>1, InvIsSlots DEF Init

\* Every step of the supervisor and of its surroundings keeps the invariant.
LEMMA NextKeepsInv == ASSUME Assumptions, Inv, [Next]_supervisorVars PROVE Inv'
<1>1. Slots(queue, active)
  BY InvIsSlots
<1>2. Slots(queue, active)'
  <2>1. CASE UNCHANGED <<queue, active>>
    BY <1>1, <2>1
  <2>2. ASSUME NEW s \in Sessions, Enqueue(s)
        PROVE  Slots(queue, active)'
    <3>1. Drainable(Append(queue, s), active)
      BY <1>1, <2>2, EnqueueDrainable DEF Enqueue, Queued, Elements
    <3> QED
      BY <2>2, <3>1, DrainRestores DEF Enqueue, Drain
  <2>3. ASSUME NEW s \in Sessions, Dequeue(s)
        PROVE  Slots(queue, active)'
    BY <1>1, <2>3, WithoutRestores DEF Dequeue
  <2>4. ASSUME NEW s \in Sessions, Release(s)
        PROVE  Slots(queue, active)'
    <3>1. Drainable(queue, active \ {s})
      BY <1>1, <2>4, ReleaseDrainable DEF Release
    <3> QED
      BY <2>4, <3>1, DrainRestores DEF Release, Drain
  <2>5. CASE Stop
    BY <1>1, <2>5, EmptySeq DEF Stop, Slots, Distinct, Elements
  <2>6. CASE Reset
    BY <2>6, EmptySeq, FS_EmptySet DEF Assumptions, Reset, Slots, Distinct, Elements
  <2>7. CASE CoreStep
    BY <1>1, <2>7 DEF CoreStep
  <2> QED
    BY <2>1, <2>2, <2>3, <2>4, <2>5, <2>6, <2>7 DEF Next, supervisorVars
<1>3. (runnable \in SUBSET Sessions)'
  BY InvIsSlots DEF Next, supervisorVars
<1> QED
  BY <1>2, <1>3 DEF Inv, TypeOK, SlotInv, ConcurrencyBound, OneTurnPerSession,
                    WorkConserving, Slots, Distinct, Elements, Queued

\* At most MaxConcurrent turns hold a slot, no session has two turns, and no
\* slot is idle while a session waits: for any number of sessions and slots.
THEOREM SlotsAreSafe == ASSUME Assumptions PROVE Spec => [](TypeOK /\ SlotInv)
<1>1. Init => Inv
  BY InitEstablishesInv
<1>2. Inv /\ [Next]_supervisorVars => Inv'
  BY NextKeepsInv
<1>3. Inv => TypeOK /\ SlotInv
  BY DEF Inv
<1> QED
  BY <1>1, <1>2, <1>3, PTL DEF Spec

\* A session that waits is never overtaken.  The supervisor's step starts a
\* session of the queue only in `finally`, and then the one at the head.
LEMMA NextIsFair ==
    ASSUME Assumptions, Inv, [Next]_supervisorVars,
           NEW i \in 1..Len(queue), NEW j \in 1..Len(queue),
           i < j, queue[j] \in active' \ active
    PROVE  FALSE
<1>1. Slots(queue, active)
  BY InvIsSlots
<1>2. queue \in Seq(Sessions) /\ Distinct(queue) /\ active \cap Elements(queue) = {}
  BY <1>1 DEF Slots
<1>3. Len(queue) \in Nat /\ queue # <<>>
  BY <1>2, LenProperties, EmptySeq
<1>4. PICK s \in Sessions : Enqueue(s) \/ Dequeue(s) \/ Release(s)
  BY DEF Next, supervisorVars, Stop, Reset, CoreStep
<1>5. CASE Dequeue(s)
  BY <1>5 DEF Dequeue
<1>6. CASE Enqueue(s)
  <2> DEFINE w == Append(queue, s)
  <2>1. Drainable(w, active) /\ Cardinality(active) = MaxConcurrent
    BY <1>1, <1>3, <1>6, EnqueueDrainable DEF Enqueue, Queued, Elements, Slots
  <2>2. Cardinality(active) \in Nat
    BY <2>1, AdmitsOne
  <2>3. Admitted(w, active) = 0
    BY <2>1, <2>2, AdmitsOne
  <2>4. w \in Seq(Sessions)
    BY <1>2, AppendProperties
  <2>5. active' = active \cup Started(w, active)
    BY <1>6 DEF Enqueue, Drain
  <2> QED
    BY <2>3, <2>4, <2>5, DrainsNothing
<1>7. CASE Release(s)
  <2> DEFINE a == active \ {s}
  <2>1. Drainable(queue, a)
    BY <1>1, <1>7, ReleaseDrainable DEF Release
  <2>2. active' = a \cup Started(queue, a)
    BY <1>7 DEF Release, Drain
  <2>3. queue[j] \in Started(queue, a)
    BY <2>2
  <2>4. Admitted(queue, a) \in {0, 1}
    BY <2>1, AdmitsOne
  <2>5. CASE Admitted(queue, a) = 0
    BY <1>2, <2>3, <2>5, DrainsNothing
  <2>6. CASE Admitted(queue, a) = 1
    <3>1. Len(queue) >= 1
      BY <1>3, EmptySeq
    <3>2. Started(queue, a) = {queue[1]}
      BY <1>2, <2>6, <3>1, DrainsOne
    <3>3. queue[j] = queue[1]
      BY <2>3, <3>2
    <3>4. 1 \in 1..Len(queue) /\ j # 1
      BY <1>3, <3>1
    <3> QED
      BY <1>2, <3>3, <3>4 DEF Distinct
  <2> QED
    BY <2>4, <2>5, <2>6
<1> QED
  BY <1>4, <1>5, <1>6, <1>7

\* #drain keeps the order of those it leaves in the queue.
LEMMA DrainKeepsOrder ==
    ASSUME Assumptions, NEW q, NEW a, Drainable(q, a),
           NEW i \in 1..Len(q), NEW j \in 1..Len(q), i < j,
           NEW k \in 1..Len(Waiting(q, a)), NEW l \in 1..Len(Waiting(q, a)),
           Waiting(q, a)[k] = q[i], Waiting(q, a)[l] = q[j]
    PROVE  k < l
<1>1. q \in Seq(Sessions) /\ Distinct(q)
  BY DEF Drainable
<1>2. Len(q) \in Nat
  BY <1>1, LenProperties
<1>3. CASE Admitted(q, a) = 0
  <2>1. Waiting(q, a) = q
    BY <1>1, <1>3, DrainsNothing
  <2> QED
    BY <1>1, <2>1 DEF Distinct
<1>4. CASE Admitted(q, a) = 1 /\ Len(q) >= 1
  <2>1. /\ Len(Waiting(q, a)) = Len(q) - 1
        /\ \A m \in 1..(Len(q) - 1) : Waiting(q, a)[m] = q[m + 1]
    BY <1>1, <1>4, DrainsOne
  <2>2. q[k + 1] = q[i] /\ q[l + 1] = q[j]
    BY <2>1
  <2>3. k + 1 \in 1..Len(q) /\ l + 1 \in 1..Len(q)
    BY <1>2, <2>1
  <2>4. k + 1 = i /\ l + 1 = j
    BY <1>1, <2>2, <2>3 DEF Distinct
  <2> QED
    BY <2>4
<1> QED
  BY <1>3, <1>4, AdmitsOne

\* No step of the supervisor reorders the queue.
LEMMA NextKeepsOrder ==
    ASSUME Assumptions, Inv, [Next]_supervisorVars,
           NEW i \in 1..Len(queue), NEW j \in 1..Len(queue), i < j,
           NEW k \in 1..Len(queue'), NEW l \in 1..Len(queue'),
           queue'[k] = queue[i], queue'[l] = queue[j]
    PROVE  k < l
<1>1. Slots(queue, active)
  BY InvIsSlots
<1>2. queue \in Seq(Sessions) /\ Distinct(queue)
  BY <1>1 DEF Slots
<1>3. Len(queue) \in Nat
  BY <1>2, LenProperties
<1>4. CASE UNCHANGED <<queue, active>>
  BY <1>2, <1>4 DEF Distinct
<1>5. CASE queue' = <<>>
  BY <1>5, EmptySeq
<1>6. ASSUME NEW s \in Sessions, Enqueue(s)
      PROVE  k < l
  <2> DEFINE w == Append(queue, s)
  <2>1. Drainable(w, active)
    BY <1>1, <1>6, EnqueueDrainable DEF Enqueue, Queued, Elements
  <2>2. Len(w) = Len(queue) + 1 /\ \A m \in 1..Len(queue) : w[m] = queue[m]
    BY <1>2, AppendProperties
  <2>3. i \in 1..Len(w) /\ j \in 1..Len(w) /\ w[i] = queue[i] /\ w[j] = queue[j]
    BY <1>3, <2>2
  <2>4. queue' = Waiting(w, active)
    BY <1>6 DEF Enqueue, Drain
  <2> HIDE DEF w
  <2> QED
    BY <2>1, <2>3, <2>4, DrainKeepsOrder
<1>7. ASSUME NEW s \in Sessions, Release(s)
      PROVE  k < l
  <2>1. Drainable(queue, active \ {s})
    BY <1>1, <1>7, ReleaseDrainable DEF Release
  <2>2. queue' = Waiting(queue, active \ {s})
    BY <1>7 DEF Release, Drain
  <2> QED
    BY <2>1, <2>2, DrainKeepsOrder
<1>8. ASSUME NEW s \in Sessions, Dequeue(s)
      PROVE  k < l
  <2> DEFINE w == Without(queue, s)
  <2>1. PICK f \in [1..Len(w) -> 1..Len(queue)] :
           /\ \A m \in 1..Len(w) : w[m] = queue[f[m]]
           /\ \A m, n \in 1..Len(w) : m < n => f[m] < f[n]
    BY <1>2, WithoutKeepsOrder
  <2>2. queue' = w
    BY <1>8 DEF Dequeue
  <2>3. k \in 1..Len(w) /\ l \in 1..Len(w) /\ Len(w) \in Nat
    <3>1. w \in Seq(Sessions)
      BY <1>2, WithoutKeepsOrder
    <3> HIDE DEF w
    <3> QED
      BY <2>2, <3>1, LenProperties
  <2> HIDE DEF w
  <2>4. queue[f[k]] = queue[i] /\ queue[f[l]] = queue[j]
    BY <2>1, <2>2, <2>3
  <2>5. f[k] \in 1..Len(queue) /\ f[l] \in 1..Len(queue)
    BY <2>1, <2>3
  <2>6. f[k] = i /\ f[l] = j
    BY <1>2, <2>4, <2>5 DEF Distinct
  <2> QED
    BY <2>1, <2>3, <2>6
<1> QED
  BY <1>4, <1>5, <1>6, <1>7, <1>8 DEF Next, supervisorVars, Stop, Reset, CoreStep

\* First come, first served: the waiting sessions keep their order, and none
\* is started while one that was queued before it still waits.
THEOREM QueueIsFair == ASSUME Assumptions PROVE Spec => FirstComeFirstServed
<1>1. Init => Inv
  BY InitEstablishesInv
<1>2. Inv /\ [Next]_supervisorVars => Inv'
  BY NextKeepsInv
<1>3. Inv /\ [Next]_supervisorVars =>
        [\A i, j \in 1..Len(queue) : i < j =>
            /\ queue[j] \in active' \ active =>
                  \A k \in 1..Len(queue') : queue'[k] # queue[i]
            /\ \A k, l \in 1..Len(queue') :
                  (queue'[k] = queue[i] /\ queue'[l] = queue[j]) => k < l]_supervisorVars
  BY NextIsFair, NextKeepsOrder
<1> QED
  BY <1>1, <1>2, <1>3, PTL DEF Spec, FirstComeFirstServed

=============================================================================
