----------------------------- MODULE Edges_proofs -----------------------------
(***************************************************************************)
(* Theorems about components of MCEdges, for every value of the constants  *)
(* that MCEdges declares for them.  Each component has its own part: the   *)
(* inductive invariant, what preserves it, and the theorem about the       *)
(* composition, in which the component's variables change by its own steps *)
(* only.                                                                   *)
(***************************************************************************)
EXTENDS MCEdges, SessionThread_proofs, SequenceTheorems

-----------------------------------------------------------------------------
(* Devices.                                                                *)

AuthFile ==
    [devices : [DeviceIds -> {"none", "active", "revoked"}],
     codes   : SUBSET [id : PairingCodes, by : DeviceIds \cup {Auth!Nobody}, used : BOOLEAN],
     tokens  : SUBSET [id : StreamTokens, by : DeviceIds, used : BOOLEAN]]

AuthTyped ==
    /\ auth \in AuthFile
    /\ pairRead \in SUBSET [file : AuthFile, code : PairingCodes]
    /\ madeBy \in [PairingCodes -> SUBSET DeviceIds]
    /\ streamsOf = [t \in StreamTokens |-> streamsOf[t]]
    /\ undone \in BOOLEAN

OneEntryEach == \A e, f \in auth.codes \cup auth.tokens : e.id = f.id => e = f

\* What is still to be used has paired nothing and opened nothing.
UnusedIsUnspent ==
    /\ \A e \in auth.codes : ~e.used => madeBy[e.id] = {}
    /\ \A e \in auth.tokens : ~e.used => streamsOf[e.id] = {}

\* The code that the pair command is about to write is nobody else's.
PairCodeIsNew ==
    \A r \in pairRead :
        madeBy[r.code] = {} /\ \A e \in auth.codes \cup auth.tokens : e.id # r.code

OneOpening ==
    /\ \A c \in PairingCodes : madeBy[c] = {} \/ \E d : madeBy[c] = {d}
    /\ \A t \in StreamTokens :
           streamsOf[t] = {} \/ \E x : streamsOf[t] = {x} /\ x[2] = "active"

AuthSafe == OneEntryEach /\ UnusedIsUnspent /\ PairCodeIsNew /\ OneOpening
AuthInv == AuthTyped /\ (undone \/ AuthSafe)

\* Nothing has been issued at first.
LEMMA AuthInit == Auth!Init => AuthInv
<1> SUFFICES ASSUME Auth!Init PROVE AuthInv
  OBVIOUS
<1>1. AuthTyped
  <2>1. auth \in AuthFile
    BY DEF Auth!Init, AuthFile
  <2>2. madeBy \in [PairingCodes -> SUBSET DeviceIds]
    BY DEF Auth!Init
  <2>3. streamsOf = [t \in StreamTokens |-> streamsOf[t]]
    BY DEF Auth!Init
  <2> QED
    BY <2>1, <2>2, <2>3 DEF Auth!Init, AuthTyped
<1>2. AuthSafe
  BY EdgesAssumptions DEF Auth!Init, AuthSafe, OneEntryEach, UnusedIsUnspent, PairCodeIsNew, OneOpening
<1> QED
  BY <1>1, <1>2 DEF AuthInv

\* Files are records of three parts, of which issuing changes one.
LEMMA OnePartChanges ==
    ASSUME NEW f \in AuthFile, NEW x
    PROVE  /\ [f EXCEPT !.codes = x] = [devices |-> f.devices, codes |-> x, tokens |-> f.tokens]
           /\ [f EXCEPT !.tokens = x] = [devices |-> f.devices, codes |-> f.codes, tokens |-> x]
<1>1. PICK a, b, c : f = [devices |-> a, codes |-> b, tokens |-> c]
  BY DEF AuthFile
<1>2. f.devices = a /\ f.codes = b /\ f.tokens = c
  BY <1>1
<1>3. /\ [[devices |-> a, codes |-> b, tokens |-> c] EXCEPT !.codes = x]
             = [devices |-> a, codes |-> x, tokens |-> c]
      /\ [[devices |-> a, codes |-> b, tokens |-> c] EXCEPT !.tokens = x]
             = [devices |-> a, codes |-> b, tokens |-> x]
  OBVIOUS
<1> QED
  BY <1>1, <1>2, <1>3, Zenon

\* cleanupExpired() only removes entries (auth-store.ts).
LEMMA CleanupRemoves ==
    ASSUME NEW f \in AuthFile
    PROVE  /\ Auth!CleanupExpired(f) \in AuthFile
           /\ Auth!CleanupExpired(f).devices = f.devices
           /\ Auth!CleanupExpired(f).codes = {e \in f.codes : Auth!Valid(e)}
           /\ Auth!CleanupExpired(f).tokens = {e \in f.tokens : Auth!Valid(e)}
BY DEF AuthFile, Auth!CleanupExpired

\* Issuing a code adds at most its entry.
LEMMA IssueAdds ==
    ASSUME NEW f \in AuthFile, NEW c \in PairingCodes, NEW by \in DeviceIds \cup {Auth!Nobody}
    PROVE  LET g == Auth!IssuePairingCode(f, c, by)
           IN  /\ g \in AuthFile
               /\ g.devices = f.devices
               /\ g.codes \subseteq f.codes \cup {Auth!Entry(c, by)}
               /\ g.tokens \subseteq f.tokens
<1> DEFINE h == [f EXCEPT !.codes = f.codes \cup {Auth!Entry(c, by)}]
<1>1. /\ h \in AuthFile /\ h.devices = f.devices
      /\ h.codes = f.codes \cup {Auth!Entry(c, by)} /\ h.tokens = f.tokens
  <2>1. Auth!Entry(c, by) \in [id : PairingCodes, by : DeviceIds \cup {Auth!Nobody}, used : BOOLEAN]
    BY DEF Auth!Entry
  <2>2. h = [devices |-> f.devices, codes |-> f.codes \cup {Auth!Entry(c, by)}, tokens |-> f.tokens]
    BY OnePartChanges
  <2> QED
    BY <2>1, <2>2 DEF AuthFile
<1> QED
  BY <1>1, CleanupRemoves DEF Auth!IssuePairingCode

\* A code that nobody has leaves the file safe.
LEMMA IssueKeepsSafe ==
    ASSUME AuthTyped, AuthSafe, NEW c \in PairingCodes,
           NEW by \in DeviceIds \cup {Auth!Nobody},
           auth' = Auth!IssuePairingCode(auth, c, by),
           \A e \in auth.codes \cup auth.tokens : e.id # c,
           madeBy[c] = {}, \A r \in pairRead' : r \in pairRead /\ r.code # c,
           UNCHANGED <<madeBy, streamsOf>>
    PROVE  AuthSafe'
<1>1. auth'.codes \subseteq auth.codes \cup {Auth!Entry(c, by)} /\ auth'.tokens \subseteq auth.tokens
  BY IssueAdds DEF AuthTyped
<1>2. Auth!Entry(c, by).id = c
  BY DEF Auth!Entry
<1>3. OneEntryEach'
  BY <1>1, <1>2 DEF AuthSafe, OneEntryEach
<1>4. UnusedIsUnspent'
  BY <1>1, <1>2 DEF AuthSafe, UnusedIsUnspent
<1>5. PairCodeIsNew'
  BY <1>1, <1>2 DEF AuthSafe, PairCodeIsNew
<1>6. OneOpening'
  BY DEF AuthSafe, OneOpening
<1> QED
  BY <1>3, <1>4, <1>5, <1>6 DEF AuthSafe

\* PairDevice: the code it uses is spent.
LEMMA PairDeviceKeeps ==
    ASSUME AuthInv, NEW c \in PairingCodes, NEW d \in DeviceIds, Auth!PairDevice(c, d)
    PROVE  AuthInv'
<1> DEFINE file == Auth!CleanupExpired(auth)
<1>1. PICK e \in file.codes :
          /\ e.id = c /\ Auth!Valid(e)
          /\ auth' = [file EXCEPT !.codes = Auth!Use(@, e), !.devices[d] = "active"]
  BY DEF Auth!PairDevice
<1>2. /\ file \in AuthFile /\ file.devices = auth.devices
      /\ file.codes = {x \in auth.codes : Auth!Valid(x)}
      /\ file.tokens = {x \in auth.tokens : Auth!Valid(x)}
  BY CleanupRemoves DEF AuthInv, AuthTyped
<1>3. /\ madeBy' = [madeBy EXCEPT ![c] = @ \cup {d}]
      /\ UNCHANGED <<pairRead, streamsOf, undone>>
  BY DEF Auth!PairDevice
<1> HIDE DEF file
<1> DEFINE used == [e EXCEPT !.used = TRUE]
<1>4. /\ e \in [id : PairingCodes, by : DeviceIds \cup {Auth!Nobody}, used : BOOLEAN]
      /\ used \in [id : PairingCodes, by : DeviceIds \cup {Auth!Nobody}, used : BOOLEAN]
      /\ used.id = c /\ used.used /\ ~e.used
  BY <1>1, <1>2 DEF AuthFile, Auth!Valid
<1> HIDE DEF used
<1>5. auth'.codes = (file.codes \ {e}) \cup {used} /\ auth'.tokens = file.tokens /\ auth' \in AuthFile
  <2>1. auth'.codes = (file.codes \ {e}) \cup {used}
    BY <1>1, <1>2 DEF AuthFile, Auth!Use, used
  <2>2. auth'.tokens = file.tokens
    BY <1>1, <1>2 DEF AuthFile
  <2>3. auth'.devices \in [DeviceIds -> {"none", "active", "revoked"}]
    BY <1>1, <1>2 DEF AuthFile
  <2>4. auth' = [devices |-> auth'.devices, codes |-> auth'.codes, tokens |-> auth'.tokens]
    BY <1>1, <1>2 DEF AuthFile
  <2>5. (file.codes \ {e}) \cup {used} \in
            SUBSET [id : PairingCodes, by : DeviceIds \cup {Auth!Nobody}, used : BOOLEAN]
    BY <1>2, <1>4 DEF AuthFile
  <2>6. file.tokens \in SUBSET [id : StreamTokens, by : DeviceIds, used : BOOLEAN]
    BY <1>2 DEF AuthFile
  <2> QED
    BY <2>1, <2>2, <2>3, <2>4, <2>5, <2>6 DEF AuthFile
<1>6. AuthTyped'
  BY <1>3, <1>5 DEF AuthInv, AuthTyped
<1>7. ASSUME AuthSafe PROVE AuthSafe'
  <2>1. OneEntryEach'
    <3>1. e \notin file.tokens
      BY <1>2, <1>4, EdgesAssumptions DEF AuthFile
    <3>2. \A x \in (auth.codes \cup auth.tokens) \ {e} : x.id # c
      BY <1>1, <1>2, <1>7 DEF AuthSafe, OneEntryEach
    <3>3. \A x \in (auth.codes \cup auth.tokens)' :
              x = used \/ x \in (auth.codes \cup auth.tokens) \ {e}
      BY <1>2, <1>5, <3>1
    <3> QED
      BY <1>4, <1>7, <3>2, <3>3 DEF AuthSafe, OneEntryEach
  <2>2. madeBy[c] = {}
    BY <1>1, <1>2, <1>4, <1>7 DEF AuthSafe, UnusedIsUnspent
  <2>3. \A x \in PairingCodes : madeBy'[x] = IF x = c THEN madeBy[x] \cup {d} ELSE madeBy[x]
    BY <1>3 DEF AuthInv, AuthTyped
  <2>4. \A x \in file.codes \ {e} : x.id # c /\ x.id \in PairingCodes
    BY <1>1, <1>2, <1>7 DEF AuthSafe, OneEntryEach, AuthFile
  <2>5. UnusedIsUnspent'
    BY <1>2, <1>3, <1>4, <1>5, <1>7, <2>3, <2>4 DEF AuthSafe, UnusedIsUnspent
  <2>6. \A r \in pairRead : r.code # c /\ r.code \in PairingCodes
    BY <1>1, <1>2, <1>7 DEF AuthSafe, PairCodeIsNew, AuthInv, AuthTyped
  <2>7. PairCodeIsNew'
    BY <1>1, <1>2, <1>3, <1>4, <1>5, <1>7, <2>3, <2>6 DEF AuthSafe, PairCodeIsNew
  <2>8. OneOpening'
    BY <1>3, <1>7, <2>2, <2>3 DEF AuthSafe, OneOpening
  <2> QED
    BY <2>1, <2>5, <2>7, <2>8 DEF AuthSafe
<1> QED
  BY <1>3, <1>6, <1>7 DEF AuthInv


\* With fewer entries the file stays safe.
LEMMA FewerEntriesKeepSafe ==
    ASSUME AuthSafe, auth'.codes \subseteq auth.codes, auth'.tokens \subseteq auth.tokens,
           pairRead' \subseteq pairRead, UNCHANGED <<madeBy, streamsOf>>
    PROVE  AuthSafe'
BY DEF AuthSafe, OneEntryEach, UnusedIsUnspent, PairCodeIsNew, OneOpening

\* The requests of the gateway that pair no device and open no stream.
LEMMA GatewayKeeps ==
    ASSUME AuthInv
    PROVE  /\ Auth!AuthStatus => AuthInv'
           /\ \A d \in DeviceIds \cup {Auth!Nobody} : Auth!CreatePairingCode(d) => AuthInv'
           /\ \A d \in DeviceIds \cup {Auth!Nobody}, c \in PairingCodes :
                  Auth!BodyArrives(d, c) => AuthInv'
           /\ \A d, by \in DeviceIds : Auth!RevokeDevice(d, by) => AuthInv'
           /\ \A id \in PairingCodes \cup StreamTokens : Auth!Expire(id) => AuthInv'
<1>1. ASSUME Auth!AuthStatus PROVE AuthInv'
  <2>1. /\ auth' \in AuthFile
        /\ auth'.codes \subseteq auth.codes /\ auth'.tokens \subseteq auth.tokens
    BY <1>1, CleanupRemoves DEF Auth!AuthStatus, AuthInv, AuthTyped
  <2>2. UNCHANGED <<pairRead, madeBy, streamsOf, undone>>
    BY <1>1 DEF Auth!AuthStatus
  <2> QED
    BY <2>1, <2>2, FewerEntriesKeepSafe DEF AuthInv, AuthTyped
<1>2. ASSUME NEW d \in DeviceIds \cup {Auth!Nobody}, Auth!CreatePairingCode(d) PROVE AuthInv'
  <2>1. UNCHANGED <<auth, pairRead, madeBy, streamsOf, undone>>
    BY <1>2 DEF Auth!CreatePairingCode
  <2> QED
    BY <2>1, FewerEntriesKeepSafe DEF AuthInv, AuthTyped
<1>3. ASSUME NEW d \in DeviceIds \cup {Auth!Nobody}, NEW c \in PairingCodes, Auth!BodyArrives(d, c)
      PROVE  AuthInv'
  <2>1. /\ Auth!Unissued(c) /\ auth' = Auth!IssuePairingCode(auth, c, d)
        /\ UNCHANGED <<pairRead, madeBy, streamsOf, undone>>
    BY <1>3 DEF Auth!BodyArrives
  <2>2. /\ \A e \in auth.codes \cup auth.tokens : e.id # c
        /\ madeBy[c] = {} /\ \A r \in pairRead : r.code # c
    BY <2>1 DEF Auth!Unissued
  <2>3. AuthTyped'
    BY <2>1, IssueAdds DEF AuthInv, AuthTyped
  <2>4. AuthSafe => AuthSafe'
    BY <2>1, <2>2, IssueKeepsSafe DEF AuthInv
  <2> QED
    BY <2>1, <2>3, <2>4 DEF AuthInv
<1>4. ASSUME NEW d \in DeviceIds, NEW by \in DeviceIds, Auth!RevokeDevice(d, by) PROVE AuthInv'
  <2>1. /\ auth' = [auth EXCEPT !.devices[d] = "revoked"]
        /\ UNCHANGED <<pairRead, madeBy, streamsOf, undone>>
    BY <1>4 DEF Auth!RevokeDevice
  <2>2. auth' \in AuthFile /\ auth'.codes = auth.codes /\ auth'.tokens = auth.tokens
    BY <2>1 DEF AuthInv, AuthTyped, AuthFile
  <2> QED
    BY <2>1, <2>2, FewerEntriesKeepSafe DEF AuthInv, AuthTyped
<1>5. ASSUME NEW id, Auth!Expire(id) PROVE AuthInv'
  <2>1. UNCHANGED <<auth, pairRead, madeBy, streamsOf, undone>>
    BY <1>5 DEF Auth!Expire
  <2> QED
    BY <2>1, FewerEntriesKeepSafe DEF AuthInv, AuthTyped
<1> QED
  BY <1>1, <1>2, <1>3, <1>4, <1>5

\* A token is issued that has opened nothing.
LEMMA IssueStreamTokenKeeps ==
    ASSUME AuthInv, NEW t \in StreamTokens, NEW d \in DeviceIds, Auth!IssueStreamToken(t, d)
    PROVE  AuthInv'
<1> DEFINE h == [auth EXCEPT !.tokens = auth.tokens \cup {Auth!Entry(t, d)}]
<1>1. /\ Auth!Unissued(t) /\ auth' = Auth!CleanupExpired(h)
      /\ UNCHANGED <<pairRead, madeBy, streamsOf, undone>>
  BY DEF Auth!IssueStreamToken
<1>2. /\ h \in AuthFile /\ h.codes = auth.codes /\ h.tokens = auth.tokens \cup {Auth!Entry(t, d)}
  <2>1. Auth!Entry(t, d) \in [id : StreamTokens, by : DeviceIds, used : BOOLEAN]
    BY DEF Auth!Entry
  <2>3. h = [devices |-> auth.devices, codes |-> auth.codes, tokens |-> auth.tokens \cup {Auth!Entry(t, d)}]
    BY OnePartChanges DEF AuthInv, AuthTyped
  <2> QED
    BY <2>1, <2>3 DEF AuthInv, AuthTyped, AuthFile
<1> HIDE DEF h
<1>3. /\ auth' \in AuthFile /\ auth'.codes \subseteq auth.codes
      /\ auth'.tokens \subseteq auth.tokens \cup {Auth!Entry(t, d)}
  BY <1>1, <1>2, CleanupRemoves
<1>4. AuthTyped'
  BY <1>1, <1>3 DEF AuthInv, AuthTyped
<1>5. ASSUME AuthSafe PROVE AuthSafe'
  <2>1. /\ Auth!Entry(t, d).id = t /\ streamsOf[t] = {}
        /\ \A e \in auth.codes \cup auth.tokens : e.id # t
        /\ \A r \in pairRead : r.code # t
    BY <1>1 DEF Auth!Unissued, Auth!Entry
  <2>2. OneEntryEach'
    BY <1>3, <1>5, <2>1 DEF AuthSafe, OneEntryEach
  <2>3. UnusedIsUnspent'
    BY <1>1, <1>3, <1>5, <2>1 DEF AuthSafe, UnusedIsUnspent
  <2>4. PairCodeIsNew'
    BY <1>1, <1>3, <1>5, <2>1 DEF AuthSafe, PairCodeIsNew
  <2>5. OneOpening'
    BY <1>1, <1>5 DEF AuthSafe, OneOpening
  <2> QED
    BY <2>2, <2>3, <2>4, <2>5 DEF AuthSafe
<1> QED
  BY <1>1, <1>4, <1>5 DEF AuthInv

\* A token opens its first stream, and is spent.
LEMMA ConsumeStreamTokenKeeps ==
    ASSUME AuthInv, NEW t \in StreamTokens, Auth!ConsumeStreamToken(t)
    PROVE  AuthInv'
<1> DEFINE file == Auth!CleanupExpired(auth)
<1>1. PICK e \in file.tokens :
          /\ e.id = t /\ Auth!Valid(e)
          /\ IF file.devices[e.by] = "active"
             THEN /\ auth' = [file EXCEPT !.tokens = Auth!Use(@, e)]
                  /\ streamsOf' = [streamsOf EXCEPT ![t] =
                         @ \cup {<<e.by, auth.devices[e.by], Auth!Cardinality(@)>>}]
             ELSE auth' = file /\ UNCHANGED streamsOf
          /\ UNCHANGED <<pairRead, madeBy, undone>>
  BY DEF Auth!ConsumeStreamToken
<1>2. /\ file \in AuthFile /\ file.devices = auth.devices
      /\ file.codes = {x \in auth.codes : Auth!Valid(x)}
      /\ file.tokens = {x \in auth.tokens : Auth!Valid(x)}
  BY CleanupRemoves DEF AuthInv, AuthTyped
<1> HIDE DEF file
<1>3. CASE file.devices[e.by] # "active"
  <2>1. auth' = file /\ UNCHANGED <<pairRead, madeBy, streamsOf, undone>>
    BY <1>1, <1>3
  <2> QED
    BY <1>2, <2>1, FewerEntriesKeepSafe DEF AuthInv, AuthTyped
<1>4. CASE file.devices[e.by] = "active"
  <2> DEFINE used == [e EXCEPT !.used = TRUE]
             x == <<e.by, auth.devices[e.by], Auth!Cardinality(streamsOf[t])>>
  <2>1. /\ auth' = [file EXCEPT !.tokens = Auth!Use(@, e)]
        /\ streamsOf' = [streamsOf EXCEPT ![t] = @ \cup {x}]
        /\ UNCHANGED <<pairRead, madeBy, undone>> /\ x[2] = "active"
    BY <1>1, <1>2, <1>4
  <2> HIDE DEF x
  <2>2. /\ used \in [id : StreamTokens, by : DeviceIds, used : BOOLEAN]
        /\ used.id = t /\ used.used /\ ~e.used
    BY <1>1, <1>2 DEF AuthFile, Auth!Valid
  <2>3. auth' = [devices |-> file.devices, codes |-> file.codes,
                 tokens |-> (file.tokens \ {e}) \cup {used}]
    <3>1. auth' = [file EXCEPT !.tokens = (file.tokens \ {e}) \cup {used}]
      BY <2>1 DEF Auth!Use
    <3> QED
      BY <1>2, <3>1, OnePartChanges
  <2> HIDE DEF used
  <2>4. /\ auth'.codes = file.codes /\ auth'.tokens = (file.tokens \ {e}) \cup {used}
        /\ auth' \in AuthFile
    BY <1>2, <2>2, <2>3 DEF AuthFile
  <2>5. \A y \in StreamTokens : streamsOf'[y] = IF y = t THEN streamsOf[y] \cup {x} ELSE streamsOf[y]
    BY <2>1 DEF AuthInv, AuthTyped
  <2>6. AuthTyped'
    BY <2>1, <2>4 DEF AuthInv, AuthTyped
  <2>7. ASSUME AuthSafe PROVE AuthSafe'
    <3>1. e \notin file.codes
      BY <1>1, <1>2, EdgesAssumptions DEF AuthFile
    <3>2. \A y \in (auth.codes \cup auth.tokens) \ {e} : y.id # t
      BY <1>1, <1>2, <2>7 DEF AuthSafe, OneEntryEach
    <3>3. \A y \in (auth.codes \cup auth.tokens)' :
              y = used \/ y \in (auth.codes \cup auth.tokens) \ {e}
      BY <1>2, <2>4, <3>1
    <3>4. OneEntryEach'
      BY <2>2, <2>7, <3>2, <3>3 DEF AuthSafe, OneEntryEach
    <3>5. streamsOf[t] = {}
      BY <1>1, <1>2, <2>2, <2>7 DEF AuthSafe, UnusedIsUnspent
    <3>6. UnusedIsUnspent'
      <4>1. \A y \in file.tokens \ {e} : y.id # t /\ y.id \in StreamTokens
        BY <1>2, <3>2 DEF AuthFile
      <4> QED
        BY <1>2, <2>1, <2>2, <2>4, <2>5, <2>7, <4>1 DEF AuthSafe, UnusedIsUnspent
    <3>7. PairCodeIsNew'
      BY <1>1, <1>2, <2>1, <2>2, <2>7, <3>3 DEF AuthSafe, PairCodeIsNew
    <3>8. OneOpening'
      BY <2>1, <2>5, <2>7, <3>5 DEF AuthSafe, OneOpening
    <3> QED
      BY <3>4, <3>6, <3>7, <3>8 DEF AuthSafe
  <2> QED
    BY <2>1, <2>6, <2>7 DEF AuthInv
<1> QED
  BY <1>3, <1>4

\* The pair command of another process: what it writes back is what it read, unless it
\* undoes something.
LEMMA PairCommandKeeps ==
    ASSUME AuthInv
    PROVE  /\ \A c \in PairingCodes : Auth!PairCommandReads(c) => AuthInv'
           /\ Auth!PairCommandWrites => AuthInv'
<1>1. ASSUME NEW c \in PairingCodes, Auth!PairCommandReads(c) PROVE AuthInv'
  <2>1. /\ Auth!Unissued(c) /\ pairRead' = {[file |-> auth, code |-> c]}
        /\ UNCHANGED <<auth, madeBy, streamsOf, undone>>
    BY <1>1 DEF Auth!PairCommandReads
  <2>2. madeBy[c] = {} /\ \A e \in auth.codes \cup auth.tokens : e.id # c
    BY <2>1 DEF Auth!Unissued
  <2>3. AuthTyped'
    BY <2>1 DEF AuthInv, AuthTyped
  <2>4. AuthSafe => AuthSafe'
    BY <2>1, <2>2 DEF AuthSafe, OneEntryEach, UnusedIsUnspent, PairCodeIsNew, OneOpening
  <2> QED
    BY <2>1, <2>3, <2>4 DEF AuthInv
<1>2. ASSUME Auth!PairCommandWrites PROVE AuthInv'
  <2>1. PICK r \in pairRead :
            \/ /\ auth' = Auth!IssuePairingCode(r.file, r.code, Auth!Nobody)
               /\ undone' = (undone \/ auth # r.file)
            \/ UNCHANGED <<auth, undone>>
    BY <1>2 DEF Auth!PairCommandWrites
  <2>2. pairRead' = {} /\ UNCHANGED <<madeBy, streamsOf>>
    BY <1>2 DEF Auth!PairCommandWrites
  <2>3. r.file \in AuthFile /\ r.code \in PairingCodes
    BY DEF AuthInv, AuthTyped
  <2>4. auth' \in AuthFile /\ undone' \in BOOLEAN
    <3>1. Auth!IssuePairingCode(r.file, r.code, Auth!Nobody) \in AuthFile
      BY <2>3, IssueAdds
    <3>2. auth \in AuthFile /\ undone \in BOOLEAN
      BY DEF AuthInv, AuthTyped
    <3> QED
      BY <2>1, <3>1, <3>2
  <2>5. AuthTyped'
    BY <2>2, <2>4 DEF AuthInv, AuthTyped
  <2>6. CASE UNCHANGED <<auth, undone>>
    BY <2>2, <2>5, <2>6, FewerEntriesKeepSafe DEF AuthInv
  <2>7. ASSUME auth' = Auth!IssuePairingCode(r.file, r.code, Auth!Nobody),
               undone' = (undone \/ auth # r.file), ~undone'
        PROVE  AuthSafe'
    <3>1. AuthTyped /\ AuthSafe /\ auth = r.file
      BY <2>7 DEF AuthInv, AuthTyped
    <3>2. madeBy[r.code] = {} /\ \A e \in auth.codes \cup auth.tokens : e.id # r.code
      BY <3>1 DEF AuthSafe, PairCodeIsNew
    <3> QED
      BY <2>2, <2>3, <2>7, <3>1, <3>2, IssueKeepsSafe
  <2> QED
    BY <2>1, <2>5, <2>6, <2>7 DEF AuthInv
<1> QED
  BY <1>1, <1>2

\* Every step of the pairing preserves the invariant.
LEMMA AuthNext == ASSUME AuthInv, [Auth!Next]_DevicesVars PROVE AuthInv'
<1>1. CASE UNCHANGED DevicesVars
  BY <1>1, FewerEntriesKeepSafe DEF AuthInv, AuthTyped, DevicesVars
<1>2. CASE Auth!Next
  BY <1>2, PairDeviceKeeps, GatewayKeeps, IssueStreamTokenKeeps, ConsumeStreamTokenKeeps,
     PairCommandKeeps DEF Auth!Next
<1> QED
  BY <1>1, <1>2

\* The invariant says that codes and tokens open once.
LEMMA AuthInvImplies == AuthInv => KeysOpenOnce
<1> SUFFICES ASSUME AuthInv, ~undone PROVE KeysOpenOnce
  BY DEF KeysOpenOnce, Auth!KeysOpenOnce
<1>1. AuthSafe
  BY DEF AuthInv
<1>2. \A s : Auth!Cardinality(s) = Cardinality(s)
  BY DEF Auth!Cardinality, Cardinality
<1>3. \A s : s = {} \/ (\E x : s = {x}) => Auth!Cardinality(s) <= 1
  <2>1. \A s : s = {} => Auth!Cardinality(s) = 0
    BY <1>2, FS_EmptySet
  <2>2. \A x : Auth!Cardinality({x}) = 1
    BY <1>2, FS_Singleton
  <2>3. ASSUME NEW s, s = {} \/ (\E x : s = {x}) PROVE Auth!Cardinality(s) <= 1
    <3>1. Auth!Cardinality(s) = 0 \/ Auth!Cardinality(s) = 1
      BY <2>1, <2>2, <2>3, Zenon
    <3> QED
      BY <3>1
  <2> QED
    BY <2>3
<1>4. \A c \in PairingCodes : Auth!Cardinality(madeBy[c]) <= 1
  BY <1>1, <1>3 DEF AuthSafe, OneOpening
<1>5. \A t \in StreamTokens :
          Auth!Cardinality(streamsOf[t]) <= 1 /\ \A x \in streamsOf[t] : x[2] = "active"
  BY <1>1, <1>3 DEF AuthSafe, OneOpening
<1> QED
  BY <1>1, <1>4, <1>5 DEF AuthSafe, OneEntryEach, KeysOpenOnce, Auth!KeysOpenOnce

\* In the composition devices change by their own steps only.
LEMMA DevicesRest == [EdgesNext]_<<focus, vars, edges>> => [Auth!Next]_DevicesVars
BY DEF EdgesNext, OthersRest, edges

\* A pairing code pairs one device, a stream token opens one stream of a device that is
\* not revoked, and no two entries are about one of them (auth-store.ts), for any
\* devices, codes and tokens, unless the pair command has overwritten the file.
THEOREM KeysAreOneTime == EdgesSpec => []KeysOpenOnce
<1>1. EdgesInit => AuthInv
  BY AuthInit DEF EdgesInit
<1>2. AuthInv /\ [EdgesNext]_<<focus, vars, edges>> => AuthInv'
  BY AuthNext, DevicesRest
<1> QED
  BY <1>1, <1>2, AuthInvImplies, PTL DEF EdgesSpec

-----------------------------------------------------------------------------
(* Projects.                                                               *)

HousingTyped ==
    /\ stored \in [Folders -> {"none", "open", "archived"}]
    /\ currentId \in Folders \cup {"none"} /\ defaultId \in Folders \cup {"none"}
    /\ home \in [ProjectSessions -> Folders \cup {"none"}]
    /\ live \subseteq ProjectSessions
    /\ turnRoot \in [ProjectSessions -> Folders \cup {"none"}]

\* SessionsAreHoused, without the folders that come and go.
HousingInv ==
    /\ HousingTyped
    /\ \A s \in live : home[s] \in Folders /\ stored[home[s]] = "open"
    /\ \A s \in ProjectSessions : turnRoot[s] # "none" => s \in live /\ turnRoot[s] = home[s]

\* A project is active or missing when it is open in state.json (project-store.ts).
LEMMA OpenIsActive ==
    ASSUME HousingTyped, NEW p \in Folders
    PROVE  Housing!StatusOf(p) \in {"active", "missing"} <=> stored[p] = "open"
BY DEF HousingTyped, Housing!StatusOf

\* The default project is one of the folders.
LEMMA DefaultIsProject == ASSUME HousingTyped PROVE Housing!DefaultProject \in Folders
BY EdgesAssumptions DEF HousingTyped, Housing!DefaultProject, Housing!None

\* getCurrentProject() leaves the current project open, and closes none.
LEMMA CurrentIsOpen ==
    ASSUME HousingTyped, Housing!EnsureCurrent
    PROVE  /\ Housing!Current \in Folders
           /\ stored' \in [Folders -> {"none", "open", "archived"}]
           /\ stored'[Housing!Current] = "open"
           /\ \A p \in Folders : stored[p] = "open" => stored'[p] = "open"
           /\ currentId' \in Folders \cup {"none"} /\ defaultId' \in Folders \cup {"none"}
<1>1. CASE Housing!CurrentStands
  <2>1. /\ currentId \in Folders /\ Housing!Current = currentId
        /\ UNCHANGED <<stored, currentId, defaultId>>
    BY <1>1 DEF Housing!EnsureCurrent, Housing!Current, Housing!CurrentStands, HousingTyped, Housing!None
  <2>2. stored[currentId] = "open"
    BY <1>1, <2>1 DEF HousingTyped, Housing!CurrentStands, Housing!StatusOf, Housing!None
  <2> QED
    BY <2>1, <2>2 DEF HousingTyped
<1>2. CASE ~Housing!CurrentStands
  <2>1. /\ Housing!Current = Housing!DefaultProject
        /\ stored' = [stored EXCEPT ![Housing!DefaultProject] = "open"]
        /\ currentId' = Housing!DefaultProject /\ defaultId' = Housing!DefaultProject
    BY <1>2 DEF Housing!EnsureCurrent, Housing!EnsureDefault, Housing!Current
  <2> QED
    BY <2>1, DefaultIsProject DEF HousingTyped
<1> QED
  BY <1>1, <1>2

\* Only the default project is there at first, and no session.
LEMMA HousingInit == Housing!Init => HousingInv
<1> SUFFICES ASSUME Housing!Init PROVE HousingInv
  OBVIOUS
<1>1. HousingTyped
  BY EdgesAssumptions DEF Housing!Init, HousingTyped, Housing!None
<1>2. live = {} /\ \A s \in ProjectSessions : turnRoot[s] = "none"
  BY DEF Housing!Init, Housing!None
<1> QED
  BY <1>1, <1>2 DEF HousingInv

\* What the user does with projects: only archiving closes one, and takes its sessions along.
LEMMA ProjectKeeps ==
    ASSUME HousingInv, NEW p \in Folders
    PROVE  /\ \A create \in BOOLEAN : Housing!CreateProject(p, create) => HousingInv'
           /\ Housing!SelectProject(p) => HousingInv'
           /\ Housing!ArchiveProject(p) => HousingInv'
           /\ Housing!FolderChanges(p) => HousingInv'
<1>1. ASSUME NEW create \in BOOLEAN, Housing!CreateProject(p, create) PROVE HousingInv'
  <2>1. /\ stored' = [stored EXCEPT ![p] = IF @ = "none" THEN "open" ELSE @]
        /\ currentId' = p /\ UNCHANGED <<defaultId, home, live, turnRoot>>
    BY <1>1 DEF Housing!CreateProject, Housing!Upserted, Housing!None
  <2>2. stored' \in [Folders -> {"none", "open", "archived"}]
    BY <2>1 DEF HousingInv, HousingTyped
  <2>3. \A x \in Folders : stored[x] = "open" => stored'[x] = "open"
    BY <2>1 DEF HousingInv, HousingTyped
  <2> QED
    BY <2>1, <2>2, <2>3 DEF HousingInv, HousingTyped
<1>2. ASSUME Housing!SelectProject(p) PROVE HousingInv'
  BY <1>2 DEF Housing!SelectProject, HousingInv, HousingTyped
<1>3. ASSUME Housing!ArchiveProject(p) PROVE HousingInv'
  <2> DEFINE housed == {s \in live : home[s] = p}
  <2>1. /\ stored' = [stored EXCEPT ![p] = "archived"]
        /\ currentId' \in {currentId, "none"}
        /\ live' = live \ housed
        /\ turnRoot' = [s \in ProjectSessions |-> IF s \in housed THEN "none" ELSE turnRoot[s]]
        /\ UNCHANGED <<defaultId, home>>
    BY <1>3 DEF Housing!ArchiveProject, Housing!None
  <2>2. HousingTyped'
    BY <2>1 DEF HousingInv, HousingTyped
  <2>3. \A s \in live' : home'[s] \in Folders /\ stored'[home'[s]] = "open"
    BY <2>1 DEF HousingInv, HousingTyped
  <2>4. \A s \in ProjectSessions : turnRoot'[s] # "none" => s \in live' /\ turnRoot'[s] = home'[s]
    BY <2>1 DEF HousingInv, HousingTyped
  <2> QED
    BY <2>2, <2>3, <2>4 DEF HousingInv
<1>4. ASSUME Housing!FolderChanges(p) PROVE HousingInv'
  BY <1>4 DEF Housing!FolderChanges, HousingInv, HousingTyped
<1> QED
  BY <1>1, <1>2, <1>3, <1>4

\* What happens to one session: it is created in an open project and its turn runs there.
LEMMA SessionKeeps ==
    ASSUME HousingInv, NEW s \in ProjectSessions
    PROVE  /\ \A p \in Folders : Housing!CreateSessionIn(s, p) => HousingInv'
           /\ Housing!CreateSession(s) => HousingInv'
           /\ Housing!StartTurn(s) => HousingInv'
           /\ Housing!EndTurn(s) => HousingInv'
           /\ Housing!DeleteSession(s) => HousingInv'
<1>1. ASSUME NEW p \in Folders, stored'[p] = "open",
             home[s] = "none", home' = [home EXCEPT ![s] = p], live' = live \cup {s},
             \A x \in Folders : stored[x] = "open" => stored'[x] = "open",
             UNCHANGED turnRoot, HousingTyped'
      PROVE  HousingInv'
  <2>1. s \notin live /\ turnRoot[s] = "none"
    BY <1>1, EdgesAssumptions DEF HousingInv, HousingTyped
  <2>2. \A x \in ProjectSessions : home'[x] = IF x = s THEN p ELSE home[x]
    BY <1>1 DEF HousingInv, HousingTyped
  <2>3. \A x \in live' : home'[x] \in Folders /\ stored'[home'[x]] = "open"
    BY <1>1, <2>2 DEF HousingInv, HousingTyped
  <2>4. \A x \in ProjectSessions : turnRoot'[x] # "none" => x \in live' /\ turnRoot'[x] = home'[x]
    BY <1>1, <2>1, <2>2 DEF HousingInv, HousingTyped
  <2> QED
    BY <1>1, <2>3, <2>4 DEF HousingInv
<1>2. ASSUME NEW p \in Folders, Housing!CreateSessionIn(s, p) PROVE HousingInv'
  <2>1. /\ home[s] = "none" /\ Housing!StatusOf(p) \in {"active", "missing"} /\ currentId' = p
        /\ home' = [home EXCEPT ![s] = p] /\ live' = live \cup {s}
        /\ UNCHANGED <<stored, defaultId, turnRoot>>
    BY <1>2 DEF Housing!CreateSessionIn, Housing!None
  <2>2. stored[p] = "open"
    BY <2>1, OpenIsActive DEF HousingInv
  <2>3. HousingTyped'
    BY <2>1 DEF HousingInv, HousingTyped
  <2> QED
    BY <1>1, <2>1, <2>2, <2>3
<1>3. ASSUME Housing!CreateSession(s) PROVE HousingInv'
  <2>1. /\ home[s] = "none" /\ Housing!EnsureCurrent
        /\ home' = [home EXCEPT ![s] = Housing!Current] /\ live' = live \cup {s}
        /\ UNCHANGED turnRoot
    BY <1>3 DEF Housing!CreateSession, Housing!None
  <2>2. /\ Housing!Current \in Folders /\ stored'[Housing!Current] = "open"
        /\ \A x \in Folders : stored[x] = "open" => stored'[x] = "open"
        /\ stored' \in [Folders -> {"none", "open", "archived"}]
        /\ currentId' \in Folders \cup {"none"} /\ defaultId' \in Folders \cup {"none"}
    BY <2>1, CurrentIsOpen DEF HousingInv
  <2>3. HousingTyped'
    BY <2>1, <2>2 DEF HousingInv, HousingTyped
  <2> QED
    BY <1>1, <2>1, <2>2, <2>3
<1>4. ASSUME Housing!StartTurn(s) PROVE HousingInv'
  <2>1. s \in live /\ home[s] \in Folders /\ stored[home[s]] = "open"
    BY <1>4 DEF Housing!StartTurn, HousingInv
  <2>2. Housing!Rehoused(s) = home[s]
    BY <2>1, OpenIsActive DEF HousingInv, Housing!Rehoused
  <2>3. /\ UNCHANGED <<stored, currentId, defaultId, live>>
        /\ home' = [home EXCEPT ![s] = home[s]]
        /\ turnRoot' = [turnRoot EXCEPT ![s] = home[s]]
    BY <1>4, <2>2 DEF Housing!StartTurn
  <2>4. home' = home
    BY <2>3 DEF HousingInv, HousingTyped
  <2> QED
    BY <2>1, <2>3, <2>4 DEF HousingInv, HousingTyped
<1>5. ASSUME Housing!EndTurn(s) PROVE HousingInv'
  <2>1. /\ turnRoot' = [turnRoot EXCEPT ![s] = "none"]
        /\ UNCHANGED <<stored, currentId, defaultId, home, live>>
    BY <1>5 DEF Housing!EndTurn, Housing!None
  <2> QED
    BY <2>1 DEF HousingInv, HousingTyped
<1>6. ASSUME Housing!DeleteSession(s) PROVE HousingInv'
  <2>1. /\ turnRoot[s] = "none" /\ live' = live \ {s}
        /\ UNCHANGED <<stored, currentId, defaultId, home, turnRoot>>
    BY <1>6 DEF Housing!DeleteSession, Housing!None
  <2> QED
    BY <2>1 DEF HousingInv, HousingTyped
<1> QED
  BY <1>2, <1>3, <1>4, <1>5, <1>6

\* loadSessions() opens the default project and moves what would be left in archived ones.
LEMMA HousingRestartKeeps == ASSUME HousingInv, Housing!Restart PROVE HousingInv'
<1>1. /\ stored' = [stored EXCEPT ![Housing!DefaultProject] = "open"]
      /\ currentId' = Housing!DefaultProject /\ defaultId' = Housing!DefaultProject
      /\ home' = [s \in ProjectSessions |->
             IF home[s] = "none" \/ stored'[home[s]] # "archived" THEN home[s] ELSE Housing!DefaultProject]
      /\ turnRoot' = [s \in ProjectSessions |-> "none"]
      /\ UNCHANGED live
  BY DEF Housing!Restart, Housing!EnsureDefault, Housing!None
<1>2. Housing!DefaultProject \in Folders
  BY DefaultIsProject DEF HousingInv
<1>3. HousingTyped'
  BY <1>1, <1>2 DEF HousingInv, HousingTyped
<1>4. \A s \in live' : home'[s] \in Folders /\ stored'[home'[s]] = "open"
  BY <1>1, <1>2 DEF HousingInv, HousingTyped
<1> QED
  BY <1>1, <1>3, <1>4 DEF HousingInv

\* Every step of the project store and of the sessions in it preserves the invariant.
LEMMA HousingNext == ASSUME HousingInv, [Housing!Next]_ProjectsVars PROVE HousingInv'
<1>1. CASE UNCHANGED ProjectsVars
  BY <1>1 DEF HousingInv, HousingTyped, ProjectsVars
<1>2. ASSUME Housing!GetCurrentProject PROVE HousingInv'
  <2>1. Housing!EnsureCurrent /\ UNCHANGED <<home, live, turnRoot>>
    BY <1>2 DEF Housing!GetCurrentProject
  <2> QED
    BY <2>1, CurrentIsOpen DEF HousingInv, HousingTyped
<1>3. CASE Housing!Next
  BY <1>2, <1>3, ProjectKeeps, SessionKeeps, HousingRestartKeeps DEF Housing!Next
<1> QED
  BY <1>1, <1>3

\* In the composition projects change by their own steps only.
LEMMA ProjectsRest == [EdgesNext]_<<focus, vars, edges>> => [Housing!Next]_ProjectsVars
BY DEF EdgesNext, OthersRest, edges

\* A session that is not archived is in a project that is not archived, and its turn works
\* there (core-api.ts, archiveProject, #ensureSessionProject, loadSessions), for any
\* folders and sessions.
THEOREM SessionsHaveProjects == EdgesSpec => []SessionsAreHoused
<1>1. EdgesInit => HousingInv
  BY HousingInit DEF EdgesInit
<1>2. HousingInv /\ [EdgesNext]_<<focus, vars, edges>> => HousingInv'
  BY HousingNext, ProjectsRest
<1>3. HousingInv => SessionsAreHoused
  BY OpenIsActive DEF HousingInv, HousingTyped, SessionsAreHoused, Housing!SessionsAreHoused, Housing!None
<1> QED
  BY <1>1, <1>2, <1>3, PTL DEF EdgesSpec

-----------------------------------------------------------------------------
(* MCP connections.                                                        *)

Callers == {"timer", "enable", "tool"}

EntryType ==
    [state : {"configured", "connecting", "connected", "needs_auth", "degraded", "failed", "gave_up"},
     explicit : BOOLEAN, current : 0..MaxTransports, failures : Nat, cool : Nat,
     keepalive : BOOLEAN, timer : {"off", "soon", "next"}, again : BOOLEAN, budget : Nat,
     counting : BOOLEAN]

\* A server that was closed on purpose has no reconnect timer.
Resting(e) == e.explicit => e.timer = "off"

\* Which attempts are under way matters as far as what follows a failure depends on it.
McpInv ==
    /\ entry \in EntryType
    /\ \A a \in tries : a.who \in Callers
    /\ Resting(entry)

\* #recordFailure() does not look at the timer.
LEMMA RecordFailureRests ==
    ASSUME NEW e \in EntryType, Resting(e), NEW detail \in {"degraded", "failed"}
    PROVE  Mcp!RecordFailure(e, detail) \in EntryType /\ Resting(Mcp!RecordFailure(e, detail))
<1>1. CASE e.explicit
  BY <1>1 DEF Mcp!RecordFailure
<1>2. CASE ~e.explicit
  <2> DEFINE failures == IF e.failures < 2 THEN e.failures + 1 ELSE 2
             cool == IF e.failures = 2 THEN 2 ELSE e.cool
  <2>1. Mcp!RecordFailure(e, detail) =
            [e EXCEPT !.state = detail, !.failures = failures, !.cool = cool]
    BY <1>2 DEF Mcp!RecordFailure, Mcp!Cooldown, EntryType
  <2>2. failures \in Nat /\ cool \in Nat
    BY DEF EntryType
  <2> HIDE DEF failures, cool
  <2> QED
    BY <1>2, <2>1, <2>2 DEF EntryType, Resting
<1> QED
  BY <1>1, <1>2 DEF EntryType

\* #scheduleReconnect() sets no timer for a server that was closed on purpose.
LEMMA ScheduleRests ==
    ASSUME NEW e \in EntryType, Resting(e)
    PROVE  Mcp!ScheduleReconnect(e) \in EntryType /\ Resting(Mcp!ScheduleReconnect(e))
<1>1. CASE e.explicit
  BY <1>1 DEF Mcp!ScheduleReconnect
<1>2. CASE ~e.explicit
  <2>1. CASE e.counting /\ e.budget > GiveUp
    <3>1. Mcp!ScheduleReconnect(e) = [e EXCEPT !.state = "gave_up"]
      BY <1>2, <2>1 DEF Mcp!ScheduleReconnect
    <3> QED
      BY <1>2, <3>1 DEF EntryType, Resting
  <2>2. CASE ~(e.counting /\ e.budget > GiveUp)
    <3>1. \E x \in {"next", "soon"} :
              Mcp!ScheduleReconnect(e) = [e EXCEPT !.counting = TRUE, !.again = TRUE, !.timer = x]
      BY <1>2, <2>2 DEF Mcp!ScheduleReconnect
    <3> QED
      BY <1>2, <3>1 DEF EntryType, Resting
  <2> QED
    BY <2>1, <2>2
<1> QED
  BY <1>1, <1>2

\* What follows a failed attempt, whoever made it.
LEMMA ThrownRests ==
    ASSUME NEW e \in EntryType, Resting(e), NEW who \in Callers
    PROVE  Mcp!Thrown(e, who) \in EntryType /\ Resting(Mcp!Thrown(e, who))
<1>1. CASE who = "timer"
  <2>1. Mcp!Thrown(e, who) = Mcp!ScheduleReconnect(Mcp!RecordFailure(e, "degraded"))
    BY <1>1 DEF Mcp!Thrown
  <2> QED
    BY <2>1, RecordFailureRests, ScheduleRests
<1>2. CASE who = "enable"
  BY <1>2, RecordFailureRests DEF Mcp!Thrown
<1>3. CASE who = "tool"
  BY <1>3 DEF Mcp!Thrown
<1> QED
  BY <1>1, <1>2, <1>3 DEF Callers

\* A transport that closed late, or a ping that failed.
LEMMA DegradedRests ==
    ASSUME NEW e \in EntryType, Resting(e)
    PROVE  Mcp!Degraded(e) \in EntryType /\ Resting(Mcp!Degraded(e))
<1>1. CASE e.explicit
  BY <1>1 DEF Mcp!Degraded
<1>2. CASE ~e.explicit
  <2>1. Mcp!Degraded(e) = Mcp!ScheduleReconnect([e EXCEPT !.state = "degraded"])
    BY <1>2 DEF Mcp!Degraded
  <2>2. [e EXCEPT !.state = "degraded"] \in EntryType /\ Resting([e EXCEPT !.state = "degraded"])
    BY <1>2 DEF EntryType, Resting
  <2> QED
    BY <2>1, <2>2, ScheduleRests
<1> QED
  BY <1>1, <1>2 DEF EntryType

\* connect() of an entry that rests: it stays so, or the purpose is taken back.
LEMMA ConnectKeeps ==
    ASSUME NEW e \in EntryType, Resting(e), NEW who \in Callers, NEW trusted \in BOOLEAN,
           \A a \in tries : a.who \in Callers, Mcp!Connect(e, who, trusted)
    PROVE  McpInv'
<1>1. CASE ~trusted \/ (e.state # "connected" /\ e.cool > 0)
  <2>1. entry' = Mcp!Thrown(e, who) /\ UNCHANGED tries
    BY <1>1 DEF Mcp!Connect
  <2> QED
    BY <2>1, ThrownRests DEF McpInv, Resting
<1>2. CASE ~(~trusted \/ (e.state # "connected" /\ e.cool > 0))
  <2>1. CASE e.state = "connected"
    <3>1. /\ tries' = tries \cup {[who |-> who, at |-> "refresh", t |-> e.current]}
          /\ entry' = e
      BY <1>2, <2>1 DEF Mcp!Connect
    <3> QED
      BY <3>1 DEF McpInv, Resting
  <2>2. CASE e.state # "connected"
    <3> DEFINE t == CHOOSE x \in Mcp!Transports : transport[x] = "none"
    <3>1. /\ \E x \in Mcp!Transports : transport[x] = "none"
          /\ entry' = [e EXCEPT !.state = "connecting", !.current = t, !.explicit = FALSE]
          /\ tries' = tries \cup {[who |-> who, at |-> "handshake", t |-> t]}
      BY <1>2, <2>2 DEF Mcp!Connect
    <3>2. t \in 0..MaxTransports
      BY <3>1 DEF Mcp!Transports
    <3> HIDE DEF t
    <3>3. entry' \in EntryType /\ ~entry'.explicit
      BY <3>1, <3>2 DEF EntryType
    <3>4. \A a \in tries' : a.who \in Callers
      BY <3>1
    <3> QED
      BY <3>3, <3>4 DEF McpInv, Resting
  <2> QED
    BY <2>1, <2>2
<1> QED
  BY <1>1, <1>2

\* The steps of an attempt that is under way.
LEMMA AttemptKeeps ==
    ASSUME McpInv, NEW a \in tries
    PROVE  /\ Mcp!HandshakeDone(a) => McpInv'
           /\ Mcp!HandshakeFails(a) => McpInv'
           /\ Mcp!Unauthorized(a) => McpInv'
           /\ Mcp!SurfaceDone(a) => McpInv'
<1>1. ASSUME Mcp!HandshakeDone(a) PROVE McpInv'
  <2>1. /\ entry' = [entry EXCEPT !.state = "connected", !.failures = 0, !.cool = 0,
                                  !.counting = FALSE, !.budget = 0, !.again = FALSE]
        /\ \A x \in tries' : x \in tries \/ x = [a EXCEPT !.at = "list", !.t = entry.current]
    BY <1>1 DEF Mcp!HandshakeDone
  <2>2. a.who \in Callers /\ [a EXCEPT !.at = "list", !.t = entry.current].who = a.who
    BY DEF McpInv
  <2>3. \A x \in tries' : x.who \in Callers
    BY <2>1, <2>2 DEF McpInv
  <2>4. entry' \in EntryType /\ entry'.explicit = entry.explicit /\ entry'.timer = entry.timer
    BY <2>1 DEF McpInv, EntryType
  <2> QED
    BY <2>3, <2>4 DEF McpInv, Resting
<1>2. ASSUME Mcp!HandshakeFails(a) PROVE McpInv'
  <2>1. /\ entry' = Mcp!Thrown(Mcp!RecordFailure(entry, "failed"), a.who)
        /\ tries' = tries \ {a}
    BY <1>2 DEF Mcp!HandshakeFails
  <2> QED
    BY <2>1, RecordFailureRests, ThrownRests DEF McpInv, Resting
<1>3. ASSUME Mcp!Unauthorized(a) PROVE McpInv'
  <2>1. entry' = [entry EXCEPT !.state = "needs_auth"] /\ tries' = tries \ {a}
    BY <1>3 DEF Mcp!Unauthorized
  <2> QED
    BY <2>1 DEF McpInv, EntryType, Resting
<1>4. ASSUME Mcp!SurfaceDone(a) PROVE McpInv'
  <2> DEFINE e == IF Mcp!Answers(a.t) THEN entry ELSE Mcp!RecordFailure(entry, "degraded")
  <2>1. /\ entry' = [e EXCEPT !.keepalive = e.keepalive \/ a.at = "list"]
        /\ tries' = tries \ {a}
    BY <1>4 DEF Mcp!SurfaceDone
  <2>2. e \in EntryType /\ Resting(e)
    BY RecordFailureRests DEF McpInv
  <2> HIDE DEF e
  <2>3. (e.keepalive \/ a.at = "list") \in BOOLEAN
    OBVIOUS
  <2>4. entry' \in EntryType /\ entry'.explicit = e.explicit /\ entry'.timer = e.timer
    BY <2>1, <2>2, <2>3 DEF EntryType
  <2> QED
    BY <2>1, <2>2, <2>4 DEF McpInv, Resting
<1> QED
  BY <1>1, <1>2, <1>3, <1>4

\* The configuration operations: disconnect() clears the timer as it states its purpose.
LEMMA ConfigurationKeeps ==
    ASSUME McpInv
    PROVE  /\ \A o \in {"disable", "remove", "update", "retry"} : Mcp!Disconnect(o) => McpInv'
           /\ Mcp!Reconfigure => McpInv'
           /\ \A lazy \in BOOLEAN : Mcp!Enable(lazy) => McpInv'
<1>1. ASSUME NEW o, Mcp!Disconnect(o) PROVE McpInv'
  <2>1. /\ entry' = [entry EXCEPT !.explicit = TRUE, !.keepalive = FALSE, !.timer = "off"]
        /\ UNCHANGED tries
    BY <1>1 DEF Mcp!Disconnect
  <2> QED
    BY <2>1 DEF McpInv, EntryType, Resting
<1>2. ASSUME Mcp!Reconfigure PROVE McpInv'
  <2> DEFINE idle == [entry EXCEPT !.state = "configured"]
  <2>1. \/ Mcp!Connect(idle, "tool", config = "on")
        \/ entry' = idle /\ UNCHANGED tries
    BY <1>2 DEF Mcp!Reconfigure
  <2>2. idle \in EntryType /\ Resting(idle)
    BY DEF McpInv, EntryType, Resting
  <2> HIDE DEF idle
  <2>3. CASE Mcp!Connect(idle, "tool", config = "on")
    BY <2>2, <2>3, ConnectKeeps DEF McpInv, Callers
  <2>4. CASE entry' = idle /\ UNCHANGED tries
    BY <2>2, <2>4 DEF McpInv, Resting
  <2> QED
    BY <2>1, <2>3, <2>4
<1>3. ASSUME NEW lazy \in BOOLEAN, Mcp!Enable(lazy) PROVE McpInv'
  <2>1. CASE lazy
    BY <1>3, <2>1 DEF Mcp!Enable, McpInv, Resting
  <2>2. CASE ~lazy
    <3>1. Mcp!Connect(entry, "enable", TRUE)
      BY <1>3, <2>2 DEF Mcp!Enable
    <3> QED
      BY <3>1, ConnectKeeps DEF McpInv, Callers
  <2> QED
    BY <2>1, <2>2
<1> QED
  BY <1>1, <1>2, <1>3

\* What starts attempts, and what time and the server do.
LEMMA RuntimeKeeps ==
    ASSUME McpInv
    PROVE  /\ Mcp!ConnectTool => McpInv'
           /\ Mcp!ListChanged => McpInv'
           /\ Mcp!ReconnectTimer => McpInv'
           /\ \A t \in Mcp!Transports : Mcp!OnClose(t) => McpInv'
           /\ Mcp!PingFails => McpInv'
           /\ Mcp!Tick => McpInv'
           /\ Mcp!ServerStops \/ Mcp!ServerReturns => McpInv'
<1>1. ASSUME Mcp!ConnectTool PROVE McpInv'
  <2>1. Mcp!Connect(entry, "tool", config = "on")
    BY <1>1 DEF Mcp!ConnectTool
  <2> QED
    BY <2>1, ConnectKeeps DEF McpInv, Callers
<1>2. ASSUME Mcp!ListChanged PROVE McpInv'
  <2>1. /\ tries' = tries \cup {[who |-> "tool", at |-> "refresh", t |-> entry.current]}
        /\ UNCHANGED entry
    BY <1>2 DEF Mcp!ListChanged
  <2> QED
    BY <2>1 DEF McpInv, Callers, Resting
<1>3. ASSUME Mcp!ReconnectTimer PROVE McpInv'
  <2> DEFINE e == [entry EXCEPT !.timer = "off"]
  <2>1. Mcp!Connect(e, "timer", config = "on")
    BY <1>3 DEF Mcp!ReconnectTimer
  <2>2. e \in EntryType /\ Resting(e)
    BY DEF McpInv, EntryType, Resting
  <2> HIDE DEF e
  <2> QED
    BY <2>1, <2>2, ConnectKeeps DEF McpInv, Callers
<1>4. ASSUME NEW t \in Mcp!Transports, Mcp!OnClose(t) PROVE McpInv'
  <2>1. entry' = Mcp!Degraded(entry) /\ UNCHANGED tries
    BY <1>4 DEF Mcp!OnClose
  <2> QED
    BY <2>1, DegradedRests DEF McpInv, Resting
<1>5. ASSUME Mcp!PingFails PROVE McpInv'
  <2>1. entry' = Mcp!Degraded(entry) /\ UNCHANGED tries
    BY <1>5 DEF Mcp!PingFails
  <2> QED
    BY <2>1, DegradedRests DEF McpInv, Resting
<1>6. ASSUME Mcp!Tick PROVE McpInv'
  <2> DEFINE cool == IF entry.cool > 0 THEN entry.cool - 1 ELSE 0
             budget == IF entry.counting THEN entry.budget + 1 ELSE entry.budget
             timer == IF entry.timer = "next" THEN "soon" ELSE entry.timer
  <2>1. /\ entry' = [entry EXCEPT !.cool = cool, !.budget = budget, !.timer = timer]
        /\ UNCHANGED tries
    BY <1>6 DEF Mcp!Tick
  <2>2. /\ cool \in Nat /\ budget \in Nat /\ timer \in {"off", "soon", "next"}
        /\ entry.timer = "off" => timer = "off"
    BY DEF McpInv, EntryType
  <2> HIDE DEF cool, budget, timer
  <2>3. entry' \in EntryType /\ entry'.explicit = entry.explicit /\ entry'.timer = timer
    BY <2>1, <2>2 DEF McpInv, EntryType
  <2> QED
    BY <2>1, <2>2, <2>3 DEF McpInv, Resting
<1>7. ASSUME Mcp!ServerStops \/ Mcp!ServerReturns PROVE McpInv'
  <2>1. UNCHANGED <<entry, tries>>
    BY <1>7 DEF Mcp!ServerStops, Mcp!ServerReturns
  <2> QED
    BY <2>1 DEF McpInv, Resting
<1> QED
  BY <1>1, <1>2, <1>3, <1>4, <1>5, <1>6, <1>7

\* Every step of the connection preserves the invariant.
LEMMA McpNext == ASSUME McpInv, [Mcp!Next]_McpVars PROVE McpInv'
<1>1. CASE UNCHANGED McpVars
  BY <1>1 DEF McpInv, Resting, McpVars
<1>2. CASE Mcp!Next
  BY <1>2, AttemptKeeps, ConfigurationKeeps, RuntimeKeeps DEF Mcp!Next
<1> QED
  BY <1>1, <1>2

\* In the composition the connection changes by its own steps only.
LEMMA McpRests == [EdgesNext]_<<focus, vars, edges>> => [Mcp!Next]_McpVars
BY DEF EdgesNext, OthersRest, edges

\* No timer brings back a server that was disabled, removed or disconnected on purpose,
\* whatever closes, fails or ends late (runtime-manager.ts, disconnect and
\* #scheduleReconnect), for any number of transports and attempts.
THEOREM ClosedServersRest == EdgesSpec => []ClosedStaysClosed
<1>1. EdgesInit => McpInv
  <2> SUFFICES ASSUME EdgesInit PROVE McpInv
    OBVIOUS
  <2>1. entry = Mcp!Fresh /\ tries = {}
    BY DEF EdgesInit, Mcp!Init
  <2>2. Mcp!Fresh \in EntryType /\ Resting(Mcp!Fresh)
    BY EdgesAssumptions DEF Mcp!Fresh, EntryType, Resting
  <2> QED
    BY <2>1, <2>2 DEF McpInv
<1>2. McpInv /\ [EdgesNext]_<<focus, vars, edges>> => McpInv'
  BY McpNext, McpRests
<1>3. McpInv => ClosedStaysClosed
  BY DEF McpInv, Resting, ClosedStaysClosed, Mcp!ClosedStaysClosed
<1> QED
  BY <1>1, <1>2, <1>3, PTL DEF EdgesSpec

-----------------------------------------------------------------------------
(* The gateway as a process.                                               *)

ProcessTyped(r) ==
    /\ r = [at |-> r.at, dir |-> r.dir, port |-> r.port, launchd |-> r.launchd, beside |-> r.beside]
    /\ r.at \in {"none", "booting", "serving", "closing", "gone"}
    /\ r.dir \in {"cli", "app"} /\ r.beside \in BOOLEAN

ServiceTyped ==
    /\ proc = [p \in Pids |-> proc[p]] /\ \A p \in Pids : ProcessTyped(proc[p])
    /\ runFile \in [{"cli", "app"} -> Pids \cup {"none"}]
    /\ agent = [loaded |-> agent.loaded, dir |-> agent.dir, port |-> agent.port, pid |-> agent.pid]
    /\ agent.dir \in {"cli", "app"} /\ agent.pid \in Pids \cup {"none"}
    /\ cli = [t \in Terminals |-> [todo |-> cli[t].todo, pid |-> cli[t].pid]]
    /\ \A t \in Terminals : cli[t].pid \in Pids \cup {"none"}

\* A process has its directory from when it listens until it is gone.
Has(p, d) == proc[p].at \in {"serving", "closing"} /\ proc[p].dir = d

\* Processes that have a directory at the same time are excepted, both of them.
TogetherIsBeside ==
    \A d \in {"cli", "app"}, p, q \in Pids : Has(p, d) /\ Has(q, d) /\ p # q => proc[q].beside

\* A run file names a process of its directory that has been serving.
NamedHasServed ==
    \A d \in {"cli", "app"} : runFile[d] # "none" => Has(runFile[d], d) \/ proc[runFile[d]].at = "gone"

\* A command that waits for a process to end has told it to, and would clear the run
\* file of nobody who was not beside it.
StopsTheClosing ==
    \A t \in Terminals : cli[t].pid # "none" =>
        /\ \/ proc[cli[t].pid].at = "closing" /\ proc[cli[t].pid].dir = "cli"
           \/ proc[cli[t].pid].at = "gone"
        /\ \A q \in Pids : proc[q].at = "serving" /\ proc[q].dir = "cli" => proc[q].beside

\* The property, said of the process table.
NamedOrBeside ==
    \A q \in Pids : proc[q].at = "serving" => runFile[proc[q].dir] = q \/ proc[q].beside

ServiceInv ==
    /\ ServiceTyped
    /\ TogetherIsBeside
    /\ NamedHasServed
    /\ StopsTheClosing
    /\ NamedOrBeside

LEMMA ServiceNames == ServiceInv => Service!RunFileNamesTheCore
BY DEF ServiceInv, NamedOrBeside, Service!RunFileNamesTheCore, Service!Serving

\* Processes go on as they are, shut down or are gone.
GoesDown(p) ==
    \/ proc'[p] = proc[p]
    \/ proc'[p] = Service!Gone
    \/ proc[p].at = "serving" /\ proc'[p] = [proc[p] EXCEPT !.at = "closing"]
ProcessesGoDown == proc' = [p \in Pids |-> proc'[p]] /\ \A p \in Pids : GoesDown(p)

\* A command waits for who it waited for, or for one of its directory that goes down.
WaitsNoMore ==
    /\ cli' = [t \in Terminals |-> [todo |-> cli'[t].todo, pid |-> cli'[t].pid]]
    /\ \A t \in Terminals : cli'[t].pid \in {cli[t].pid, "none"}
WaitsForTheEnding ==
    /\ cli' = [t \in Terminals |-> [todo |-> cli'[t].todo, pid |-> cli'[t].pid]]
    /\ \A t \in Terminals :
           \/ cli'[t].pid \in {cli[t].pid, "none"}
           \/ cli'[t].pid \in Pids /\ Has(cli'[t].pid, "cli") /\ proc'[cli'[t].pid].at # "serving"

\* launchd's record is one that installing or unloading leaves.
AgentStands ==
    /\ agent' = [loaded |-> agent'.loaded, dir |-> agent'.dir, port |-> agent'.port, pid |-> agent'.pid]
    /\ agent'.dir \in {"cli", "app"} /\ agent'.pid \in Pids \cup {"none"}

\* Run files stay, or are cleared where that hides nobody.
ClearsNobody ==
    /\ runFile' \in [{"cli", "app"} -> Pids \cup {"none"}]
    /\ \A d \in {"cli", "app"} :
           \/ runFile'[d] = runFile[d]
           \/ /\ runFile'[d] = "none"
              /\ \A q \in Pids : proc'[q].at = "serving" /\ proc[q].dir = d => proc[q].beside

\* Leaving commands, launchd, the processes or the run files alone is such a step.
LEMMA StandStill ==
    ASSUME ServiceInv
    PROVE  /\ UNCHANGED cli => WaitsNoMore
           /\ UNCHANGED proc => ProcessesGoDown
           /\ UNCHANGED agent => AgentStands
           /\ UNCHANGED runFile => ClearsNobody
BY DEF ServiceInv, ServiceTyped, WaitsNoMore, ProcessesGoDown, GoesDown, AgentStands, ClearsNobody

LEMMA WaitsNoMoreWaits == WaitsNoMore => WaitsForTheEnding
BY DEF WaitsNoMore, WaitsForTheEnding

\* What it means for a process to go down.
LEMMA WhoGoesDown ==
    ASSUME ServiceInv, ProcessesGoDown, NEW q \in Pids
    PROVE  /\ ProcessTyped(proc'[q])
           /\ proc'[q].at = "serving" => proc'[q] = proc[q]
           /\ proc'[q].at \in {"serving", "closing"} =>
                  /\ proc[q].at \in {"serving", "closing"}
                  /\ proc'[q].dir = proc[q].dir /\ proc'[q].beside = proc[q].beside
           /\ proc[q].at = "closing" => proc'[q].at \in {"closing", "gone"}
           /\ proc[q].at = "gone" => proc'[q].at = "gone"
           /\ proc[q].at \in {"serving", "closing"} => proc'[q].at \in {"serving", "closing", "gone"}
<1>1. ProcessTyped(proc[q]) /\ GoesDown(q)
  BY DEF ServiceInv, ServiceTyped, ProcessesGoDown
<1>2. CASE proc'[q] = proc[q]
  BY <1>1, <1>2
<1>3. CASE proc'[q] = Service!Gone
  BY <1>3 DEF Service!Gone, Service!NotYet, Service!None, ProcessTyped
<1>4. CASE proc[q].at = "serving" /\ proc'[q] = [proc[q] EXCEPT !.at = "closing"]
  <2>1. proc'[q] = [at |-> "closing", dir |-> proc[q].dir, port |-> proc[q].port,
                    launchd |-> proc[q].launchd, beside |-> proc[q].beside]
    BY <1>1, <1>4 DEF ProcessTyped
  <2> QED
    BY <1>1, <1>4, <2>1 DEF ProcessTyped
<1> QED
  BY <1>1, <1>2, <1>3, <1>4 DEF GoesDown

\* All that crashes, shutdowns, kills, stops and most commands do.
LEMMA FewerServe ==
    ASSUME ServiceInv, ProcessesGoDown, WaitsForTheEnding, AgentStands, ClearsNobody
    PROVE  ServiceInv'
<1>1. ServiceTyped'
  <2>1. \A t \in Terminals : cli'[t].pid \in Pids \cup {"none"}
    BY DEF ServiceInv, ServiceTyped, WaitsForTheEnding
  <2>2. \A p \in Pids : ProcessTyped(proc'[p])
    BY WhoGoesDown
  <2> QED
    BY <2>1, <2>2 DEF ServiceTyped, ProcessesGoDown, WaitsForTheEnding, AgentStands, ClearsNobody,
       ProcessTyped
<1>2. TogetherIsBeside'
  BY WhoGoesDown DEF ServiceInv, TogetherIsBeside, Has
<1>3. NamedHasServed'
  <2> SUFFICES ASSUME NEW d \in {"cli", "app"}, runFile'[d] # "none"
               PROVE  \/ proc'[runFile'[d]].at \in {"serving", "closing"} /\ proc'[runFile'[d]].dir = d
                      \/ proc'[runFile'[d]].at = "gone"
    BY DEF NamedHasServed, Has
  <2>1. runFile'[d] = runFile[d] /\ runFile[d] \in Pids
    BY DEF ClearsNobody, ServiceInv, ServiceTyped
  <2> QED
    BY <2>1, WhoGoesDown DEF ServiceInv, NamedHasServed, Has
<1>4. StopsTheClosing'
  <2> SUFFICES ASSUME NEW t \in Terminals, cli'[t].pid # "none"
               PROVE  /\ \/ proc'[cli'[t].pid].at = "closing" /\ proc'[cli'[t].pid].dir = "cli"
                         \/ proc'[cli'[t].pid].at = "gone"
                      /\ \A q \in Pids : proc'[q].at = "serving" /\ proc'[q].dir = "cli"
                             => proc'[q].beside
    BY DEF StopsTheClosing
  <2> DEFINE c == cli'[t].pid
  <2>1. CASE c = cli[t].pid
    <3>1. /\ c \in Pids
          /\ \/ proc[c].at = "closing" /\ proc[c].dir = "cli"
             \/ proc[c].at = "gone"
          /\ \A q \in Pids : proc[q].at = "serving" /\ proc[q].dir = "cli" => proc[q].beside
      BY <2>1 DEF ServiceInv, ServiceTyped, StopsTheClosing
    <3> QED
      BY <3>1, WhoGoesDown
  <2>2. CASE c \in Pids /\ Has(c, "cli") /\ proc'[c].at # "serving"
    <3>1. ASSUME NEW q \in Pids, proc'[q].at = "serving", proc'[q].dir = "cli" PROVE proc'[q].beside
      <4>1. proc'[q] = proc[q] /\ Has(q, "cli") /\ q # c
        BY <2>2, <3>1, WhoGoesDown DEF Has
      <4> QED
        BY <2>2, <4>1 DEF ServiceInv, TogetherIsBeside
    <3>2. \/ proc'[c].at = "closing" /\ proc'[c].dir = "cli"
          \/ proc'[c].at = "gone"
      BY <2>2, WhoGoesDown DEF Has
    <3> QED
      BY <3>1, <3>2
  <2> QED
    BY <2>1, <2>2 DEF WaitsForTheEnding
<1>5. NamedOrBeside'
  <2> SUFFICES ASSUME NEW q \in Pids, proc'[q].at = "serving"
               PROVE  runFile'[proc'[q].dir] = q \/ proc'[q].beside
    BY DEF NamedOrBeside
  <2>1. proc'[q] = proc[q] /\ proc[q].dir \in {"cli", "app"}
    BY WhoGoesDown DEF ServiceInv, ServiceTyped, ProcessTyped
  <2>2. runFile[proc[q].dir] = q \/ proc[q].beside
    BY <2>1 DEF ServiceInv, NamedOrBeside
  <2> QED
    BY <2>1, <2>2 DEF ClearsNobody
<1> QED
  BY <1>1, <1>2, <1>3, <1>4, <1>5 DEF ServiceInv

\* One process is killed, or told to end.
LEMMA Kills ==
    ASSUME ServiceInv, NEW p \in Pids
    PROVE  /\ proc' = Service!Killed(proc, p) => ProcessesGoDown /\ proc'[p].at = "gone"
           /\ proc' = Service!Terminated(proc, p) => ProcessesGoDown /\ proc'[p].at # "serving"
<1>1. proc = [q \in Pids |-> proc[q]] /\ ProcessTyped(proc[p])
  BY DEF ServiceInv, ServiceTyped
<1>2. ASSUME NEW x, proc' = [proc EXCEPT ![p] = x]
      PROVE  /\ proc' = [q \in Pids |-> proc'[q]] /\ proc'[p] = x
             /\ \A q \in Pids \ {p} : proc'[q] = proc[q]
  BY <1>1, <1>2
<1>3. Service!Gone.at = "gone"
  BY DEF Service!Gone, Service!NotYet, Service!None
<1>4. ASSUME proc' = Service!Killed(proc, p) PROVE ProcessesGoDown /\ proc'[p].at = "gone"
  BY <1>2, <1>3, <1>4 DEF Service!Killed, ProcessesGoDown, GoesDown
<1>5. ASSUME proc' = Service!Terminated(proc, p) PROVE ProcessesGoDown /\ proc'[p].at # "serving"
  <2> DEFINE x == IF proc[p].at = "booting" THEN Service!Gone
                  ELSE IF proc[p].at = "serving" THEN [proc[p] EXCEPT !.at = "closing"] ELSE proc[p]
  <2>1. proc' = [proc EXCEPT ![p] = x]
    BY <1>1, <1>5 DEF Service!Terminated
  <2>2. [proc[p] EXCEPT !.at = "closing"].at = "closing"
    BY <1>1 DEF ProcessTyped
  <2>3. x.at # "serving"
    BY <1>3, <2>2
  <2>4. proc'[p] = x /\ proc' = [q \in Pids |-> proc'[q]] /\ \A q \in Pids \ {p} : proc'[q] = proc[q]
    BY <1>2, <2>1
  <2>5. GoesDown(p)
    BY <2>4 DEF GoesDown
  <2> QED
    BY <2>3, <2>4, <2>5 DEF ProcessesGoDown, GoesDown
<1> QED
  BY <1>4, <1>5

\* Clearing one run file.
LEMMA Clears ==
    ASSUME ServiceInv, NEW d \in {"cli", "app"}, runFile' = [runFile EXCEPT ![d] = "none"],
           \A q \in Pids : proc'[q].at = "serving" /\ proc[q].dir = d => proc[q].beside
    PROVE  ClearsNobody
BY DEF ServiceInv, ServiceTyped, ClearsNobody

\* Who clears the run file of a process that is dead hides nobody.
LEMMA DeadIsCleared ==
    ASSUME ServiceInv, NEW d \in {"cli", "app"}, ~Service!Alive(runFile[d])
    PROVE  \A q \in Pids : proc[q].at = "serving" /\ proc[q].dir = d => proc[q].beside
BY EdgesAssumptions DEF ServiceInv, NamedOrBeside, Service!Alive, Service!None

\* Crashes, ends of shutdowns and the kill of a job that does not end.
LEMMA EndsKeep ==
    ASSUME ServiceInv
    PROVE  /\ \A p \in Pids : Service!Crash(p) => ServiceInv'
           /\ \A p \in Pids : Service!ShutDown(p) => ServiceInv'
           /\ Service!UnloadKills => ServiceInv'
           /\ \A t \in Terminals : Service!Stopping(t) => ServiceInv'
<1>1. ASSUME NEW p \in Pids, proc' = Service!Killed(proc, p), UNCHANGED <<runFile, agent, cli>>
      PROVE  ServiceInv'
  BY <1>1, Kills, StandStill, WaitsNoMoreWaits, FewerServe
<1>2. ASSUME NEW p \in Pids, Service!Crash(p) PROVE ServiceInv'
  BY <1>1, <1>2 DEF Service!Crash
<1>3. ASSUME Service!UnloadKills PROVE ServiceInv'
  <2>1. agent.pid \in Pids
    BY <1>3 DEF Service!UnloadKills, Service!Alive, Service!None, ServiceInv, ServiceTyped
  <2> QED
    BY <1>1, <1>3, <2>1 DEF Service!UnloadKills
<1>4. ASSUME NEW p \in Pids, Service!ShutDown(p) PROVE ServiceInv'
  <2> DEFINE d == proc[p].dir
  <2>1. /\ proc[p].at = "closing" /\ proc' = Service!Killed(proc, p)
        /\ runFile' = [runFile EXCEPT ![d] = "none"] /\ UNCHANGED <<agent, cli>>
    BY <1>4 DEF Service!ShutDown, Service!None
  <2>2. d \in {"cli", "app"}
    BY DEF ServiceInv, ServiceTyped, ProcessTyped
  <2>3. ProcessesGoDown
    BY <2>1, Kills
  <2>4. ASSUME NEW q \in Pids, proc'[q].at = "serving", proc[q].dir = d PROVE proc[q].beside
    <3>1. Has(p, d) /\ Has(q, d) /\ p # q
      BY <2>1, <2>3, <2>4, WhoGoesDown DEF Has
    <3> QED
      BY <2>2, <3>1 DEF ServiceInv, TogetherIsBeside
  <2> HIDE DEF d
  <2>5. ClearsNobody
    BY <2>1, <2>2, <2>4, Clears
  <2> QED
    BY <2>1, <2>3, <2>5, StandStill, WaitsNoMoreWaits, FewerServe
<1>5. ASSUME NEW t \in Terminals, Service!Stopping(t) PROVE ServiceInv'
  <2> DEFINE p == cli[t].pid
  <2>1. /\ p # "none" /\ proc' = Service!Killed(proc, p)
        /\ runFile' = [runFile EXCEPT !["cli"] = "none"]
        /\ cli' = [cli EXCEPT ![t] = [todo |-> Tail(cli[t].todo), pid |-> "none"]]
        /\ UNCHANGED agent
    BY <1>5 DEF Service!Stopping, Service!Done, Service!None
  <2>2. p \in Pids
    BY <2>1 DEF ServiceInv, ServiceTyped
  <2>3. ProcessesGoDown
    BY <2>1, <2>2, Kills
  <2>4. \A q \in Pids : proc'[q].at = "serving" /\ proc[q].dir = "cli" => proc[q].beside
    BY <2>1, <2>3, WhoGoesDown DEF ServiceInv, StopsTheClosing
  <2>5. ClearsNobody
    BY <2>1, <2>4, Clears
  <2>6. WaitsNoMore
    BY <2>1 DEF ServiceInv, ServiceTyped, WaitsNoMore
  <2> QED
    BY <2>1, <2>3, <2>5, <2>6, StandStill, WaitsNoMoreWaits, FewerServe
<1> QED
  BY <1>2, <1>3, <1>4, <1>5

\* A process listens, and whoever has its directory is beside it from then on; on a port
\* that is taken it ends.
LEMMA ListenKeeps == ASSUME ServiceInv, NEW p \in Pids, Service!Listen(p) PROVE ServiceInv'
<1> DEFINE d == proc[p].dir
<1>1. /\ proc[p].at = "booting" /\ Service!ClearsFirst(d)
      /\ UNCHANGED <<agent, cli>> /\ d \in {"cli", "app"}
  BY DEF Service!Listen, ServiceInv, ServiceTyped, ProcessTyped
<1>2. CASE proc' = Service!Killed(proc, p) /\ UNCHANGED runFile
  BY <1>1, <1>2, Kills, StandStill, WaitsNoMoreWaits, FewerServe
<1>3. CASE Service!ComesUp(p)
  <2> DEFINE Others == Service!Others(p)
  <2>1. \A q \in Pids : q \in Others <=> q # p /\ Has(q, d)
    BY DEF Service!Others, Has
  <2>2. /\ proc' = [q \in Pids |->
               IF q = p THEN [proc[p] EXCEPT !.at = "serving", !.beside = Others # {}]
               ELSE IF q \in Others THEN [proc[q] EXCEPT !.beside = TRUE] ELSE proc[q]]
        /\ runFile' = [runFile EXCEPT ![d] = p]
    BY <1>3 DEF Service!ComesUp
  <2>3. Others \subseteq Pids
    BY DEF Service!Others
  <2> HIDE DEF Others
  <2>4. \A q \in Pids : ProcessTyped(proc[q])
    BY DEF ServiceInv, ServiceTyped
  <2>5. /\ proc'[p] = [at |-> "serving", dir |-> d, port |-> proc[p].port,
                       launchd |-> proc[p].launchd, beside |-> Others # {}]
        /\ proc'[p].at = "serving" /\ proc'[p].dir = d /\ (proc'[p].beside <=> Others # {})
        /\ ProcessTyped(proc'[p])
    <3> DEFINE b == Others # {}
    <3>1. proc'[p] = [proc[p] EXCEPT !.at = "serving", !.beside = b]
      BY <2>2
    <3>2. b \in BOOLEAN
      OBVIOUS
    <3> HIDE DEF b
    <3>3. proc'[p] = [at |-> "serving", dir |-> d, port |-> proc[p].port,
                      launchd |-> proc[p].launchd, beside |-> b]
      BY <2>4, <3>1 DEF ProcessTyped
    <3>4. /\ proc'[p].at = "serving" /\ proc'[p].dir = d /\ proc'[p].beside = b
          /\ proc'[p].port = proc[p].port /\ proc'[p].launchd = proc[p].launchd
      BY <3>3
    <3>5. ProcessTyped(proc'[p])
      BY <1>1, <3>2, <3>3, <3>4 DEF ProcessTyped
    <3> QED
      BY <3>3, <3>4, <3>5 DEF b
  <2>6. ASSUME NEW q \in Pids, q # p
        PROVE  /\ proc'[q].at = proc[q].at /\ proc'[q].dir = proc[q].dir
               /\ proc[q].beside => proc'[q].beside
               /\ Has(q, d) => proc'[q].beside
               /\ ProcessTyped(proc'[q])
    <3>1. CASE q \in Others
      <4>1. proc'[q] = [proc[q] EXCEPT !.beside = TRUE]
        BY <2>2, <2>6, <3>1
      <4>2. proc'[q] = [at |-> proc[q].at, dir |-> proc[q].dir, port |-> proc[q].port,
                        launchd |-> proc[q].launchd, beside |-> TRUE]
        BY <2>4, <4>1 DEF ProcessTyped
      <4>3. /\ proc'[q].at = proc[q].at /\ proc'[q].dir = proc[q].dir /\ proc'[q].port = proc[q].port
            /\ proc'[q].launchd = proc[q].launchd /\ proc'[q].beside = TRUE
        BY <4>2
      <4>4. ProcessTyped(proc'[q])
        BY <2>4, <4>2, <4>3 DEF ProcessTyped
      <4>5. proc'[q].beside
        BY <4>3
      <4> QED
        BY <4>3, <4>4, <4>5
    <3>2. CASE q \notin Others
      <4>1. proc'[q] = proc[q]
        BY <2>2, <2>6, <3>2
      <4>2. ~Has(q, d)
        BY <2>1, <2>6, <3>2
      <4>3. ProcessTyped(proc'[q])
        BY <2>4, <4>1 DEF ProcessTyped
      <4> QED
        BY <4>1, <4>2, <4>3
    <3> QED
      BY <3>1, <3>2
  <2>7. \A e \in {"cli", "app"} : runFile'[e] = IF e = d THEN p ELSE runFile[e]
    BY <1>1, <2>2 DEF ServiceInv, ServiceTyped
  <2>8. ServiceTyped'
    <3>1. runFile' \in [{"cli", "app"} -> Pids \cup {"none"}]
      BY <1>1, <2>2 DEF ServiceInv, ServiceTyped
    <3>2. proc' = [q \in Pids |-> proc'[q]]
      BY <2>2
    <3>3. \A q \in Pids : ProcessTyped(proc'[q])
      BY <2>5, <2>6
    <3> QED
      BY <1>1, <3>1, <3>2, <3>3 DEF ServiceInv, ServiceTyped, ProcessTyped
  <2>9. \A q \in Pids, e \in {"cli", "app"} :
            proc'[q].at \in {"serving", "closing"} /\ proc'[q].dir = e <=>
                IF q = p THEN e = d ELSE Has(q, e)
    BY <2>5, <2>6 DEF Has
  <2>10. TogetherIsBeside'
    <3> SUFFICES ASSUME NEW e \in {"cli", "app"}, NEW r \in Pids, NEW q \in Pids, r # q,
                        proc'[r].at \in {"serving", "closing"} /\ proc'[r].dir = e,
                        proc'[q].at \in {"serving", "closing"} /\ proc'[q].dir = e
                 PROVE  proc'[q].beside
      BY DEF TogetherIsBeside, Has
    <3>1. CASE q = p
      BY <2>1, <2>5, <2>9, <3>1
    <3>2. CASE r = p
      BY <2>6, <2>9, <3>2
    <3>3. CASE q # p /\ r # p
      BY <2>6, <2>9, <3>3 DEF ServiceInv, TogetherIsBeside
    <3> QED
      BY <3>1, <3>2, <3>3
  <2>11. NamedHasServed'
    <3> SUFFICES ASSUME NEW e \in {"cli", "app"}, runFile'[e] # "none"
                 PROVE  \/ proc'[runFile'[e]].at \in {"serving", "closing"} /\ proc'[runFile'[e]].dir = e
                        \/ proc'[runFile'[e]].at = "gone"
      BY DEF NamedHasServed, Has
    <3>1. CASE e = d
      BY <2>5, <2>7, <3>1
    <3>2. CASE e # d
      <4>1. runFile'[e] = runFile[e] /\ runFile[e] \in Pids /\ runFile[e] # p
        BY <1>1, <2>7, <3>2 DEF ServiceInv, ServiceTyped, NamedHasServed, Has
      <4> QED
        BY <2>6, <4>1 DEF ServiceInv, NamedHasServed, Has
    <3> QED
      BY <3>1, <3>2
  <2>12. StopsTheClosing'
    <3> SUFFICES ASSUME NEW t \in Terminals, cli[t].pid # "none"
                 PROVE  /\ \/ proc'[cli[t].pid].at = "closing" /\ proc'[cli[t].pid].dir = "cli"
                           \/ proc'[cli[t].pid].at = "gone"
                        /\ \A q \in Pids : proc'[q].at = "serving" /\ proc'[q].dir = "cli"
                               => proc'[q].beside
      BY <1>1 DEF StopsTheClosing
    <3> DEFINE c == cli[t].pid
    <3>1. /\ c \in Pids /\ c # p
          /\ \/ proc[c].at = "closing" /\ proc[c].dir = "cli"
             \/ proc[c].at = "gone"
          /\ \A q \in Pids : proc[q].at = "serving" /\ proc[q].dir = "cli" => proc[q].beside
      BY <1>1 DEF ServiceInv, ServiceTyped, StopsTheClosing
    <3>2. ASSUME d = "cli" PROVE proc'[p].beside
      <4>1. Service!Alive(c)
        BY <1>1, <3>2 DEF Service!ClearsFirst, Service!None
      <4>2. Has(c, d)
        BY <3>1, <3>2, <4>1 DEF Service!Alive, Has
      <4> QED
        BY <2>1, <2>5, <3>1, <4>2
    <3>3. proc'[c].at = proc[c].at /\ proc'[c].dir = proc[c].dir
      BY <2>6, <3>1
    <3>4. ASSUME NEW q \in Pids, proc'[q].at = "serving", proc'[q].dir = "cli" PROVE proc'[q].beside
      BY <2>5, <2>6, <3>1, <3>2, <3>4
    <3> QED
      BY <3>1, <3>3, <3>4
  <2>13. NamedOrBeside'
    <3> SUFFICES ASSUME NEW q \in Pids, proc'[q].at = "serving"
                 PROVE  runFile'[proc'[q].dir] = q \/ proc'[q].beside
      BY DEF NamedOrBeside
    <3>1. CASE q = p
      BY <1>1, <2>5, <2>7, <3>1
    <3>2. CASE q # p
      <4>1. proc[q].at = "serving" /\ proc'[q].dir = proc[q].dir /\ proc[q].dir \in {"cli", "app"}
        BY <2>4, <2>6, <3>2 DEF ProcessTyped
      <4>2. runFile[proc[q].dir] = q \/ proc[q].beside
        BY <4>1 DEF ServiceInv, NamedOrBeside
      <4>3. proc[q].dir = d => Has(q, d)
        BY <4>1 DEF Has
      <4> QED
        BY <2>6, <2>7, <3>2, <4>1, <4>2, <4>3
    <3> QED
      BY <3>1, <3>2
  <2> QED
    BY <2>8, <2>10, <2>11, <2>12, <2>13 DEF ServiceInv
<1> QED
  BY <1>1, <1>2, <1>3 DEF Service!Listen

\* A process starts, by a command or by launchd; the command may have found the run file
\* of a dead one.
LEMMA SpawnKeeps ==
    ASSUME ServiceInv, WaitsNoMore, AgentStands,
           NEW p \in Pids, NEW d \in {"cli", "app"}, NEW port, NEW byLaunchd,
           Service!Spawn(p, d, port, byLaunchd),
           \/ UNCHANGED runFile
           \/ /\ runFile' = [runFile EXCEPT !["cli"] = "none"]
              /\ ~Service!Alive(runFile["cli"])
    PROVE  ServiceInv'
<1> DEFINE new == [at |-> "booting", dir |-> d, port |-> port, launchd |-> byLaunchd, beside |-> FALSE]
<1>1. proc[p].at = "none" /\ proc' = [proc EXCEPT ![p] = new]
  BY DEF Service!Spawn, Service!None
<1>2. /\ proc' = [q \in Pids |-> proc'[q]] /\ proc'[p] = new
      /\ \A q \in Pids \ {p} : proc'[q] = proc[q]
  BY <1>1 DEF ServiceInv, ServiceTyped
<1>3. /\ proc'[p].at = "booting" /\ ProcessTyped(proc'[p])
      /\ \A q \in Pids : proc[q].at # "none" => proc'[q] = proc[q]
      /\ \A q \in Pids : proc'[q].at # "booting" => proc'[q] = proc[q]
  BY <1>1, <1>2 DEF ProcessTyped
<1> HIDE DEF new
<1>4. \A e \in {"cli", "app"} :
          \/ runFile'[e] = runFile[e]
          \/ /\ runFile'[e] = "none"
             /\ \A q \in Pids : proc[q].at = "serving" /\ proc[q].dir = e => proc[q].beside
  <2>1. CASE UNCHANGED runFile
    BY <2>1
  <2>2. CASE runFile' = [runFile EXCEPT !["cli"] = "none"] /\ ~Service!Alive(runFile["cli"])
    BY <2>2, DeadIsCleared DEF ServiceInv, ServiceTyped
  <2> QED
    BY <2>1, <2>2
<1>5. ServiceTyped'
  <2>1. runFile' \in [{"cli", "app"} -> Pids \cup {"none"}]
    BY DEF ServiceInv, ServiceTyped
  <2>2. \A q \in Pids : ProcessTyped(proc'[q])
    BY <1>2, <1>3 DEF ServiceInv, ServiceTyped
  <2> QED
    BY <1>2, <2>1, <2>2 DEF ServiceInv, ServiceTyped, WaitsNoMore, AgentStands, ProcessTyped
<1>6. TogetherIsBeside'
  BY <1>3 DEF ServiceInv, TogetherIsBeside, Has
<1>7. NamedHasServed'
  <2>1. \A e \in {"cli", "app"} : runFile[e] # "none" => runFile[e] \in Pids /\ proc[runFile[e]].at # "none"
    BY DEF ServiceInv, ServiceTyped, NamedHasServed, Has
  <2> QED
    BY <1>3, <1>4, <2>1 DEF ServiceInv, NamedHasServed, Has
<1>8. StopsTheClosing'
  <2>1. \A t \in Terminals : cli'[t].pid # "none" =>
            /\ cli[t].pid = cli'[t].pid /\ cli[t].pid \in Pids
            /\ proc'[cli[t].pid] = proc[cli[t].pid]
    BY <1>3 DEF WaitsNoMore, ServiceInv, ServiceTyped, StopsTheClosing
  <2> QED
    BY <1>3, <2>1 DEF ServiceInv, StopsTheClosing
<1>9. NamedOrBeside'
  <2> SUFFICES ASSUME NEW q \in Pids, proc'[q].at = "serving"
               PROVE  runFile'[proc'[q].dir] = q \/ proc'[q].beside
    BY DEF NamedOrBeside
  <2>1. proc'[q] = proc[q] /\ proc[q].dir \in {"cli", "app"}
    BY <1>3 DEF ServiceInv, ServiceTyped, ProcessTyped
  <2>2. runFile[proc[q].dir] = q \/ proc[q].beside
    BY <2>1 DEF ServiceInv, NamedOrBeside
  <2> QED
    BY <1>4, <2>1, <2>2
<1> QED
  BY <1>5, <1>6, <1>7, <1>8, <1>9 DEF ServiceInv

\* launchd unloads the agent, which tells its process to end.
LEMMA UnloadKeeps ==
    ASSUME ServiceInv, NEW next, Service!Unload(next)
    PROVE  ServiceInv'
<1>1. /\ agent' = [agent EXCEPT !.loaded = FALSE] /\ UNCHANGED <<runFile, cli>>
      /\ proc' = IF Service!Alive(agent.pid) THEN Service!Terminated(proc, agent.pid) ELSE proc
  BY DEF Service!Unload
<1>2. AgentStands
  BY <1>1 DEF ServiceInv, ServiceTyped, AgentStands
<1>3. ProcessesGoDown
  <2>1. CASE Service!Alive(agent.pid)
    <3>1. agent.pid \in Pids
      BY <2>1 DEF Service!Alive, Service!None, ServiceInv, ServiceTyped
    <3> QED
      BY <1>1, <2>1, <3>1, Kills
  <2>2. CASE ~Service!Alive(agent.pid)
    BY <1>1, <2>2, StandStill
  <2> QED
    BY <2>1, <2>2
<1> QED
  BY <1>1, <1>2, <1>3, StandStill, WaitsNoMoreWaits, FewerServe

\* Who only reads the run file, or clears that of a dead process.
LEMMA ReadingKeeps ==
    ASSUME ServiceInv, WaitsNoMore, AgentStands, UNCHANGED proc,
           \/ UNCHANGED runFile
           \/ runFile' = [runFile EXCEPT !["cli"] = "none"] /\ ~Service!Alive(runFile["cli"])
    PROVE  ServiceInv'
<1>1. ClearsNobody
  <2>1. CASE UNCHANGED runFile
    BY <2>1, StandStill
  <2>2. CASE runFile' = [runFile EXCEPT !["cli"] = "none"] /\ ~Service!Alive(runFile["cli"])
    BY <2>2, DeadIsCleared, Clears
  <2> QED
    BY <2>1, <2>2
<1> QED
  BY <1>1, StandStill, WaitsNoMoreWaits, FewerServe

\* A command that has done its step waits for nobody.
LEMMA DoneWaits ==
    ASSUME ServiceInv, NEW t \in Terminals, Service!Done(t)
    PROVE  WaitsNoMore
<1>1. cli' = [cli EXCEPT ![t] = [todo |-> Tail(cli[t].todo), pid |-> "none"]]
  BY DEF Service!Done, Service!None
<1> QED
  BY <1>1 DEF ServiceInv, ServiceTyped, WaitsNoMore

\* The commands of the command line.
LEMMA CommandsKeep ==
    ASSUME ServiceInv, NEW t \in Terminals
    PROVE  /\ Service!Command(t) => ServiceInv'
           /\ Service!StartCommand(t) => ServiceInv'
           /\ Service!ServeCommand(t) => ServiceInv'
           /\ Service!StatusCommand(t) => ServiceInv'
           /\ Service!StopCommand(t) => ServiceInv'
           /\ Service!InstallCommand(t) => ServiceInv'
           /\ Service!UninstallCommand(t) => ServiceInv'
<1>1. ASSUME Service!Command(t) PROVE ServiceInv'
  <2>1. PICK todo : Service!Begin(t, todo)
    BY <1>1 DEF Service!Command
  <2>2. /\ cli' = [cli EXCEPT ![t].todo = todo]
        /\ UNCHANGED <<proc, runFile, agent>>
    BY <2>1 DEF Service!Begin
  <2>3. WaitsNoMore
    BY <2>2 DEF ServiceInv, ServiceTyped, WaitsNoMore
  <2> QED
    BY <2>2, <2>3, StandStill, ReadingKeeps
<1>2. ASSUME Service!StartCommand(t) PROVE ServiceInv'
  <2>1. WaitsNoMore /\ AgentStands
    BY <1>2, DoneWaits, StandStill DEF Service!StartCommand
  <2>2. CASE UNCHANGED <<proc, runFile>>
    BY <2>1, <2>2, ReadingKeeps
  <2>3. CASE /\ ~Service!Alive(runFile["cli"])
             /\ runFile' = [runFile EXCEPT !["cli"] = "none"]
             /\ \E p \in Pids, port \in Ports : Service!Spawn(p, "cli", port, FALSE)
    <3>1. PICK p \in Pids, port \in Ports : Service!Spawn(p, "cli", port, FALSE)
      BY <2>3
    <3> QED
      BY <2>1, <2>3, <3>1, SpawnKeeps
  <2> QED
    BY <1>2, <2>2, <2>3 DEF Service!StartCommand, Service!None
<1>3. ASSUME Service!ServeCommand(t) PROVE ServiceInv'
  <2>1. WaitsNoMore /\ AgentStands /\ UNCHANGED runFile
    BY <1>3, DoneWaits, StandStill DEF Service!ServeCommand
  <2>2. PICK p \in Pids, port \in Ports : Service!Spawn(p, "cli", port, FALSE)
    BY <1>3 DEF Service!ServeCommand
  <2> QED
    BY <2>1, <2>2, SpawnKeeps
<1>4. ASSUME Service!StatusCommand(t) PROVE ServiceInv'
  BY <1>4, DoneWaits, StandStill, ReadingKeeps DEF Service!StatusCommand, Service!None
<1>5. ASSUME Service!StopCommand(t) PROVE ServiceInv'
  <2>1. AgentStands
    BY <1>5, StandStill DEF Service!StopCommand
  <2>2. CASE /\ Service!Alive(runFile["cli"])
             /\ proc' = Service!Terminated(proc, runFile["cli"])
             /\ Service!WaitFor(t, runFile["cli"])
             /\ UNCHANGED runFile
    <3> DEFINE p == runFile["cli"]
    <3>1. p # "none" /\ proc[p].at \in {"booting", "serving", "closing"}
      BY <2>2 DEF Service!Alive, Service!None
    <3>2. p \in Pids
      BY <3>1 DEF ServiceInv, ServiceTyped
    <3>3. Has(p, "cli")
      BY <3>1 DEF ServiceInv, NamedHasServed
    <3>4. cli' = [cli EXCEPT ![t].pid = p]
      BY <2>2 DEF Service!WaitFor
    <3>5. /\ cli' = [s \in Terminals |-> [todo |-> cli'[s].todo, pid |-> cli'[s].pid]]
          /\ \A s \in Terminals : cli'[s].pid \in {cli[s].pid, p}
      <4>1. cli = [s \in Terminals |-> [todo |-> cli[s].todo, pid |-> cli[s].pid]]
        BY DEF ServiceInv, ServiceTyped
      <4> QED
        BY <3>4, <4>1
    <3>6. ProcessesGoDown /\ proc'[p].at # "serving" /\ ClearsNobody
      BY <2>2, <3>2, Kills, StandStill
    <3> HIDE DEF p
    <3>7. WaitsForTheEnding
      BY <3>2, <3>3, <3>5, <3>6 DEF WaitsForTheEnding
    <3> QED
      BY <2>1, <3>6, <3>7, FewerServe
  <2>3. CASE /\ ~Service!Alive(runFile["cli"])
             /\ runFile' = [runFile EXCEPT !["cli"] = "none"]
             /\ Service!Done(t)
             /\ UNCHANGED proc
    BY <2>1, <2>3, DoneWaits, ReadingKeeps
  <2> QED
    BY <1>5, <2>2, <2>3 DEF Service!StopCommand, Service!None
<1>6. ASSUME Service!InstallCommand(t) PROVE ServiceInv'
  <2>1. CASE Service!Unload(app)
    BY <2>1, UnloadKeeps
  <2>2. ASSUME NEW port,
               agent' = [loaded |-> TRUE, dir |-> "cli", port |-> port, pid |-> "none"],
               Service!Done(t), UNCHANGED <<proc, runFile>>
        PROVE  ServiceInv'
    <3>1. AgentStands
      BY <2>2 DEF AgentStands
    <3> QED
      BY <2>2, <3>1, DoneWaits, ReadingKeeps
  <2> QED
    BY <1>6, <2>1, <2>2 DEF Service!InstallCommand, Service!None
<1>7. ASSUME Service!UninstallCommand(t) PROVE ServiceInv'
  <2>1. CASE Service!Unload(app)
    BY <2>1, UnloadKeeps
  <2>2. CASE /\ runFile' = IF Service!Alive(runFile["cli"]) THEN runFile
                           ELSE [runFile EXCEPT !["cli"] = "none"]
             /\ Service!Done(t)
             /\ UNCHANGED <<proc, agent, app, recovery, commands>>
    BY <2>2, DoneWaits, StandStill, ReadingKeeps
  <2> QED
    BY <1>7, <2>1, <2>2 DEF Service!UninstallCommand, Service!None
<1> QED
  BY <1>1, <1>2, <1>3, <1>4, <1>5, <1>6, <1>7

\* The Mac app installs its own core: it kills those of its directory before.
LEMMA AppInstallsKeeps == ASSUME ServiceInv, Service!AppInstalls PROVE ServiceInv'
<1> DEFINE rest == [p \in Pids |-> IF proc[p].dir = "app" /\ Service!Alive(p)
                                   THEN Service!Gone ELSE proc[p]]
           port == IF Service!Available(rest) = {} THEN Service!PreferredPort
                   ELSE Service!Min(Service!Available(rest))
<1>1. /\ proc' = rest /\ UNCHANGED <<runFile, cli>>
      /\ \/ agent' = [loaded |-> TRUE, dir |-> "app", port |-> port, pid |-> "none"]
         \/ UNCHANGED agent
  BY DEF Service!AppInstalls, Service!None
<1> HIDE DEF port
<1>2. AgentStands
  BY <1>1, StandStill DEF AgentStands
<1>3. ProcessesGoDown
  BY <1>1 DEF ProcessesGoDown, GoesDown
<1> HIDE DEF rest
<1> QED
  BY <1>1, <1>2, <1>3, StandStill, WaitsNoMoreWaits, FewerServe

\* Every step of commands, launchd and the app.
LEMMA ServiceNext == ASSUME ServiceInv, [Service!Next]_ServiceVars PROVE ServiceInv'
<1>1. ASSUME UNCHANGED <<proc, runFile, agent, cli>> PROVE ServiceInv'
  BY <1>1, StandStill, ReadingKeeps
<1>2. ASSUME NEW p \in Pids, Service!KeepAlive(p) PROVE ServiceInv'
  <2>1. /\ Service!Spawn(p, agent.dir, agent.port, TRUE)
        /\ agent' = [agent EXCEPT !.pid = p]
        /\ UNCHANGED <<runFile, cli>>
    BY <1>2 DEF Service!KeepAlive
  <2>2. agent.dir \in {"cli", "app"} /\ AgentStands
    BY <2>1 DEF ServiceInv, ServiceTyped, AgentStands
  <2>3. WaitsNoMore
    BY <2>1, StandStill
  <2> QED
    BY <2>1, <2>2, <2>3, SpawnKeeps
<1>3. CASE UNCHANGED ServiceVars
  BY <1>1, <1>3 DEF ServiceVars
<1>4. CASE \E p \in Pids : Service!Listen(p) \/ Service!ShutDown(p) \/ Service!Crash(p) \/ Service!KeepAlive(p)
  BY <1>2, <1>4, ListenKeeps, EndsKeep
<1>5. CASE \E t \in Terminals :
           \/ Service!Command(t) \/ Service!StartCommand(t) \/ Service!ServeCommand(t)
           \/ Service!StatusCommand(t) \/ Service!StopCommand(t) \/ Service!Stopping(t)
           \/ Service!InstallCommand(t) \/ Service!UninstallCommand(t)
  BY <1>5, CommandsKeep, EndsKeep
<1>6. CASE Service!UnloadKills
  BY <1>6, EndsKeep
<1>7. CASE Service!Bootstrap \/ Service!RestartCore \/ Service!AppHealthy \/ Service!AppGivesUp
  BY <1>1, <1>7 DEF Service!Bootstrap, Service!RestartCore, Service!AppHealthy, Service!AppGivesUp
<1>8. CASE Service!AppUnloads
  BY <1>1, <1>8, UnloadKeeps DEF Service!AppUnloads
<1>9. CASE Service!AppInstalls
  BY <1>9, AppInstallsKeeps
<1> QED
  BY <1>3, <1>4, <1>5, <1>6, <1>7, <1>8, <1>9 DEF Service!Next

\* At first nothing runs.
LEMMA ServiceInit == Service!Init => ServiceInv
<1> SUFFICES ASSUME Service!Init PROVE ServiceInv
  OBVIOUS
<1>1. /\ proc = [p \in Pids |-> [at |-> "none", dir |-> "cli", port |-> 0, launchd |-> FALSE, beside |-> FALSE]]
      /\ runFile = [d \in {"cli", "app"} |-> "none"]
      /\ agent = [loaded |-> FALSE, dir |-> "cli", port |-> 0, pid |-> "none"]
      /\ cli = [t \in Terminals |-> [todo |-> <<>>, pid |-> "none"]]
  BY DEF Service!Init, Service!NotYet, Service!None, Service!Dirs
<1>2. \A p \in Pids : proc[p].at = "none" /\ ProcessTyped(proc[p])
  BY <1>1 DEF ProcessTyped
<1>3. ServiceTyped
  BY <1>1, <1>2 DEF ServiceTyped
<1> QED
  BY <1>1, <1>2, <1>3 DEF ServiceInv, TogetherIsBeside, Has, NamedHasServed, StopsTheClosing, NamedOrBeside

LEMMA ServiceRests == [EdgesNext]_<<focus, vars, edges>> => [Service!Next]_ServiceVars
BY DEF EdgesNext, OthersRest, edges, ServiceVars

\* A gateway that serves a data directory is named by its run file, so that stop, status
\* and the app find it, whatever starts, crashes, kills, restarts by launchd and commands
\* in any number of terminals there were, on whatever ports; except those that had the
\* directory while another came up.
THEOREM RunFilesNameTheCore == EdgesSpec => []RunFileNamesTheCore
<1>1. EdgesInit => ServiceInv
  BY ServiceInit DEF EdgesInit
<1>2. ServiceInv /\ [EdgesNext]_<<focus, vars, edges>> => ServiceInv'
  BY ServiceNext, ServiceRests
<1>3. ServiceInv => RunFileNamesTheCore
  BY ServiceNames DEF RunFileNamesTheCore
<1> QED
  BY <1>1, <1>2, <1>3, PTL DEF EdgesSpec

-----------------------------------------------------------------------------
(* Gateway.                                                                *)

LEMMA RequestsRest == [EdgesNext]_<<focus, vars, edges>> => [Requests!Next]_RequestsVars
BY DEF EdgesNext, OthersRest, edges, RequestsVars

\* The requests of the session look at its status, and a title at the title, when they are
\* at work, not when they arrive.
LEMMA RequestsCheck == Requests!Next => Requests!IsChecked
<1>1. ASSUME NEW r \in {"r1"}, NEW d \in {"d1", "d2"}, NEW x, NEW b, Requests!Arrive(r, d, x, b)
      PROVE  Requests!IsChecked
  BY <1>1 DEF Requests!Arrive, Requests!IsChecked
<1>2. ASSUME NEW r, Requests!AppendMessage(r) \/ Requests!CreateMessageVariant(r)
      PROVE  Requests!IsChecked
  BY <1>2 DEF Requests!AppendMessage, Requests!CreateMessageVariant, Requests!IsChecked
<1>3. ASSUME NEW r, \/ Requests!UploadSessionFiles(r) \/ Requests!RenameSession(r)
                    \/ Requests!CreateTrigger(r) \/ Requests!Refused(r)
      PROVE  Requests!IsChecked
  BY <1>3 DEF Requests!UploadSessionFiles, Requests!RenameSession, Requests!CreateTrigger,
     Requests!Refused, Requests!IsChecked
<1>4. CASE Requests!TurnEnds \/ Requests!Wakes \/ Requests!DeleteSession
  BY <1>4 DEF Requests!TurnEnds, Requests!Wakes, Requests!DeleteSession, Requests!IsChecked
<1>5. CASE Requests!TitleArrives
  <2>1. title' = title \/ (title = "draft" /\ title' = "found")
    BY <1>5 DEF Requests!TitleArrives
  <2> QED
    BY <1>5, <2>1 DEF Requests!TitleArrives, Requests!IsChecked
<1> QED
  BY <1>1, <1>2, <1>3, <1>4, <1>5 DEF Requests!Next

\* In every step of the composition, whatever requests wait for their body and whatever
\* became of the session meanwhile: an archived session never runs again and gets no
\* file, message or branch, a running one no second message or branch, and no title that
\* was given or found is replaced by one asked for earlier (handleRoute).
THEOREM RequestsAreCheckedLate == EdgesSpec => LateRequestsAreChecked
<1>1. [EdgesNext]_<<focus, vars, edges>> => [Requests!IsChecked]_(Requests!gatewayVars)
  BY RequestsRest, RequestsCheck DEF RequestsVars, Requests!gatewayVars
<1> QED
  BY <1>1, PTL DEF EdgesSpec, LateRequestsAreChecked, Requests!LateRequestsAreChecked

-----------------------------------------------------------------------------
(* WorkReview.                                                             *)

FactRecords ==
    [kind : {"todo"}, branch : Work!Branches, items : SUBSET Work!TodoItems]
        \cup [kind : {"receipt"}, branch : Work!Branches, step : {x.text : x \in Steps},
              todoId : {x.id : x \in Steps},
              rests : {"check", "review", "files", "diff", "diagnostics", "manual"}, on : Nat]
        \cup [kind : {"diff"}, branch : Work!Branches, file : Files]
        \cup [kind : {"read"}, branch : Work!Branches]
        \cup [kind : {"check"}, branch : Work!Branches,
              status : {"running", "passed", "failed"}]
        \cup [kind : {"diagnostics"}, branch : Work!Branches, status : {"clean", "errors"}]
        \cup [kind : {"task"}, branch : Work!Branches, task : Tasks,
              status : {"running", "completed"}]
        \cup [kind : {"review"}, branch : Work!Branches, ready : BOOLEAN]

ReviewTyped ==
    /\ facts \in Seq(FactRecords) /\ Len(facts) <= MaxFacts
    /\ fork \in 0..Work!NoFork /\ active \in Work!Branches

\* What was written before a fact on its branch.
BeforeAt(q, kind) ==
    {s \in 1..(q - 1) : facts[s].kind = kind /\ facts[s].branch = facts[q].branch}
OpenAt(item, q) ==
    Work!Latest({s \in BeforeAt(q, "todo") : ~Work!WasCompleted(item, s)})
ProvedBy(r, item, q) ==
    \/ item.id # Work!NoId /\ facts[r].todoId = item.id
    \/ facts[r].step = item.text
    \/ \E s \in BeforeAt(q, "todo") : s > OpenAt(item, q) /\
           \E o \in facts[s].items : o.id = item.id /\ facts[r].step = o.text
CompletedAt(q) ==
    facts[q].kind = "todo" =>
        \A item \in facts[q].items : item.done =>
            \E r \in BeforeAt(q, "receipt") : r > OpenAt(item, q) /\ ProvedBy(r, item, q)
RestsAt(r) ==
    facts[r].kind = "receipt" /\ facts[r].rests # "manual" =>
        /\ facts[r].on \in 1..(r - 1)
        /\ facts[facts[r].on].branch = facts[r].branch
        /\ facts[r].rests \in {"check", "review"} =>
               \/ facts[facts[r].on].kind = "review" /\ facts[facts[r].on].ready
               \/ facts[facts[r].on].kind # "review" /\ facts[facts[r].on].status = "passed"
        /\ facts[r].rests = "files" => facts[facts[r].on].kind \in {"diff", "read"}

ReviewInv ==
    ReviewTyped /\ \A q \in 1..Len(facts) : CompletedAt(q) /\ RestsAt(q)

LEMMA LatestIs ==
    ASSUME NEW n \in Nat, NEW seqs \in SUBSET (1..n)
    PROVE  /\ Work!Latest(seqs) \in 0..n
           /\ Work!Latest(seqs) \in seqs \/ (Work!Latest(seqs) = 0 /\ seqs = {})
           /\ \A k \in seqs : k <= Work!Latest(seqs)
<1>1. CASE seqs = {}
  <2>1. Work!Latest(seqs) \in {0}
    BY <1>1 DEF Work!Latest
  <2> QED
    BY <1>1, <2>1
<1>2. CASE seqs # {}
  <2> DEFINE T == {n - k : k \in seqs}
  <2>1. T \in SUBSET Nat /\ T # {}
    <3>1. \A k \in seqs : k \in 1..n /\ n - k \in Nat /\ n - k \in T
      OBVIOUS
    <3> QED
      BY <1>2, <3>1
  <2>2. PICK d \in T : \A k \in T : d <= k
    <3> HIDE DEF T
    <3> QED
      BY <2>1, Smallest
  <2>3. PICK m \in seqs : d = n - m
    BY <2>2
  <2>4. ASSUME NEW k \in seqs PROVE k <= m
    <3>1. n - k \in T /\ k \in 1..n /\ m \in 1..n
      OBVIOUS
    <3>2. n - m <= n - k
      BY <2>2, <2>3, <3>1
    <3> HIDE DEF T
    <3> QED
      BY <3>1, <3>2
  <2>5. /\ Work!Latest(seqs) \in seqs \cup {0}
        /\ \A k \in seqs : k <= Work!Latest(seqs)
    <3>1. \E x \in seqs \cup {0} : \A k \in seqs : k <= x
      BY <2>4
    <3> QED
      BY <3>1, Zenon DEF Work!Latest
  <2>6. Work!Latest(seqs) # 0
    <3>1. m \in 1..n /\ m <= Work!Latest(seqs)
      BY <2>5
    <3> QED
      BY <3>1
  <2>7. Work!Latest(seqs) \in seqs
    BY <2>5, <2>6
  <2>8. Work!Latest(seqs) \in 0..n
    <3>1. \A k \in seqs : k \in 0..n
      OBVIOUS
    <3> HIDE DEF T
    <3> QED
      BY <2>7, <3>1
  <2> QED
    BY <2>5, <2>7, <2>8
<1> QED
  BY <1>1, <1>2

\* A fact counts on the branch that made it, wherever the branches part.
LEMMA ScopedIs ==
    ASSUME ReviewTyped, NEW b
    PROVE  Work!Scoped(b) = {q \in 1..Len(facts) : facts[q].branch = b}
<1>1. DOMAIN facts = 1..Len(facts)
  BY DEF ReviewTyped
<1> QED
  BY <1>1 DEF Work!Scoped, Work!VisibleThread, Work!BranchMatches

LEMMA FactIs ==
    ASSUME ReviewTyped, NEW q \in 1..Len(facts)
    PROVE  /\ facts[q] \in FactRecords
           /\ facts[q].kind \in Work!Kinds /\ facts[q].branch \in Work!Branches
           /\ facts[q].kind = "check" => facts[q].status \in {"running", "passed", "failed"}
<1>1. facts[q] \in FactRecords
  BY DEF ReviewTyped
<1> HIDE DEF ReviewTyped
<1> QED
  BY <1>1 DEF FactRecords, Work!Kinds

\* The thread with a fact more.
Adds(fact) ==
    /\ ReviewTyped' /\ Len(facts') = Len(facts) + 1 /\ facts'[Len(facts) + 1] = fact
    /\ \A i \in 1..Len(facts) : facts'[i] = facts[i]

LEMMA FactIsAdded ==
    ASSUME ReviewTyped, NEW fact \in FactRecords, Work!Append1(fact)
    PROVE  Adds(fact)
<1>1. /\ facts' = Append(facts, fact) /\ Len(facts) < MaxFacts
      /\ fork' = fork /\ active' = active
  BY DEF Work!Append1
<1>2. facts \in Seq(FactRecords) /\ MaxFacts \in Nat
  BY EdgesAssumptions DEF ReviewTyped, EdgesAssumptions
<1> HIDE DEF FactRecords
<1>3. /\ facts' \in Seq(FactRecords) /\ Len(facts') = Len(facts) + 1
      /\ facts'[Len(facts) + 1] = fact
      /\ \A i \in 1..Len(facts) : facts'[i] = facts[i]
  BY <1>1, <1>2
<1>4. Len(facts') <= MaxFacts
  BY <1>1, <1>2, <1>3
<1>5. Work!NoFork' = Work!NoFork
  BY DEF Work!NoFork
<1> QED
  BY <1>1, <1>3, <1>4, <1>5 DEF ReviewTyped, Adds

\* What was written stays what it was.
LEMMA OldFactsHold ==
    ASSUME ReviewTyped, NEW fact, Adds(fact), NEW q \in 1..Len(facts),
           CompletedAt(q), RestsAt(q)
    PROVE  CompletedAt(q)' /\ RestsAt(q)'
<1>0. Len(facts) \in Nat
  BY DEF ReviewTyped
<1>1. \A i \in 1..q : facts'[i] = facts[i]
  BY <1>0 DEF Adds
<1>2. facts'[q] = facts[q]
  BY <1>1
<1>3. ASSUME NEW kind PROVE BeforeAt(q, kind)' = BeforeAt(q, kind)
  BY <1>1, <1>2 DEF BeforeAt
<1>4. ASSUME NEW item PROVE OpenAt(item, q)' = OpenAt(item, q)
  <2>1. \A s \in BeforeAt(q, "todo") :
            Work!WasCompleted(item, s)' <=> Work!WasCompleted(item, s)
    BY <1>1 DEF BeforeAt, Work!WasCompleted, Work!ItemsOf
  <2>2. {s \in BeforeAt(q, "todo")' : ~Work!WasCompleted(item, s)'}
        = {s \in BeforeAt(q, "todo") : ~Work!WasCompleted(item, s)}
    BY <1>3, <2>1
  <2> QED
    BY <2>2 DEF OpenAt
<1>5. ASSUME NEW item, NEW r \in BeforeAt(q, "receipt"), ProvedBy(r, item, q)
      PROVE  ProvedBy(r, item, q)'
  <2>1. \A s \in BeforeAt(q, "todo") : facts'[s] = facts[s]
    BY <1>1 DEF BeforeAt
  <2>2. facts'[r] = facts[r]
    BY <1>1 DEF BeforeAt
  <2> QED
    BY <1>3, <1>4, <1>5, <2>1, <2>2 DEF ProvedBy, Work!NoId
<1>6. CompletedAt(q)'
  BY <1>2, <1>3, <1>4, <1>5 DEF CompletedAt
<1>7. RestsAt(q)'
  BY <1>1, <1>2 DEF RestsAt
<1> QED
  BY <1>6, <1>7

\* A new fact that holds what it is to hold.
LEMMA AddingKeeps ==
    ASSUME ReviewInv, NEW fact, Adds(fact), NEW n \in Nat, n = Len(facts),
           CompletedAt(n + 1)', RestsAt(n + 1)'
    PROVE  ReviewInv'
<1>1. ReviewTyped /\ ReviewTyped' /\ Len(facts') = n + 1
  BY DEF ReviewInv, Adds
<1>2. ASSUME NEW q \in 1..(n + 1) PROVE CompletedAt(q)' /\ RestsAt(q)'
  <2>1. CASE q = n + 1
    BY <2>1
  <2>2. CASE q # n + 1
    <3>1. q \in 1..Len(facts)
      BY <1>1, <2>2
    <3> QED
      BY <1>1, <3>1, OldFactsHold DEF ReviewInv
  <2> QED
    BY <2>1, <2>2
<1> QED
  BY <1>1, <1>2 DEF ReviewInv

\* todo_write: what was done in the last list has been proven since it was last open, or
\* has a receipt since that list.
LEMMA TodoIsProved ==
    ASSUME ReviewInv, NEW items \in SUBSET Work!TodoItems, Work!TodoWrite(items)
    PROVE  ReviewInv'
<1> DEFINE fact == [kind |-> "todo", branch |-> active, items |-> items]
           todoLists == Work!Of(Work!Scoped(active), "todo")
           last == Work!Latest(todoLists)
<1>0. PICK n \in Nat : n = Len(facts)
  BY DEF ReviewInv, ReviewTyped
<1>1. ReviewTyped /\ n \in Nat /\ active \in Work!Branches
  BY DEF ReviewInv, ReviewTyped
<1>2. Adds(fact)
  <2>1. fact \in FactRecords
    BY <1>1 DEF FactRecords
  <2> HIDE DEF fact
  <2> QED
    BY <1>1, <2>1, FactIsAdded DEF Work!TodoWrite, fact
<1>3. /\ facts'[n + 1].kind = "todo" /\ facts'[n + 1].branch = active
      /\ facts'[n + 1].items = items /\ \A i \in 1..n : facts'[i] = facts[i]
  BY <1>0, <1>2 DEF Adds
<1>4. ASSUME NEW kind
      PROVE  /\ Work!Of(Work!Scoped(active), kind)
                = {s \in 1..n : facts[s].kind = kind /\ facts[s].branch = active}
             /\ BeforeAt(n + 1, kind)' = Work!Of(Work!Scoped(active), kind)
  <2>1. Work!Of(Work!Scoped(active), kind)
        = {s \in 1..n : facts[s].kind = kind /\ facts[s].branch = active}
    BY <1>0, <1>1, ScopedIs DEF Work!Of
  <2>2. BeforeAt(n + 1, kind)' = {s \in 1..n : facts[s].kind = kind /\ facts[s].branch = active}
    <3>1. (n + 1) - 1 = n
      BY <1>1
    <3>2. BeforeAt(n + 1, kind)'
          = {s \in 1..((n + 1) - 1) : facts'[s].kind = kind /\ facts'[s].branch = facts'[n + 1].branch}
      BY DEF BeforeAt
    <3> HIDE DEF fact
    <3> QED
      BY <1>3, <3>1, <3>2
  <2> QED
    BY <2>1, <2>2
<1>5. todoLists = {s \in 1..n : facts[s].kind = "todo" /\ facts[s].branch = active}
      /\ BeforeAt(n + 1, "todo")' = todoLists
  BY <1>4
<1>6. /\ last \in 0..n /\ (last \in todoLists \/ (last = 0 /\ todoLists = {}))
      /\ \A s \in todoLists : s <= last
  <2>1. todoLists \in SUBSET (1..n)
    BY <1>5
  <2> HIDE DEF todoLists
  <2> QED
    BY <1>1, <2>1, LatestIs
<1>7. ASSUME NEW item PROVE OpenAt(item, n + 1)' = Work!Latest({s \in todoLists : ~Work!WasCompleted(item, s)})
  <2>1. \A s \in todoLists : Work!WasCompleted(item, s)' <=> Work!WasCompleted(item, s)
    BY <1>3, <1>5 DEF Work!WasCompleted, Work!ItemsOf
  <2>2. {s \in BeforeAt(n + 1, "todo")' : ~Work!WasCompleted(item, s)'}
        = {s \in todoLists : ~Work!WasCompleted(item, s)}
    <3> HIDE DEF todoLists
    <3> QED
      BY <1>5, <2>1
  <2>3. OpenAt(item, n + 1)'
        = Work!Latest({s \in BeforeAt(n + 1, "todo")' : ~Work!WasCompleted(item, s)'})
    BY DEF OpenAt
  <2> QED
    BY <2>2, <2>3
<1> HIDE DEF fact, todoLists, last
<1>8. ASSUME NEW item \in items, item.done, Work!WasCompleted(item, last)
      PROVE  \E r \in BeforeAt(n + 1, "receipt")' :
                 r > OpenAt(item, n + 1)' /\ ProvedBy(r, item, n + 1)'
  <2>1. last \in todoLists /\ last \in 1..n
    BY <1>5, <1>6, <1>8 DEF Work!WasCompleted, Work!ItemsOf
  <2>2. PICK old \in facts[last].items : old.id = item.id /\ item.id # Work!NoId /\ old.done
    BY <1>8, <2>1 DEF Work!WasCompleted, Work!ItemsOf
  <2>3. facts[last].kind = "todo" /\ facts[last].branch = active
    BY <1>5, <2>1
  <2>4. PICK r \in BeforeAt(last, "receipt") : r > OpenAt(old, last) /\ ProvedBy(r, old, last)
    BY <1>0, <2>1, <2>2, <2>3 DEF ReviewInv, CompletedAt
  <2>5. BeforeAt(last, "todo") = todoLists \ {last}
    <3>1. \A s \in todoLists : s # last => s \in 1..(last - 1)
      BY <1>5, <1>6, <2>1
    <3>2. \A s \in 1..(last - 1) : s \in 1..n
      BY <1>1, <2>1
    <3> QED
      BY <1>5, <2>3, <3>1, <3>2 DEF BeforeAt
  <2>6. \A s : Work!WasCompleted(old, s) <=> Work!WasCompleted(item, s)
    BY <2>2 DEF Work!WasCompleted
  <2>7. OpenAt(item, n + 1)' = OpenAt(old, last)
    <3>1. {s \in todoLists : ~Work!WasCompleted(item, s)}
          = {s \in BeforeAt(last, "todo") : ~Work!WasCompleted(old, s)}
      BY <1>8, <2>5, <2>6
    <3> QED
      BY <1>7, <3>1 DEF OpenAt
  <2>8. OpenAt(old, last) < last
    <3>1. {s \in BeforeAt(last, "todo") : ~Work!WasCompleted(old, s)} \in SUBSET (1..(last - 1))
      BY DEF BeforeAt
    <3>2. last - 1 \in Nat
      BY <2>1
    <3>3. OpenAt(old, last) \in 0..(last - 1)
      BY <3>1, <3>2, LatestIs DEF OpenAt
    <3> QED
      BY <2>1, <3>3
  <2>9. r \in BeforeAt(n + 1, "receipt")' /\ r \in 1..n
    <3>1. r \in 1..(last - 1) /\ facts[r].kind = "receipt" /\ facts[r].branch = active
      BY <2>3 DEF BeforeAt
    <3>2. r \in 1..n
      BY <1>1, <2>1, <3>1
    <3> QED
      BY <1>4, <3>1, <3>2
  <2>10. ProvedBy(r, item, n + 1)'
    <3>1. facts'[r] = facts[r] /\ facts'[last] = facts[last]
      BY <1>3, <2>1, <2>9
    <3>2. CASE facts[r].todoId = old.id
      BY <2>2, <3>1, <3>2 DEF ProvedBy, Work!NoId
    <3>3. CASE facts[r].step = old.text
      <4>1. last \in BeforeAt(n + 1, "todo")' /\ last > OpenAt(item, n + 1)'
        BY <1>5, <2>1, <2>7, <2>8
      <4> QED
        BY <2>2, <3>1, <3>3, <4>1 DEF ProvedBy
    <3>4. ASSUME NEW s \in BeforeAt(last, "todo"), s > OpenAt(old, last),
                 NEW o \in facts[s].items, o.id = old.id, facts[r].step = o.text
          PROVE  ProvedBy(r, item, n + 1)'
      <4>1. s \in BeforeAt(n + 1, "todo")' /\ s > OpenAt(item, n + 1)' /\ s \in 1..n
        BY <1>5, <2>5, <2>7, <3>4
      <4>2. facts'[s] = facts[s]
        BY <1>3, <4>1
      <4> QED
        BY <2>2, <3>1, <3>4, <4>1, <4>2 DEF ProvedBy
    <3> QED
      BY <2>4, <3>2, <3>3, <3>4 DEF ProvedBy
  <2> QED
    BY <2>4, <2>7, <2>9, <2>10
<1>9. ASSUME NEW item \in items, item.done, ~Work!WasCompleted(item, last)
      PROVE  \E r \in BeforeAt(n + 1, "receipt")' :
                 r > OpenAt(item, n + 1)' /\ ProvedBy(r, item, n + 1)'
  <2>1. Work!FindTodoEvidence(item, last) # {}
    BY <1>9 DEF Work!TodoWrite, last, todoLists
  <2>2. PICK r \in Work!Of(Work!Scoped(active), "receipt") :
            r > last /\ Work!MatchesStep(facts[r], item)
    BY <2>1 DEF Work!FindTodoEvidence
  <2>3. r \in BeforeAt(n + 1, "receipt")' /\ r \in 1..n
    BY <1>4, <2>2
  <2>4. OpenAt(item, n + 1)' <= last /\ OpenAt(item, n + 1)' \in 0..n
    <3> DEFINE open == {s \in todoLists : ~Work!WasCompleted(item, s)}
    <3>1. open \in SUBSET (1..n) /\ \A s \in open : s <= last
      BY <1>5, <1>6
    <3> HIDE DEF open
    <3>2. /\ Work!Latest(open) \in 0..n
          /\ Work!Latest(open) \in open \/ Work!Latest(open) = 0
      BY <1>1, <3>1, LatestIs
    <3>3. Work!Latest(open) <= last
      BY <1>6, <3>1, <3>2
    <3> QED
      BY <1>7, <3>2, <3>3 DEF open
  <2>5. facts'[r] = facts[r]
    BY <1>3, <2>3
  <2>6. ProvedBy(r, item, n + 1)'
    BY <2>2, <2>5 DEF Work!MatchesStep, ProvedBy, Work!NoId
  <2>7. r > OpenAt(item, n + 1)'
    BY <1>1, <1>6, <2>2, <2>3, <2>4
  <2> QED
    BY <2>3, <2>6, <2>7
<1>10. CompletedAt(n + 1)'
  <2>1. facts'[n + 1].items = items
    BY <1>3
  <2> QED
    BY <1>8, <1>9, <2>1 DEF CompletedAt
<1>11. RestsAt(n + 1)'
  BY <1>3 DEF RestsAt
<1> QED
  BY <1>0, <1>2, <1>10, <1>11, AddingKeeps

\* complete_step: a receipt rests on a fact that fits.
LEMMA ReceiptRests ==
    ASSUME ReviewInv, NEW x \in Steps,
           NEW kind \in {"check", "review", "files", "diff", "diagnostics", "manual"},
           NEW q, Work!CompleteStep(x, kind, q)
    PROVE  ReviewInv'
<1> DEFINE M == Work!MatchReference(kind, q)
           on == IF kind = "manual" THEN 0 ELSE Work!Latest(M)
           fact == [kind |-> "receipt", branch |-> active, step |-> x.text, todoId |-> x.id,
                    rests |-> kind, on |-> on]
<1>0. PICK n \in Nat : n = Len(facts)
  BY DEF ReviewInv, ReviewTyped
<1>1. ReviewTyped /\ active \in Work!Branches
  BY DEF ReviewInv, ReviewTyped
<1>2. \A s \in M : s \in 1..n /\ facts[s].branch = active
  BY <1>0, <1>1, ScopedIs DEF Work!MatchReference
<1>3. /\ Work!Latest(M) \in 0..n
      /\ kind # "manual" => Work!Latest(M) \in M
  <2>1. kind # "manual" => M # {}
    BY DEF Work!CompleteStep
  <2>2. M \in SUBSET (1..n)
    BY <1>2
  <2> HIDE DEF M
  <2> QED
    BY <1>0, <2>1, <2>2, LatestIs
<1>4. Adds(fact)
  <2>1. on \in Nat
    BY <1>3
  <2>2. fact \in FactRecords
    <3> HIDE DEF on
    <3> QED
      BY <1>1, <2>1 DEF FactRecords
  <2>3. Work!Append1(fact)
    BY DEF Work!CompleteStep
  <2> HIDE DEF fact
  <2> QED
    BY <1>1, <2>2, <2>3, FactIsAdded
<1>5. /\ facts'[n + 1].kind = "receipt" /\ facts'[n + 1].branch = active
      /\ facts'[n + 1].rests = kind /\ facts'[n + 1].on = on
      /\ \A i \in 1..n : facts'[i] = facts[i]
  BY <1>0, <1>4 DEF Adds
<1>6. ASSUME kind # "manual"
      PROVE  /\ on \in 1..n /\ facts[on].branch = active
             /\ kind \in {"check", "review"} =>
                    \/ facts[on].kind = "review" /\ facts[on].ready
                    \/ facts[on].kind # "review" /\ facts[on].status = "passed"
             /\ kind = "files" => facts[on].kind \in {"diff", "read"}
  <2>1. on \in M
    BY <1>3, <1>6
  <2>2. \/ Work!MatchesReview(kind, q, on) \/ Work!MatchesFiles(kind, on)
        \/ /\ kind = facts[on].kind
           /\ kind = "check" => facts[on].status = "passed"
           /\ kind \in {"check", "diff", "diagnostics"}
    <3> HIDE DEF on
    <3> QED
      BY <2>1 DEF Work!MatchReference
  <2>3. on \in 1..n /\ facts[on].branch = active
    BY <1>2, <2>1
  <2> HIDE DEF on, M
  <2> QED
    BY <2>2, <2>3 DEF Work!MatchesReview, Work!MatchesFiles
<1> HIDE DEF on, M, fact
<1>7. RestsAt(n + 1)'
  <2>1. kind # "manual" => facts'[on] = facts[on] /\ on \in 1..((n + 1) - 1)
    BY <1>5, <1>6
  <2> QED
    BY <1>5, <1>6, <2>1 DEF RestsAt
<1>8. CompletedAt(n + 1)'
  BY <1>5 DEF CompletedAt
<1> QED
  BY <1>0, <1>4, <1>7, <1>8, AddingKeeps

\* A fact that is neither a list of todos nor a receipt.
LEMMA OtherFactKeeps ==
    ASSUME ReviewInv, NEW fact \in FactRecords, fact.kind \notin {"todo", "receipt"},
           Work!Append1(fact)
    PROVE  ReviewInv'
<1>0. PICK n \in Nat : n = Len(facts)
  BY DEF ReviewInv, ReviewTyped
<1>1. Adds(fact)
  BY FactIsAdded DEF ReviewInv
<1>2. facts'[n + 1] = fact
  BY <1>0, <1>1 DEF Adds
<1>3. CompletedAt(n + 1)' /\ RestsAt(n + 1)'
  BY <1>2 DEF CompletedAt, RestsAt
<1> QED
  BY <1>0, <1>1, <1>3, AddingKeeps

LEMMA ReviewNext == ASSUME ReviewInv, [Work!Next]_ReviewVars PROVE ReviewInv'
<1>1. ReviewTyped /\ active \in Work!Branches
  BY DEF ReviewInv, ReviewTyped
<1>2. ASSUME NEW items \in Work!TodoLists, Work!TodoWrite(items) PROVE ReviewInv'
  <2>1. items \in SUBSET Work!TodoItems
    BY DEF Work!TodoLists, Work!kSubset
  <2> QED
    BY <1>2, <2>1, TodoIsProved
<1>3. ASSUME NEW x \in Steps,
             NEW kind \in {"check", "review", "files", "diff", "diagnostics", "manual"},
             NEW q, Work!CompleteStep(x, kind, q)
      PROVE  ReviewInv'
  BY <1>3, ReceiptRests
<1>4. ASSUME NEW file \in Files, Work!RecordDiff(file) PROVE ReviewInv'
  <2> DEFINE fact == [kind |-> "diff", branch |-> active, file |-> file]
  <2>1. fact \in FactRecords /\ fact.kind = "diff"
    BY <1>1 DEF FactRecords
  <2> HIDE DEF fact
  <2> QED
    BY <1>4, <2>1, OtherFactKeeps DEF Work!RecordDiff, fact
<1>5. CASE Work!RecordRead
  <2> DEFINE fact == [kind |-> "read", branch |-> active]
  <2>1. fact \in FactRecords /\ fact.kind = "read"
    BY <1>1 DEF FactRecords
  <2> HIDE DEF fact
  <2> QED
    BY <1>5, <2>1, OtherFactKeeps DEF Work!RecordRead, fact
<1>6. ASSUME NEW st \in {"running", "passed", "failed"}, Work!RecordVerification(st)
      PROVE  ReviewInv'
  <2> DEFINE fact == [kind |-> "check", branch |-> active, status |-> st]
  <2>1. fact \in FactRecords /\ fact.kind = "check"
    BY <1>1 DEF FactRecords
  <2> HIDE DEF fact
  <2> QED
    BY <1>6, <2>1, OtherFactKeeps DEF Work!RecordVerification, fact
<1>7. ASSUME NEW st \in {"clean", "errors"}, Work!RecordDiagnostics(st) PROVE ReviewInv'
  <2> DEFINE fact == [kind |-> "diagnostics", branch |-> active, status |-> st]
  <2>1. fact \in FactRecords /\ fact.kind = "diagnostics"
    BY <1>1 DEF FactRecords
  <2> HIDE DEF fact
  <2> QED
    BY <1>7, <2>1, OtherFactKeeps DEF Work!RecordDiagnostics, fact
<1>8. ASSUME NEW task \in Tasks, NEW b \in Work!Branches, NEW st \in {"running", "completed"},
             Work!Append1([kind |-> "task", branch |-> b, task |-> task, status |-> st])
      PROVE  ReviewInv'
  <2> DEFINE fact == [kind |-> "task", branch |-> b, task |-> task, status |-> st]
  <2>1. fact \in FactRecords /\ fact.kind = "task"
    BY DEF FactRecords
  <2> HIDE DEF fact
  <2> QED
    BY <1>8, <2>1, OtherFactKeeps DEF fact
<1>9. ASSUME NEW task \in Tasks, Work!TaskStarts(task) PROVE ReviewInv'
  BY <1>1, <1>8, <1>9 DEF Work!TaskStarts
<1>10. ASSUME NEW task \in Tasks, Work!TaskEnds(task) PROVE ReviewInv'
  <2> DEFINE E == Work!TaskEvents(task)
             b == facts[Work!Latest(E)].branch
  <2>1. Work!Cardinality(E) = 1 /\ DOMAIN facts = 1..Len(facts) /\ Len(facts) \in Nat
    BY <1>1, <1>10 DEF Work!TaskEnds, ReviewTyped
  <2>2. E \in SUBSET (1..Len(facts))
    BY <2>1 DEF Work!TaskEvents
  <2>3. E # {}
    <3>1. Work!Cardinality({}) = 0
      <4>1. Work!Cardinality({}) = Cardinality({})
        BY Zenon DEF Work!Cardinality, Cardinality
      <4>2. Cardinality({}) = 0
        BY FS_EmptySet
      <4> QED
        BY <4>1, <4>2
    <3>2. Work!Cardinality(E) # Work!Cardinality({})
      BY <2>1, <3>1
    <3> HIDE DEF E
    <3> QED
      BY <3>2, Zenon
  <2>4. b \in Work!Branches
    <3>1. Work!Latest(E) \in E
      <4> HIDE DEF E
      <4> QED
        BY <2>1, <2>2, <2>3, LatestIs
    <3>2. Work!Latest(E) \in 1..Len(facts)
      BY <2>2, <3>1
    <3> QED
      BY <1>1, <3>2, FactIs
  <2>5. Work!Append1([kind |-> "task", task |-> task, status |-> "completed", branch |-> b])
    BY <1>10 DEF Work!TaskEnds
  <2> HIDE DEF b
  <2>6. [kind |-> "task", task |-> task, status |-> "completed", branch |-> b]
        = [kind |-> "task", branch |-> b, task |-> task, status |-> "completed"]
    OBVIOUS
  <2> QED
    BY <1>8, <2>4, <2>5, <2>6
<1>11. ASSUME NEW blocked \in BOOLEAN, Work!WorkspaceReview(blocked) \/ Work!FinalGate(blocked)
      PROVE  ReviewInv'
  <2> DEFINE fact(b) == [kind |-> "review", branch |-> active, ready |-> b]
  <2>1. PICK b \in BOOLEAN : Work!Append1(fact(b))
    <3>1. Work!Ready(active) \in BOOLEAN
      BY DEF Work!Ready
    <3> QED
      BY <1>11, <3>1 DEF Work!WorkspaceReview, Work!FinalGate
  <2>2. fact(b) \in FactRecords /\ fact(b).kind = "review"
    BY <1>1 DEF FactRecords
  <2> HIDE DEF fact
  <2> QED
    BY <2>1, <2>2, OtherFactKeeps
<1>12. CASE Work!EditMessage \/ Work!SelectBranch \/ UNCHANGED ReviewVars
  <2>1. facts' = facts /\ fork' \in 0..Work!NoFork /\ active' \in Work!Branches
    BY <1>1, <1>12, EdgesAssumptions DEF EdgesAssumptions, ReviewVars, Work!EditMessage,
       Work!SelectBranch, ReviewTyped, Work!NoFork, Work!Branches
  <2>2. ReviewTyped'
    BY <1>1, <2>1 DEF ReviewTyped, Work!NoFork, Work!Branches
  <2>3. ASSUME NEW q \in 1..Len(facts) PROVE CompletedAt(q)' /\ RestsAt(q)'
    <3>1. ASSUME NEW kind PROVE BeforeAt(q, kind)' = BeforeAt(q, kind)
      BY <2>1 DEF BeforeAt
    <3>2. ASSUME NEW item, NEW s
          PROVE  Work!WasCompleted(item, s)' <=> Work!WasCompleted(item, s)
      <4>1. Work!ItemsOf(s)' = Work!ItemsOf(s)
        BY <2>1 DEF Work!ItemsOf
      <4> QED
        BY <4>1 DEF Work!WasCompleted, Work!NoId
    <3>3. ASSUME NEW item PROVE OpenAt(item, q)' = OpenAt(item, q)
      <4>1. {s \in BeforeAt(q, "todo")' : ~Work!WasCompleted(item, s)'}
            = {s \in BeforeAt(q, "todo") : ~Work!WasCompleted(item, s)}
        BY <3>1, <3>2
      <4> QED
        BY <4>1 DEF OpenAt
    <3>4. ASSUME NEW item, NEW r PROVE ProvedBy(r, item, q)' <=> ProvedBy(r, item, q)
      BY <2>1, <3>1, <3>3 DEF ProvedBy, Work!NoId
    <3> QED
      BY <2>1, <3>1, <3>3, <3>4 DEF ReviewInv, CompletedAt, RestsAt
  <2> QED
    BY <2>1, <2>2, <2>3 DEF ReviewInv
<1> QED
  BY <1>2, <1>3, <1>4, <1>5, <1>6, <1>7, <1>9, <1>10, <1>11, <1>12 DEF Work!Next

LEMMA ReviewInit == Work!Init => ReviewInv
<1> SUFFICES ASSUME Work!Init PROVE ReviewInv
  OBVIOUS
<1>1. facts = <<>> /\ fork = Work!NoFork /\ active = "main"
  BY DEF Work!Init
<1>2. Work!NoFork \in Nat
  BY EdgesAssumptions DEF EdgesAssumptions, Work!NoFork
<1> QED
  BY <1>1, <1>2, EdgesAssumptions DEF EdgesAssumptions, ReviewInv, ReviewTyped, Work!Branches

LEMMA CompletedHolds == ReviewInv => Work!CompletedIsProven
<1> SUFFICES ASSUME ReviewInv, NEW q \in DOMAIN facts, facts[q].kind = "todo",
                    NEW item \in Work!ItemsOf(q), item.done
             PROVE  \E r \in Work!Of(Work!Scoped(facts[q].branch), "receipt") :
                        /\ r < q /\ r > Work!LastOpen(item, q)
                        /\ \/ item.id # Work!NoId /\ facts[r].todoId = item.id
                           \/ facts[r].step \in {item.text} \cup
                                UNION {{old.text : old \in {o \in Work!ItemsOf(s) : o.id = item.id}} :
                                   s \in {l \in Work!ListsBefore(q) : l > Work!LastOpen(item, q)}}
  BY DEF Work!CompletedIsProven
<1>0. ReviewTyped /\ q \in 1..Len(facts) /\ Len(facts) \in Nat
  BY DEF ReviewInv, ReviewTyped
<1>1. \A kind : Work!Of(Work!Scoped(facts[q].branch), kind)
         = {s \in 1..Len(facts) : facts[s].kind = kind /\ facts[s].branch = facts[q].branch}
  BY <1>0, ScopedIs DEF Work!Of
<1>2. Work!ListsBefore(q) = BeforeAt(q, "todo")
  BY <1>0, <1>1 DEF Work!ListsBefore, BeforeAt
<1>3. Work!LastOpen(item, q) = OpenAt(item, q)
  BY <1>2 DEF Work!LastOpen, OpenAt
<1>4. item \in facts[q].items
  BY <1>0 DEF Work!ItemsOf
<1>5. PICK r \in BeforeAt(q, "receipt") : r > OpenAt(item, q) /\ ProvedBy(r, item, q)
  BY <1>0, <1>4 DEF ReviewInv, CompletedAt
<1>6. r \in Work!Of(Work!Scoped(facts[q].branch), "receipt") /\ r < q
  BY <1>0, <1>1 DEF BeforeAt
<1>7. ASSUME NEW s \in BeforeAt(q, "todo"), s > OpenAt(item, q),
             NEW o \in facts[s].items, o.id = item.id, facts[r].step = o.text
      PROVE  facts[r].step \in
                UNION {{old.text : old \in {x \in Work!ItemsOf(l) : x.id = item.id}} :
                   l \in {l \in Work!ListsBefore(q) : l > Work!LastOpen(item, q)}}
  <2>1. s \in {l \in Work!ListsBefore(q) : l > Work!LastOpen(item, q)}
    BY <1>2, <1>3, <1>7
  <2>2. o \in {x \in Work!ItemsOf(s) : x.id = item.id}
    BY <1>0, <1>7 DEF Work!ItemsOf, BeforeAt
  <2> QED
    BY <1>7, <2>1, <2>2
<1> QED
  BY <1>3, <1>5, <1>6, <1>7 DEF ProvedBy

LEMMA ReceiptsHold == ReviewInv => Work!ReceiptsRestOnFacts
<1> SUFFICES ASSUME ReviewInv, NEW r \in DOMAIN facts, facts[r].kind = "receipt",
                    facts[r].rests # "manual"
             PROVE  /\ facts[r].on \in 1..(r - 1)
                    /\ facts[facts[r].on].branch = facts[r].branch
                    /\ facts[r].rests \in {"check", "review"} =>
                          IF facts[facts[r].on].kind = "review" THEN facts[facts[r].on].ready
                          ELSE facts[facts[r].on].status = "passed"
                    /\ facts[r].rests = "files" => facts[facts[r].on].kind \in {"diff", "read"}
  BY DEF Work!ReceiptsRestOnFacts
<1>1. r \in 1..Len(facts)
  BY DEF ReviewInv, ReviewTyped
<1> QED
  BY <1>1 DEF ReviewInv, RestsAt

\* What the readers look at: the last change of a file is the last change, the last check
\* is among the last ones.
LEMMA ReadersSee ==
    ASSUME ReviewTyped, NEW b
    PROVE  LET known == Work!BuildWorkspaceActivityState(b)
               diffs == Work!Of(Work!Scoped(b), "diff")
               checks == Work!Of(Work!Scoped(b), "check")
           IN  /\ Work!Latest(known.changes) = Work!Latest(diffs)
               /\ Work!Latest(known.checks) = Work!Latest(checks)
               /\ known.checks \subseteq checks /\ checks \in SUBSET (1..Len(facts))
               /\ diffs \in SUBSET (1..Len(facts))
               /\ checks # {} => Work!Latest(checks) \in known.checks
<1> DEFINE n == Len(facts)
           diffs == Work!Of(Work!Scoped(b), "diff")
           checks == Work!Of(Work!Scoped(b), "check")
           changes == Work!LatestByFile(diffs)
           window == Work!LastOf(checks, Window)
           d == Work!Latest(diffs)
           c == Work!Latest(checks)
<1>1. n \in Nat /\ diffs \in SUBSET (1..n) /\ checks \in SUBSET (1..n)
  BY ScopedIs DEF Work!Of, ReviewTyped
<1>2. /\ Work!BuildWorkspaceActivityState(b).changes = changes
      /\ Work!BuildWorkspaceActivityState(b).checks = window
  BY DEF Work!BuildWorkspaceActivityState
<1>3. changes \subseteq diffs /\ window \subseteq checks
  BY DEF Work!LatestByFile, Work!LastOf
<1> HIDE DEF diffs, checks, n
<1>4. /\ d \in 0..n /\ (d \in diffs \/ (d = 0 /\ diffs = {})) /\ \A k \in diffs : k <= d
      /\ c \in 0..n /\ (c \in checks \/ (c = 0 /\ checks = {})) /\ \A k \in checks : k <= c
  BY <1>1, LatestIs
<1>5. diffs # {} => d \in changes
  BY <1>4 DEF Work!LatestByFile
<1>6. checks # {} => c \in window
  <2> SUFFICES ASSUME checks # {} PROVE c \in window
    OBVIOUS
  <2>1. {s \in checks : s >= c} = {c}
    <3>1. c \in checks /\ c \in 0..n /\ \A s \in checks : s \in 1..n /\ s <= c
      BY <1>1, <1>4
    <3> HIDE DEF c
    <3>2. \A s \in checks : s >= c <=> s = c
      BY <1>1, <3>1
    <3> QED
      BY <3>1, <3>2
  <2>2. Work!Cardinality({c}) = 1
    <3>1. Work!Cardinality({c}) = Cardinality({c})
      BY Zenon DEF Work!Cardinality, Cardinality
    <3>2. Cardinality({c}) = 1
      BY FS_Singleton
    <3> QED
      BY <3>1, <3>2
  <2>3. Work!Cardinality({s \in checks : s >= c}) = 1
    BY <2>1, <2>2
  <2>4. 1 <= Window
    BY EdgesAssumptions DEF EdgesAssumptions
  <2> HIDE DEF c
  <2> QED
    BY <1>4, <2>3, <2>4 DEF Work!LastOf
<1>7. ASSUME NEW big \in SUBSET (1..n), NEW small \in SUBSET big,
             big # {} => Work!Latest(big) \in small
      PROVE  Work!Latest(small) = Work!Latest(big)
  <2>1. small \in SUBSET (1..n)
    OBVIOUS
  <2>2. /\ Work!Latest(big) \in 0..n /\ \A k \in big : k <= Work!Latest(big)
        /\ Work!Latest(big) \in big \/ (Work!Latest(big) = 0 /\ big = {})
        /\ Work!Latest(small) \in 0..n /\ \A k \in small : k <= Work!Latest(small)
        /\ Work!Latest(small) \in small \/ (Work!Latest(small) = 0 /\ small = {})
    BY <1>1, <2>1, LatestIs
  <2>3. CASE big = {}
    BY <2>2, <2>3
  <2>4. CASE big # {}
    BY <1>7, <2>2, <2>4
  <2> QED
    BY <2>3, <2>4
<1> HIDE DEF changes, window
<1>8. Work!Latest(changes) = d /\ Work!Latest(window) = c
  BY <1>1, <1>3, <1>5, <1>6, <1>7
<1> QED
  BY <1>1, <1>2, <1>3, <1>6, <1>8 DEF diffs, checks, n

\* Whoever the gate lets finish is warned by nobody.
LEMMA ReadyHolds == ReviewTyped => Work!ReadyIsUnwarned
<1> SUFFICES ASSUME ReviewTyped, NEW b \in Work!Branches, Work!Ready(b), ~Work!CheckRuns(b)
             PROVE  ~Work!SummaryWarns(b) /\ ~Work!TodoWriteReminds(b)
  BY DEF Work!ReadyIsUnwarned
<1> DEFINE known == Work!BuildWorkspaceActivityState(b)
           changed == Work!Latest(known.changes)
           check == Work!Latest(known.checks)
           n == Len(facts)
           diffs == Work!Of(Work!Scoped(b), "diff")
           checks == Work!Of(Work!Scoped(b), "check")
           with(st) == {q \in known.checks : facts[q].status = st}
<1>1. /\ ~Work!ErrorsIn(known.diagnostics)
      /\ check # 0 => facts[check].status # "failed"
      /\ changed # 0 => check > changed /\ facts[check].status = "passed"
      /\ Work!Running(known) = {}
  BY DEF Work!Ready
<1>2. /\ changed = Work!Latest(diffs) /\ check = Work!Latest(checks)
      /\ known.checks \subseteq checks /\ checks \in SUBSET (1..n) /\ diffs \in SUBSET (1..n)
      /\ checks # {} => check \in known.checks
  BY ReadersSee
<1>3. n \in Nat /\ \A q \in checks : facts[q].kind = "check"
  BY DEF Work!Of, ReviewTyped
<1>4. \A q \in checks : facts[q].status \in {"running", "passed", "failed"}
  BY <1>2, <1>3, FactIs
<1>5. check # 0 => facts[check].status # "running"
  BY <1>2 DEF Work!CheckRuns
<1>6. ASSUME NEW st PROVE /\ Work!LatestWith(known, st) = Work!Latest(with(st))
                          /\ with(st) \in SUBSET (1..n)
  BY <1>2 DEF Work!LatestWith
<1> HIDE DEF checks, diffs, known, n, check, changed
<1>7. /\ check \in 0..n /\ (check \in checks \/ (check = 0 /\ checks = {}))
      /\ \A k \in checks : k <= check
      /\ changed \in 0..n
  BY <1>2, <1>3, LatestIs
<1>8. ASSUME NEW st
      PROVE  /\ Work!Latest(with(st)) \in 0..n
             /\ Work!Latest(with(st)) \in with(st) \/ Work!Latest(with(st)) = 0
             /\ \A k \in with(st) : k <= Work!Latest(with(st))
  BY <1>3, <1>6, LatestIs
<1>9. \A st : with(st) \subseteq checks
  BY <1>2
<1>10. CASE checks = {}
  <2>1. check = 0 /\ changed = 0
    BY <1>1, <1>7, <1>10
  <2>2. \A st : with(st) = {}
    BY <1>9, <1>10
  <2>3. \A st : Work!LatestWith(known, st) = 0
    BY <1>6, <1>8, <2>2
  <2>4. ~Work!SummaryWarns(b)
    BY <1>1, <2>1, <2>3 DEF Work!SummaryWarns, known, changed
  <2> QED
    BY <1>2, <2>1, <2>4 DEF Work!TodoWriteReminds, diffs, checks
<1>11. CASE checks # {}
  <2>1. check \in checks /\ check \in known.checks /\ check # 0
    BY <1>2, <1>7, <1>11
  <2>2. facts[check].status = "passed"
    BY <1>1, <1>4, <1>5, <2>1
  <2>3. check \in with("passed")
    BY <2>1, <2>2
  <2>4. check <= Work!Latest(with("passed"))
    BY <1>8, <2>3
  <2>5. Work!Latest(with("failed")) <= check
    <3>1. Work!Latest(with("failed")) \in with("failed") \/ Work!Latest(with("failed")) = 0
      BY <1>8
    <3>2. with("failed") \subseteq checks
      BY <1>9
    <3> HIDE DEF with
    <3>3. CASE Work!Latest(with("failed")) \in with("failed")
      BY <1>7, <3>2, <3>3
    <3>4. CASE Work!Latest(with("failed")) = 0
      BY <1>3, <1>7, <3>4
    <3> QED
      BY <3>1, <3>3, <3>4
  <2> HIDE DEF with
  <2> DEFINE p == Work!LatestWith(known, "passed")
             f == Work!LatestWith(known, "failed")
  <2>6. /\ p \in Nat /\ f \in Nat /\ check \in Nat /\ changed \in Nat
        /\ check <= p /\ f <= check
    <3>1. p = Work!Latest(with("passed")) /\ f = Work!Latest(with("failed"))
      BY <1>6
    <3>2. Work!Latest(with("passed")) \in 0..n /\ Work!Latest(with("failed")) \in 0..n
      BY <1>8
    <3> HIDE DEF p, f
    <3> QED
      BY <1>3, <1>7, <2>4, <2>5, <3>1, <3>2
  <2> HIDE DEF p, f
  <2>7. ~(changed # 0 /\ p < changed) /\ ~(f > p)
    BY <1>1, <2>6
  <2>8. ~Work!SummaryWarns(b)
    BY <1>1, <2>7 DEF Work!SummaryWarns, known, changed, p, f
  <2>9. changed # 0 => ~(check < changed) /\ facts[check].status = "passed"
    BY <1>1, <2>6
  <2>10. ~Work!TodoWriteReminds(b)
    BY <1>2, <2>9 DEF Work!TodoWriteReminds, diffs, checks
  <2> QED
    BY <2>8, <2>10
<1> QED
  BY <1>10, <1>11

LEMMA ReviewRests == [EdgesNext]_<<focus, vars, edges>> => [Work!Next]_ReviewVars
BY DEF EdgesNext, edges, OthersRest

\* What the tools call done has a receipt of its branch since it was last open, receipts
\* rest on earlier facts that support them, and the gate before a final answer lets
\* nobody finish whom the prompt or todo_write warns: WorkIsProven of WorkReview.
THEOREM WorkStaysProven == EdgesSpec => []WorkIsProven
<1>1. EdgesInit => ReviewInv
  BY ReviewInit DEF EdgesInit
<1>2. ReviewInv /\ [EdgesNext]_<<focus, vars, edges>> => ReviewInv'
  BY ReviewRests, ReviewNext
<1>3. ReviewInv => WorkIsProven
  BY CompletedHolds, ReceiptsHold, ReadyHolds DEF ReviewInv, WorkIsProven, Work!WorkIsProven
<1> QED
  BY <1>1, <1>2, <1>3, PTL DEF EdgesSpec

-----------------------------------------------------------------------------
(* The console: WorkReview.                                                *)

\* The edited branch begins after what it shows of main, and runs only once it exists.
ForkFits ==
    /\ \A q \in 1..Len(facts) : facts[q].branch = "edited" => q > fork
    /\ active = "edited" => fork # Work!NoFork
    /\ fork # Work!NoFork => fork <= Len(facts)

LEMMA ForkInit == Work!Init => ForkFits
BY DEF Work!Init, ForkFits, Work!NoFork

LEMMA ForkAdds ==
    ASSUME ReviewTyped, ForkFits, NEW fact, Work!Append1(fact),
           fact.branch = active \/ \E q \in 1..Len(facts) : fact.branch = facts[q].branch
    PROVE  ForkFits'
<1>1. /\ facts' = Append(facts, fact) /\ fork' = fork /\ active' = active
      /\ Len(facts) < MaxFacts /\ Len(facts) \in Nat /\ fork \in Nat
      /\ MaxFacts \in Nat /\ Work!NoFork = MaxFacts + 1
  BY EdgesAssumptions DEF EdgesAssumptions, Work!Append1, ReviewTyped, Work!NoFork
<1>2. /\ Len(facts') = Len(facts) + 1 /\ facts'[Len(facts) + 1] = fact
      /\ \A q \in 1..Len(facts) : facts'[q] = facts[q]
  BY <1>1 DEF ReviewTyped
<1>3. fact.branch = "edited" => fork <= Len(facts)
  BY <1>1 DEF ForkFits
<1>4. ASSUME NEW q \in 1..Len(facts'), facts'[q].branch = "edited" PROVE q > fork
  <2>1. q \in 1..Len(facts) \/ q = Len(facts) + 1
    BY <1>1, <1>2
  <2>2. CASE q \in 1..Len(facts)
    BY <1>2, <1>4, <2>2 DEF ForkFits
  <2>3. CASE q = Len(facts) + 1
    BY <1>1, <1>2, <1>3, <1>4, <2>3
  <2> QED
    BY <2>1, <2>2, <2>3
<1>5. (active = "edited" => fork # Work!NoFork) /\ (fork # Work!NoFork => fork <= Len(facts'))
  BY <1>1, <1>2 DEF ForkFits
<1> QED
  BY <1>1, <1>4, <1>5 DEF ForkFits, Work!NoFork

LEMMA ForkNext == ASSUME ReviewInv, ForkFits, [Work!Next]_ReviewVars PROVE ForkFits'
<1>1. ReviewTyped /\ DOMAIN facts = 1..Len(facts)
  BY DEF ReviewInv, ReviewTyped
<1>2. CASE UNCHANGED ReviewVars
  BY <1>2 DEF ReviewVars, ForkFits, Work!NoFork
<1>3. ASSUME NEW task, Work!TaskEnds(task) PROVE ForkFits'
  <2> DEFINE events == Work!TaskEvents(task)
             last == Work!Latest(events)
             fact == [kind |-> "task", task |-> task, status |-> "completed",
                      branch |-> facts[last].branch]
  <2>1. events \in SUBSET (1..Len(facts)) /\ Len(facts) \in Nat
    BY <1>1 DEF Work!TaskEvents, ReviewTyped
  <2>2. events # {}
    <3>1. Work!Cardinality({}) = 0
      <4>1. Work!Cardinality({}) = Cardinality({})
        BY Zenon DEF Work!Cardinality, Cardinality
      <4> QED
        BY <4>1, FS_EmptySet
    <3>2. Work!Cardinality(events) = 1
      BY <1>3 DEF Work!TaskEnds
    <3> HIDE DEF events
    <3> QED
      BY <3>1, <3>2
  <2> HIDE DEF events
  <2>3. last \in 1..Len(facts)
    BY <2>1, <2>2, LatestIs
  <2>4. Work!Append1(fact)
    BY <1>3 DEF Work!TaskEnds, events
  <2>5. fact.branch = facts[last].branch
    OBVIOUS
  <2> HIDE DEF fact, last
  <2> QED
    BY <1>1, <2>3, <2>4, <2>5, ForkAdds
<1>4. ASSUME NEW fact, Work!Append1(fact), fact.branch = active PROVE ForkFits'
  BY <1>1, <1>4, ForkAdds
<1>5. CASE Work!EditMessage
  <2>1. /\ fork = Work!NoFork /\ fork' \in 0..Len(facts) /\ facts' = facts /\ Len(facts) < MaxFacts
        /\ MaxFacts \in Nat /\ Len(facts) \in Nat /\ Work!NoFork = MaxFacts + 1
    BY <1>1, <1>5, EdgesAssumptions DEF EdgesAssumptions, Work!EditMessage, ReviewTyped, Work!NoFork
  <2>2. \A q \in 1..Len(facts) : facts[q].branch # "edited"
    BY <2>1 DEF ForkFits
  <2> QED
    BY <2>1, <2>2 DEF ForkFits, Work!NoFork
<1>6. CASE Work!SelectBranch
  BY <1>6 DEF Work!SelectBranch, ForkFits, Work!NoFork
<1>7. CASE Work!Next
  <2>1. ASSUME NEW items, Work!TodoWrite(items) PROVE ForkFits'
    BY <1>4, <2>1 DEF Work!TodoWrite
  <2>2. ASSUME NEW x, NEW kind, NEW q, Work!CompleteStep(x, kind, q) PROVE ForkFits'
    BY <1>4, <2>2 DEF Work!CompleteStep
  <2>3. ASSUME NEW x, Work!RecordDiff(x) \/ Work!RecordVerification(x) \/ Work!RecordDiagnostics(x)
                      \/ Work!TaskStarts(x) \/ Work!RecordRead
        PROVE  ForkFits'
    BY <1>4, <2>3 DEF Work!RecordDiff, Work!RecordVerification, Work!RecordDiagnostics,
       Work!TaskStarts, Work!RecordRead
  <2>4. ASSUME NEW blocked \in BOOLEAN, Work!WorkspaceReview(blocked) \/ Work!FinalGate(blocked)
        PROVE  ForkFits'
    <3>1. ASSUME NEW r, Work!Append1([kind |-> "review", branch |-> active, ready |-> r])
          PROVE  ForkFits'
      BY <1>4, <3>1
    <3> QED
      BY <2>4, <3>1 DEF Work!WorkspaceReview, Work!FinalGate
  <2> QED
    BY <1>3, <1>5, <1>6, <1>7, <2>1, <2>2, <2>3, <2>4 DEF Work!Next
<1> QED
  BY <1>2, <1>7

\* What only the console sees comes before all that the core counts: the latest facts
\* are the same, and those among the last of the core's are among its own.
LEMMA LaterPart ==
    ASSUME ReviewTyped, NEW big \in SUBSET (1..Len(facts)), NEW small \in SUBSET big,
           \A k \in big \ small : \A j \in small : k < j
    PROVE  /\ small # {} => Work!Latest(big) = Work!Latest(small)
           /\ Work!LatestByFile(small) \subseteq Work!LatestByFile(big)
           /\ \A m : Work!LastOf(small, m) \subseteq Work!LastOf(big, m)
<1>1. Len(facts) \in Nat /\ small \in SUBSET (1..Len(facts))
  BY DEF ReviewTyped
<1>2. /\ Work!Latest(big) \in 0..Len(facts) /\ \A k \in big : k <= Work!Latest(big)
      /\ Work!Latest(big) \in big \/ (Work!Latest(big) = 0 /\ big = {})
      /\ Work!Latest(small) \in 0..Len(facts) /\ \A k \in small : k <= Work!Latest(small)
      /\ Work!Latest(small) \in small \/ (Work!Latest(small) = 0 /\ small = {})
  BY <1>1, LatestIs
<1>3. ASSUME small # {} PROVE Work!Latest(big) = Work!Latest(small)
  <2> DEFINE l == Work!Latest(small)  m == Work!Latest(big)
  <2>1. l \in small /\ \A k \in small : k <= l
    BY <1>2, <1>3
  <2>2. l \in big
    BY <2>1
  <2>3. m \in big /\ \A k \in big : k <= m
    BY <1>2, <2>2
  <2>4. l \in Nat /\ m \in Nat
    BY <1>1, <1>2
  <2>5. m \notin small => m < l
    BY <2>1, <2>3
  <2> HIDE DEF l, m
  <2>6. l = m
    BY <2>1, <2>2, <2>3, <2>4, <2>5
  <2> QED
    BY <2>6 DEF l, m
<1>4. ASSUME NEW k \in Work!LatestByFile(small) PROVE k \in Work!LatestByFile(big)
  <2>1. k \in small /\ \A j \in small : facts[j].file = facts[k].file => j <= k
    BY <1>4 DEF Work!LatestByFile
  <2>2. ASSUME NEW j \in big, facts[j].file = facts[k].file PROVE j <= k
    <3>1. j \in 1..Len(facts) /\ k \in 1..Len(facts)
      BY <1>1, <2>1
    <3>2. j \notin small => j < k
      BY <2>1
    <3> QED
      BY <1>1, <2>1, <2>2, <3>1, <3>2
  <2> QED
    BY <2>1, <2>2 DEF Work!LatestByFile
<1>5. ASSUME NEW m, NEW k \in Work!LastOf(small, m) PROVE k \in Work!LastOf(big, m)
  <2>1. k \in small /\ Work!Cardinality({s \in small : s >= k}) <= m
    BY <1>5 DEF Work!LastOf
  <2>2. {s \in big : s >= k} = {s \in small : s >= k}
    <3>1. \A s \in big : s >= k => s \in small
      <4> SUFFICES ASSUME NEW s \in big, s >= k, s \notin small PROVE FALSE
        OBVIOUS
      <4>1. s < k /\ s \in Nat /\ k \in Nat
        BY <1>1, <2>1
      <4> QED
        BY <4>1
    <3> QED
      BY <3>1
  <2> QED
    BY <2>1, <2>2 DEF Work!LastOf
<1> QED
  BY <1>3, <1>4, <1>5

LEMMA ShowsHolds == ReviewInv /\ ForkFits => Work!ConsoleShowsTheWork
<1> SUFFICES ASSUME ReviewInv, ForkFits, NEW b \in Work!Branches
             PROVE  LET core == Work!BuildWorkspaceActivityState(b)
                        own == Work!BuildWorkspaceActivityFromThread(b)
                        check == Work!Latest(core.checks)
                    IN  /\ core.todos # 0 => own.todos = core.todos
                        /\ core.diagnostics # 0 => own.diagnostics = core.diagnostics
                        /\ core.changes \subseteq own.changes
                        /\ core.checks \subseteq own.checks
                        /\ \A activity \in {core, own} :
                            /\ (Work!ErrorsIn(core.diagnostics)
                                   \/ (check # 0 /\ facts[check].status = "failed")) =>
                                  Work!ReviewLabel(activity) = "Needs review"
                            /\ Work!ReviewLabel(activity) = "Ready" =>
                                  facts[Work!Latest(core.recent)].ready
  BY DEF Work!ConsoleShowsTheWork
<1> DEFINE core == Work!BuildWorkspaceActivityState(b)
           own == Work!BuildWorkspaceActivityFromThread(b)
           check == Work!Latest(core.checks)
           counted(kind) == Work!Of(Work!Scoped(b), kind)
           seen(kind) == Work!Of(Work!VisibleThread(b), kind)
<1>1. ReviewTyped /\ Len(facts) \in Nat /\ DOMAIN facts = 1..Len(facts) /\ fork \in Nat
  BY EdgesAssumptions DEF EdgesAssumptions, ReviewInv, ReviewTyped, Work!NoFork
<1>2. ASSUME NEW kind
      PROVE  /\ seen(kind) \in SUBSET (1..Len(facts)) /\ counted(kind) \in SUBSET seen(kind)
             /\ \A k \in seen(kind) \ counted(kind) : \A j \in counted(kind) : k < j
  <2>1. seen(kind) \in SUBSET (1..Len(facts)) /\ counted(kind) \in SUBSET seen(kind)
    BY <1>1 DEF Work!Of, Work!VisibleThread, Work!Scoped
  <2>2. ASSUME NEW k \in seen(kind) \ counted(kind), NEW j \in counted(kind) PROVE k < j
    <3>1. facts[k].branch # b /\ facts[k].branch = "main" /\ k <= fork /\ facts[j].branch = b
      BY DEF Work!Of, Work!VisibleThread, Work!Scoped, Work!BranchMatches
    <3>2. b = "edited" /\ j \in 1..Len(facts) /\ k \in 1..Len(facts)
      BY <2>1, <3>1 DEF Work!Branches
    <3>3. j > fork
      BY <3>1, <3>2 DEF ForkFits
    <3> QED
      BY <1>1, <3>1, <3>2, <3>3
  <2> QED
    BY <2>1, <2>2
<1>3. ASSUME NEW kind
      PROVE  /\ Work!Latest(counted(kind)) # 0 =>
                   Work!Latest(seen(kind)) = Work!Latest(counted(kind))
             /\ Work!LatestByFile(counted(kind)) \subseteq Work!LatestByFile(seen(kind))
             /\ \A m : Work!LastOf(counted(kind), m) \subseteq Work!LastOf(seen(kind), m)
  <2> HIDE DEF counted, seen
  <2>1. counted(kind) \in SUBSET (1..Len(facts))
    BY <1>2
  <2>2. Work!Latest(counted(kind)) # 0 => counted(kind) # {}
    BY <1>1, <2>1, LatestIs
  <2> QED
    BY <1>1, <1>2, <2>2, LaterPart
<1>4. /\ core.todos = Work!Latest(counted("todo")) /\ own.todos = Work!Latest(seen("todo"))
      /\ core.diagnostics = Work!Latest(counted("diagnostics"))
      /\ own.diagnostics = Work!Latest(seen("diagnostics"))
      /\ core.changes = Work!LatestByFile(counted("diff"))
      /\ own.changes = Work!LatestByFile(seen("diff"))
      /\ core.checks = Work!LastOf(counted("check"), Window)
      /\ own.checks = Work!LastOf(seen("check"), Window)
      /\ core.payloads = TRUE /\ own.payloads = FALSE
  BY DEF Work!BuildWorkspaceActivityState, Work!BuildWorkspaceActivityFromThread
<1>5. check # 0 => check \in core.checks
  <2>1. /\ check = Work!Latest(counted("check")) /\ counted("check") \in SUBSET (1..Len(facts))
        /\ counted("check") # {} => Work!Latest(counted("check")) \in core.checks
    BY <1>1, ReadersSee
  <2> HIDE DEF counted, check, core
  <2>2. check # 0 => counted("check") # {}
    BY <1>1, <2>1, LatestIs
  <2> QED
    BY <2>1, <2>2
<1> HIDE DEF core, own, counted, seen, check
<1>6. /\ core.todos # 0 => own.todos = core.todos
      /\ core.diagnostics # 0 => own.diagnostics = core.diagnostics
      /\ core.changes \subseteq own.changes
      /\ core.checks \subseteq own.checks
  BY <1>3, <1>4
<1>7. ASSUME NEW activity \in {core, own},
             Work!ErrorsIn(core.diagnostics) \/ (check # 0 /\ facts[check].status = "failed")
      PROVE  Work!ReviewLabel(activity) = "Needs review"
  <2>1. CASE Work!ErrorsIn(core.diagnostics)
    <3>1. Work!ErrorsIn(activity.diagnostics)
      BY <1>6, <2>1 DEF Work!ErrorsIn
    <3> QED
      BY <3>1 DEF Work!ReviewLabel
  <2>2. CASE check # 0 /\ facts[check].status = "failed"
    <3>1. check \in activity.checks
      BY <1>5, <1>6, <2>2
    <3> QED
      BY <2>2, <3>1 DEF Work!ReviewLabel
  <2> QED
    BY <1>7, <2>1, <2>2
<1>8. ASSUME NEW activity \in {core, own}, Work!ReviewLabel(activity) = "Ready"
      PROVE  facts[Work!Latest(core.recent)].ready
  <2> DEFINE review == Work!Latest(activity.recent)
             known == review # 0 /\ activity.payloads
  <2>1. known /\ ~(known /\ ~facts[review].ready)
    BY <1>8 DEF Work!ReviewLabel
  <2>2. activity.payloads
    BY <2>1
  <2>3. activity = core
    BY <1>4, <2>2
  <2> QED
    BY <2>1, <2>3
<1> QED
  BY <1>6, <1>7, <1>8 DEF core, own, check
=============================================================================
