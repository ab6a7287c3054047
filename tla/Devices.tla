------------------------------- MODULE Devices -------------------------------
(***************************************************************************)
(* The paired devices of the gateway (AuthStore): one-time pairing codes,  *)
(* one-time stream tokens, revocation, and the requests that are           *)
(* authenticated when they arrive and do their work when their body is in. *)
(* auth.json is read and rewritten as a whole by every operation, of the   *)
(* gateway and of the command that issues a code (npm run pair).           *)
(***************************************************************************)
EXTENDS Naturals, FiniteSets

CONSTANTS DeviceIds, PairingCodes, StreamTokens, MaxPairRuns

Nobody == "nobody"

VARIABLES
    auth,     \* auth.json
    pairRead, \* what the pair command has read and not yet written back, with its code
    pairRuns,
    expired,  \* codes and tokens whose time is over
    inFlight, \* the devices with an authenticated request that waits for its body
    madeBy,   \* the devices that each code has paired
    streamsOf,\* the streams that each token has opened: set of <<device, was it revoked>>
    undone    \* the pair command has overwritten what the gateway wrote meanwhile

deviceVars == <<auth, pairRead, pairRuns, expired, inFlight, madeBy, streamsOf, undone>>

Init ==
    /\ auth = [devices |-> [d \in DeviceIds |-> "none"], codes |-> {}, tokens |-> {}]
    /\ pairRead = {}
    /\ pairRuns = 0
    /\ expired = {}
    /\ inFlight = {}
    /\ madeBy = [c \in PairingCodes |-> {}]
    /\ streamsOf = [t \in StreamTokens |-> {}]
    /\ undone = FALSE

-----------------------------------------------------------------------------
\* A code or a token in the file: whose it is and whether it has been used.
Entry(id, by) == [id |-> id, by |-> by, used |-> FALSE]
Use(entries, e) == (entries \ {e}) \cup {[e EXCEPT !.used = TRUE]}
Valid(e) == ~e.used /\ e.id \notin expired

CleanupExpired(file) ==
    [file EXCEPT !.codes = {e \in @ : Valid(e)}, !.tokens = {e \in @ : Valid(e)}]

\* randomBytes: what is issued has never been issued before.
Unissued(id) ==
    /\ id \notin expired
    /\ \A e \in auth.codes \cup auth.tokens : e.id # id
    /\ \A r \in pairRead : r.code # id /\ \A e \in r.file.codes : e.id # id
    /\ id \in PairingCodes => madeBy[id] = {}
    /\ id \in StreamTokens => streamsOf[id] = {}

IssuePairingCode(file, c, by) ==
    CleanupExpired([file EXCEPT !.codes = @ \cup {Entry(c, by)}])

\* authenticateBearer, for a request that still waits for its body.
Authenticated(d) == auth.devices[d] = "active"

\* Mutant: the used code is not marked.
PairDeviceAgain(c, d) ==
    LET file == CleanupExpired(auth)
    IN  /\ auth.devices[d] = "none"
        /\ \E e \in file.codes :
               /\ e.id = c /\ Valid(e)
               /\ auth' = [file EXCEPT !.devices[d] = "active"]
        /\ madeBy' = [madeBy EXCEPT ![c] = @ \cup {d}]
        /\ UNCHANGED <<pairRead, pairRuns, expired, inFlight, streamsOf, undone>>

PairDevice(c, d) ==
    LET file == CleanupExpired(auth)
    IN  /\ auth.devices[d] = "none"
        /\ \E e \in file.codes :
               /\ e.id = c /\ Valid(e)
               /\ auth' = [file EXCEPT !.codes = Use(@, e), !.devices[d] = "active"]
        /\ madeBy' = [madeBy EXCEPT ![c] = @ \cup {d}]
        /\ UNCHANGED <<pairRead, pairRuns, expired, inFlight, streamsOf, undone>>

\* A failed attempt saves the file without what is used or expired; so does the
\* status page.
AuthStatus ==
    /\ auth' = CleanupExpired(auth)
    /\ UNCHANGED <<pairRead, pairRuns, expired, inFlight, madeBy, streamsOf, undone>>

\* POST /pairing-codes, by a device or without a token from the computer itself: the
\* device is authenticated, the body is awaited, the code is issued.  Only here does a
\* device act that may have been revoked meanwhile.
CreatePairingCode(d) ==
    /\ d \notin inFlight /\ d # Nobody => Authenticated(d)
    /\ inFlight' = inFlight \cup {d}
    /\ UNCHANGED <<auth, pairRead, pairRuns, expired, madeBy, streamsOf, undone>>
BodyArrives(d, c) ==
    /\ d \in inFlight /\ Unissued(c)
    /\ auth' = IssuePairingCode(auth, c, d)
    /\ inFlight' = inFlight \ {d}
    /\ UNCHANGED <<pairRead, pairRuns, expired, madeBy, streamsOf, undone>>

RevokeDevice(d, by) ==
    /\ Authenticated(by) /\ auth.devices[d] = "active"
    /\ auth' = [auth EXCEPT !.devices[d] = "revoked"]
    /\ UNCHANGED <<pairRead, pairRuns, expired, inFlight, madeBy, streamsOf, undone>>

IssueStreamToken(t, d) ==
    /\ Authenticated(d) /\ Unissued(t)
    /\ auth' = CleanupExpired([auth EXCEPT !.tokens = @ \cup {Entry(t, d)}])
    /\ UNCHANGED <<pairRead, pairRuns, expired, inFlight, madeBy, streamsOf, undone>>

\* The token opens the event stream or the terminal stream; the stream then stays
\* open, whatever becomes of the device.
ConsumeStreamToken(t) ==
    LET file == CleanupExpired(auth)
    IN  \E e \in file.tokens :
            /\ e.id = t /\ Valid(e)
            /\ IF file.devices[e.by] = "active"
               THEN /\ auth' = [file EXCEPT !.tokens = Use(@, e)]
                    /\ streamsOf' = [streamsOf EXCEPT ![t] =
                           @ \cup {<<e.by, auth.devices[e.by], Cardinality(@)>>}]
               ELSE auth' = file /\ UNCHANGED streamsOf
            /\ UNCHANGED <<pairRead, pairRuns, expired, inFlight, madeBy, undone>>

Expire(id) ==
    /\ \E e \in auth.codes \cup auth.tokens : e.id = id
    /\ id \notin expired
    /\ expired' = expired \cup {id}
    /\ UNCHANGED <<auth, pairRead, pairRuns, inFlight, madeBy, streamsOf, undone>>

-----------------------------------------------------------------------------
\* The pair command, in a process of its own: it reads the file, ...
PairCommandReads(c) ==
    /\ pairRead = {} /\ pairRuns < MaxPairRuns /\ Unissued(c)
    /\ pairRead' = {[file |-> auth, code |-> c]}
    /\ pairRuns' = pairRuns + 1
    /\ UNCHANGED <<auth, expired, inFlight, madeBy, streamsOf, undone>>
\* ... and writes it, over what the gateway has written since; unless the gateway
\* had read the file before and writes it after.
PairCommandWrites ==
    /\ \E r \in pairRead :
           \/ /\ auth' = IssuePairingCode(r.file, r.code, Nobody)
              /\ undone' = (undone \/ auth # r.file)
           \/ UNCHANGED <<auth, undone>>
    /\ pairRead' = {}
    /\ UNCHANGED <<pairRuns, expired, inFlight, madeBy, streamsOf>>

Next ==
    \/ \E c \in PairingCodes :
           \/ \E d \in DeviceIds : PairDevice(c, d)
           \/ \E d \in DeviceIds \cup {Nobody} : BodyArrives(d, c)
           \/ PairCommandReads(c)
    \/ \E d \in DeviceIds \cup {Nobody} : CreatePairingCode(d)
    \/ \E d \in DeviceIds :
           \/ \E by \in DeviceIds : RevokeDevice(d, by)
           \/ \E t \in StreamTokens : IssueStreamToken(t, d)
    \/ \E t \in StreamTokens : ConsumeStreamToken(t)
    \/ \E id \in PairingCodes \cup StreamTokens : Expire(id)
    \/ AuthStatus
    \/ PairCommandWrites

-----------------------------------------------------------------------------
TypeOK ==
    /\ auth.devices \in [DeviceIds -> {"none", "active", "revoked"}]
    /\ \A e \in auth.codes : e.id \in PairingCodes /\ e.by \in DeviceIds \cup {Nobody}
    /\ \A e \in auth.tokens : e.id \in StreamTokens /\ e.by \in DeviceIds
    /\ expired \subseteq PairingCodes \cup StreamTokens
    /\ inFlight \subseteq DeviceIds \cup {Nobody}
    /\ undone \in BOOLEAN

\* A code pairs one device and a token opens one stream, of a device that is not
\* revoked then; and at most one entry in the file is about each of them.  The pair
\* command can undo all of it: its write brings back what was used or revoked since
\* its read (auth-store.ts, #loadAuthState and #saveAuthState).
KeysOpenOnce ==
    undone \/ /\ \A c \in PairingCodes : Cardinality(madeBy[c]) <= 1
              /\ \A t \in StreamTokens :
                     /\ Cardinality(streamsOf[t]) <= 1
                     /\ \A x \in streamsOf[t] : x[2] = "active"
              /\ \A e, f \in auth.codes \cup auth.tokens : e.id = f.id => e = f
=============================================================================
