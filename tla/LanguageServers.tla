---------------------------- MODULE LanguageServers ----------------------------
(***************************************************************************)
(* WorkspaceLanguageServerManager and its JSON-RPC client for one language *)
(* of one project: tools of several turns query the same server, edits     *)
(* notify it, servers are slow, fail and exit.                             *)
(*                                                                         *)
(* What settles in a promise ("go", "fail", "err", "next") is handled before *)
(* the next request, timer or event: Quiet.                                *)
(***************************************************************************)
EXTENDS Naturals, FiniteSets, FiniteSetsExt

CONSTANTS LspOps,     \* operations that may run at a time
          Files,      \* files of the language
          MaxClients, \* bound on clients
          MaxServers  \* bound on server processes

VARIABLES
    current,  \* #clients: the client of the language, 0 for none
    rpc,      \* each client: its child (0 for none), #initialized and #openedDocuments
    server,   \* each process: the client that spawned it, its state, the documents it got by didOpen
    lsp       \* each operation

lspVars == <<current, rpc, server, lsp>>

ClientIds == 1..MaxClients
ServerIds == 1..MaxServers
NewClient == [child |-> 0, init |-> "none", opened |-> {}]
NoServer == [of |-> 0, is |-> "none", opened |-> {}]
NoOp == [kind |-> "none", at |-> "idle", client |-> 0, todo |-> {}]

Init ==
    /\ current = 0
    /\ rpc = [c \in ClientIds |-> NewClient]
    /\ server = [p \in ServerIds |-> NoServer]
    /\ lsp = [q \in LspOps |-> NoOp]

Quiet == \A q \in LspOps : lsp[q].at \notin {"go", "fail", "err", "next"}

-----------------------------------------------------------------------------
(* The client.                                                             *)

Used == {server[p].of : p \in ServerIds} \cup {lsp[q].client : q \in LspOps} \cup {current}
FreeClients == ClientIds \ Used
FreeServers == {p \in ServerIds : server[p].is = "none"}

\* #start(): the child of client c, spawned if it has none.
Child(c) == IF rpc[c].child # 0 THEN rpc[c].child ELSE Min(FreeServers)

CanStart(c) == rpc[c].child # 0 \/ FreeServers # {}

Started(c) == IF rpc[c].child # 0 THEN server
              ELSE [server EXCEPT ![Child(c)] = [of |-> c, is |-> "up", opened |-> {}]]

\* initialize() for operation q: the first caller sends the request, the
\* others share its promise, and a promise that failed fails again.
Initialize(q, c, op) ==
    LET init == IF c = current THEN rpc[c].init ELSE "none"
    IN  /\ CanStart(c)
        /\ IF init = "none"
           THEN /\ rpc' = [rpc EXCEPT ![c] = [child |-> Child(c), init |-> "waiting",
                              opened |-> IF c = current THEN @.opened ELSE {}]]
                /\ server' = Started(c)
           ELSE UNCHANGED <<rpc, server>>
        /\ lsp' = [lsp EXCEPT ![q] = [op EXCEPT !.client = c,
                     !.at = CASE init \in {"none", "waiting"} -> "init"
                              [] init = "done" -> "go" [] init = "failed" -> "fail"]]

\* Mutant: the server of a client that is given up is left alone.
DisposeOnly(c) ==
    /\ rpc' = [rpc EXCEPT ![c].child = 0,
                          ![c].init = IF @ = "waiting" THEN "failed" ELSE @]
    /\ UNCHANGED server

\* dispose() and #rejectAll(): what the pending operations of client c get.
Rejected(c) ==
    [q \in LspOps |-> IF lsp[q].client = c /\ lsp[q].at = "asked" THEN [lsp[q] EXCEPT !.at = "err"]
                      ELSE IF lsp[q].client = c /\ lsp[q].at = "init" THEN [lsp[q] EXCEPT !.at = "fail"]
                      ELSE lsp[q]]

Dispose(c) ==
    /\ rpc' = [rpc EXCEPT ![c].child = 0,
                          ![c].init = IF @ = "waiting" THEN "failed" ELSE @]
    /\ server' = [p \in ServerIds |-> IF p = rpc[c].child THEN [server[p] EXCEPT !.is = "killed"]
                                      ELSE server[p]]

-----------------------------------------------------------------------------
(* The operations.                                                         *)

\* #clientFor()
ClientFor == IF current # 0 THEN current ELSE Min(FreeClients)

Enter(q, op) ==
    /\ current # 0 \/ FreeClients # {}
    /\ current' = ClientFor
    /\ Initialize(q, ClientFor, op)

\* documentSymbols(), definitions(), hover() and the others begin with
\* #openDocument(); workspaceSymbols() initializes only; so does
\* diagnosticsForLspProject() for one file after the other.
Begin(q) ==
    /\ Quiet /\ lsp[q] = NoOp
    /\ \/ \E f \in Files : Enter(q, [NoOp EXCEPT !.kind = "query", !.todo = {f}])
       \/ Enter(q, [NoOp EXCEPT !.kind = "symbols"])
       \/ Enter(q, [NoOp EXCEPT !.kind = "diagnose", !.todo = Files])

\* The file an operation is at.
File(q) == CHOOSE f \in lsp[q].todo : TRUE

\* openOrChange(): didOpen for a document the client has not opened,
\* didChange for the others.
OpenOrChange(c, f) ==
    /\ rpc' = [rpc EXCEPT ![c].child = Child(c), ![c].opened = @ \cup {f}]
    /\ server' = IF f \in rpc[c].opened THEN Started(c)
                 ELSE [Started(c) EXCEPT ![Child(c)].opened = @ \cup {f}]

\* The server is initialized: the document is opened or changed, and the
\* request sent; the diagnostics are awaited once every file is opened.
Go(q) ==
    LET c == lsp[q].client
        rest == lsp[q].todo \ {File(q)}
    IN  /\ lsp[q].at = "go" /\ CanStart(c)
        /\ IF lsp[q].kind = "symbols" THEN rpc' = [rpc EXCEPT ![c].child = Child(c)] /\ server' = Started(c)
                                      ELSE OpenOrChange(c, File(q))
        /\ lsp' = [lsp EXCEPT ![q] =
             IF lsp[q].kind # "diagnose" THEN [@ EXCEPT !.at = "asked"]
             ELSE IF rest = {} THEN [@ EXCEPT !.at = "wait", !.todo = {}]
             ELSE [@ EXCEPT !.at = "next", !.todo = rest]]
        /\ UNCHANGED current

\* diagnosticsForLspProject() goes on to its next file, whether or not this
\* one could be opened.  It awaits #openDocument(), so that it hears of a
\* failure after those that await the client itself.
NextFile(q) ==
    /\ lsp[q].at = "next" /\ \A x \in LspOps : lsp[x].at \notin {"go", "fail", "err"}
    /\ Enter(q, lsp[q])

\* initialize() was rejected: #openDocument() throws and leaves the client
\* where it is; workspaceSymbols() gives it up.
InitializeFails(q) ==
    /\ lsp[q].at = "fail"
    /\ IF lsp[q].kind = "symbols"
       THEN /\ current' = 0 /\ Dispose(lsp[q].client)
            /\ lsp' = [Rejected(lsp[q].client) EXCEPT ![q] = NoOp]
       ELSE /\ lsp' = [lsp EXCEPT ![q] = IF @.kind = "diagnose" /\ Cardinality(@.todo) > 1
                                         THEN [@ EXCEPT !.at = "next", !.todo = lsp[q].todo \ {File(q)}]
                                         ELSE NoOp]
            /\ UNCHANGED <<current, rpc, server>>

\* A request failed: the catch blocks forget the language's client and
\* dispose of the one they used.
RequestFails(q) ==
    /\ lsp[q].at = "err"
    /\ current' = 0 /\ Dispose(lsp[q].client)
    /\ lsp' = [Rejected(lsp[q].client) EXCEPT ![q] = NoOp]

\* A request is answered, or waitForDiagnostics() is over.
Ends(q) ==
    /\ Quiet /\ lsp[q].at \in {"asked", "wait"}
    /\ lsp[q].at = "asked" => rpc[lsp[q].client].child # 0
    /\ lsp' = [lsp EXCEPT ![q] = NoOp]
    /\ UNCHANGED <<current, rpc, server>>

\* It times out, or the server answers with an error.
RequestTimesOut(q) ==
    /\ Quiet /\ lsp[q].at = "asked"
    /\ lsp' = [lsp EXCEPT ![q].at = "err"]
    /\ UNCHANGED <<current, rpc, server>>

\* The answer to initialize, or its timeout.
InitializeEnds(c, ok) ==
    /\ Quiet /\ rpc[c].init = "waiting"
    /\ ok => rpc[c].child # 0
    /\ rpc' = [rpc EXCEPT ![c].init = IF ok THEN "done" ELSE "failed"]
    /\ lsp' = [q \in LspOps |-> IF lsp[q].at = "init" /\ lsp[q].client = c
                                THEN [lsp[q] EXCEPT !.at = IF ok THEN "go" ELSE "fail"] ELSE lsp[q]]
    /\ UNCHANGED <<current, server>>

\* An editing tool (#handleWorkspaceFileChanged): notifyDidChange() and
\* notifyDidSave() reach the client there is, initialized or not.
FileChanged(f) ==
    /\ Quiet /\ current # 0 /\ CanStart(current)
    /\ rpc' = [rpc EXCEPT ![current].child = Child(current), ![current].opened = @ \cup {f}]
    /\ server' = Started(current)
    /\ UNCHANGED <<current, lsp>>

\* The child's exit event, of its own or after kill().
Exits(p) ==
    /\ Quiet /\ server[p].is \in {"up", "killed"}
    /\ LET c == server[p].of
       IN  /\ rpc' = [rpc EXCEPT ![c].child = 0, ![c].init = "none"]
           /\ lsp' = Rejected(c)
    /\ server' = [server EXCEPT ![p] = NoServer]
    /\ UNCHANGED current

Next ==
    \/ \E q \in LspOps : Begin(q)
    \/ \E q \in LspOps : Go(q)
    \/ \E q \in LspOps : NextFile(q)
    \/ \E q \in LspOps : InitializeFails(q)
    \/ \E q \in LspOps : RequestFails(q)
    \/ \E q \in LspOps : Ends(q)
    \/ \E q \in LspOps : RequestTimesOut(q)
    \/ \E c \in ClientIds, ok \in BOOLEAN : InitializeEnds(c, ok)
    \/ \E f \in Files : FileChanged(f)
    \/ \E p \in ServerIds : Exits(p)

Spec == Init /\ [][Next]_lspVars

-----------------------------------------------------------------------------
(* Properties.                                                             *)

\* #clientFor() and dispose(): a server process that nobody has killed is the
\* child of the language's client, so that the manager's dispose() reaches it.
NoServerIsLost ==
    Quiet => \A p \in ServerIds : server[p].is = "up" => current # 0 /\ rpc[current].child = p

\* openOrChange(): a request about a document goes to a server that has it open.
\* The code does not satisfy it, and no run checks it: README, Deviations.
DocumentIsOpen ==
    \A q \in LspOps :
        LET p == rpc[lsp[q].client].child
        IN  lsp[q].at = "asked" /\ lsp[q].kind = "query" /\ p # 0 => File(q) \in server[p].opened
=============================================================================
