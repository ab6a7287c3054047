---------------------------- MODULE GatewayService ----------------------------
(***************************************************************************)
(* The gateway as a process: how the command line (forgeagent), launchd    *)
(* and the Mac app start, find, stop and replace it.  A data directory has *)
(* one run file that names the process that serves it; who wants to stop   *)
(* or to find the gateway has nothing else to go by.  Nothing locks the    *)
(* directory: --port and HTTP_PORT let two processes serve it at once.     *)
(***************************************************************************)
EXTENDS Naturals, Sequences, FiniteSetsExt

CONSTANTS Pids, Ports, Terminals, MaxCommands

\* The app's first candidate.  The command line takes any port.
PreferredPort == Min(Ports)
\* The data directories: that of the command line and that of the app.
Dirs == {"cli", "app"}
None == "none"

VARIABLES
    proc,     \* the processes: how far each is, its directory and port, is it launchd's;
              \* beside: did one of its directory come up while another had it (history)
    runFile,  \* per directory: the process gateway.json names
    agent,    \* the launch agent: is it loaded, with what, and its process
    cli,      \* the commands under way: what is left to do, the process waited for
    app,      \* CoreServiceController: status, currentPort and how far it is
    recovery, \* its lateHealthRecoveryTask runs
    commands

serviceVars == <<proc, runFile, agent, cli, app, recovery, commands>>

NotYet == [at |-> None, dir |-> "cli", port |-> 0, launchd |-> FALSE, beside |-> FALSE]
Gone == [NotYet EXCEPT !.at = "gone"]

Init ==
    /\ proc = [p \in Pids |-> NotYet]
    /\ runFile = [d \in Dirs |-> None]
    /\ agent = [loaded |-> FALSE, dir |-> "cli", port |-> 0, pid |-> None]
    /\ cli = [t \in Terminals |-> [todo |-> <<>>, pid |-> None]]
    /\ app = [status |-> "off", port |-> PreferredPort, at |-> None]
    /\ recovery = FALSE
    /\ commands = 0

-----------------------------------------------------------------------------
Alive(p) == p # None /\ proc[p].at \in {"booting", "serving", "closing"}
Serving(p) == p # None /\ proc[p].at = "serving"
PortTaken(port) == \E p \in Pids : Serving(p) /\ proc[p].port = port
\* The answer of /health at a port or of the process a run file names.
HealthReady(port) == PortTaken(port)

\* A process starts: by a command, or by launchd.  Which id it gets is of no account.
Spawn(p, dir, port, launchd) ==
    /\ proc[p].at = None /\ p = (CHOOSE q \in Pids : proc[q].at = None)
    /\ proc' = [proc EXCEPT ![p] = [at |-> "booting", dir |-> dir, port |-> port,
                                    launchd |-> launchd, beside |-> FALSE]]
\* SIGTERM: there is a handler only when the gateway has started.
Terminated(f, p) ==
    [f EXCEPT ![p] = IF @.at = "booting" THEN Gone
                    ELSE IF @.at = "serving" THEN [@ EXCEPT !.at = "closing"] ELSE @]
Killed(f, p) == [f EXCEPT ![p] = Gone]

\* A command whose process has just gone clears the run file within its poll of
\* 100 ms, which is less than a start takes.
ClearsFirst(d) ==
    d = "cli" => \A t \in Terminals : cli[t].pid # None => Alive(cli[t].pid)

\* Who else has the directory of a process that comes up, and is not gone yet.
Others(p) == {q \in Pids \ {p} : proc[q].at \in {"serving", "closing"} /\ proc[q].dir = proc[p].dir}
ComesUp(p) ==
    /\ proc' = [q \in Pids |->
           IF q = p THEN [proc[p] EXCEPT !.at = "serving", !.beside = Others(p) # {}]
           ELSE IF q \in Others(p) THEN [proc[q] EXCEPT !.beside = TRUE] ELSE proc[q]]
    /\ runFile' = [runFile EXCEPT ![proc[p].dir] = p]

\* Mutant: the end of a process that could not listen clears the run file.
ListenOrClear(p) ==
    /\ proc[p].at = "booting" /\ ClearsFirst(proc[p].dir)
    /\ \/ ~PortTaken(proc[p].port) /\ ComesUp(p)
       \/ /\ PortTaken(proc[p].port)
          /\ proc' = Killed(proc, p)
          /\ runFile' = [runFile EXCEPT ![proc[p].dir] = None]
    /\ UNCHANGED <<agent, cli, app, recovery, commands>>

\* startHttpGateway loads and repairs the sessions, and then listens: on a port that is
\* taken it fails and the process ends, the run file as it is.
Listen(p) ==
    /\ proc[p].at = "booting" /\ ClearsFirst(proc[p].dir)
    /\ \/ ~PortTaken(proc[p].port) /\ ComesUp(p)
       \/ /\ PortTaken(proc[p].port)
          /\ proc' = Killed(proc, p)
          /\ UNCHANGED runFile
    /\ UNCHANGED <<agent, cli, app, recovery, commands>>

\* The end of a shutdown clears the run file, whoever it names.
ShutDown(p) ==
    /\ proc[p].at = "closing"
    /\ proc' = Killed(proc, p)
    /\ runFile' = [runFile EXCEPT ![proc[p].dir] = None]
    /\ UNCHANGED <<agent, cli, app, recovery, commands>>

Crash(p) ==
    /\ Alive(p)
    /\ proc' = Killed(proc, p)
    /\ UNCHANGED <<runFile, agent, cli, app, recovery, commands>>

\* launchd: RunAtLoad and KeepAlive.
KeepAlive(p) ==
    /\ agent.loaded /\ ~Alive(agent.pid)
    /\ Spawn(p, agent.dir, agent.port, TRUE)
    /\ agent' = [agent EXCEPT !.pid = p]
    /\ UNCHANGED <<runFile, cli, app, recovery, commands>>

-----------------------------------------------------------------------------
\* The command line.  What it does between two waits is one step.
Begin(t, todo) ==
    /\ cli[t].todo = <<>> /\ commands < MaxCommands
    /\ commands' = commands + 1
    /\ cli' = [cli EXCEPT ![t].todo = todo]
    /\ UNCHANGED <<proc, runFile, agent, app, recovery>>
Command(t) ==
    \E todo \in {<<"start">>, <<"status">>, <<"stop">>, <<"stop", "start">>,
                 <<"stop", "install">>, <<"uninstall">>, <<"serve">>} : Begin(t, todo)

Doing(t, step) == cli[t].todo # <<>> /\ Head(cli[t].todo) = step /\ cli[t].pid = None
Done(t) == cli' = [cli EXCEPT ![t] = [todo |-> Tail(@.todo), pid |-> None]]
WaitFor(t, p) == cli' = [cli EXCEPT ![t].pid = p]

StartCommand(t) ==
    /\ Doing(t, "start")
    /\ \/ Alive(runFile["cli"]) /\ UNCHANGED <<proc, runFile>>
       \/ /\ ~Alive(runFile["cli"])
          /\ runFile' = [runFile EXCEPT !["cli"] = None]
          /\ \E p \in Pids, port \in Ports : Spawn(p, "cli", port, FALSE)
    /\ Done(t)
    /\ UNCHANGED <<agent, app, recovery, commands>>

\* npm run http: the process is started without a look at the run file.
ServeCommand(t) ==
    /\ Doing(t, "serve")
    /\ \E p \in Pids, port \in Ports : Spawn(p, "cli", port, FALSE)
    /\ Done(t)
    /\ UNCHANGED <<runFile, agent, app, recovery, commands>>

StatusCommand(t) ==
    /\ Doing(t, "status")
    /\ runFile' = IF Alive(runFile["cli"]) THEN runFile ELSE [runFile EXCEPT !["cli"] = None]
    /\ Done(t)
    /\ UNCHANGED <<proc, agent, app, recovery, commands>>

StopCommand(t) ==
    /\ Doing(t, "stop")
    /\ \/ /\ Alive(runFile["cli"])
          /\ proc' = Terminated(proc, runFile["cli"])
          /\ WaitFor(t, runFile["cli"])
          /\ UNCHANGED runFile
       \/ /\ ~Alive(runFile["cli"])
          /\ runFile' = [runFile EXCEPT !["cli"] = None]
          /\ Done(t)
          /\ UNCHANGED proc
    /\ UNCHANGED <<agent, app, recovery, commands>>
\* waitForExit: SIGKILL when five seconds have passed.
Stopping(t) ==
    /\ cli[t].pid # None /\ Head(cli[t].todo) = "stop"
    /\ proc' = Killed(proc, cli[t].pid)
    /\ runFile' = [runFile EXCEPT !["cli"] = None]
    /\ Done(t)
    /\ UNCHANGED <<agent, app, recovery, commands>>

\* launchctl bootout ends the agent's process (SIGKILL when it takes too long) and
\* returns when it is gone.
BootedOut == ~agent.loaded /\ ~Alive(agent.pid)
Unload(next) ==
    /\ agent.loaded
    /\ agent' = [agent EXCEPT !.loaded = FALSE]
    /\ proc' = IF Alive(agent.pid) THEN Terminated(proc, agent.pid) ELSE proc
    /\ UNCHANGED <<runFile, cli, recovery, commands>>
    /\ app' = next
UnloadKills ==
    /\ ~agent.loaded /\ Alive(agent.pid)
    /\ proc' = Killed(proc, agent.pid)
    /\ UNCHANGED <<runFile, agent, cli, app, recovery, commands>>

InstallCommand(t) ==
    /\ Doing(t, "install")
    /\ \/ Unload(app)
       \/ /\ BootedOut
          /\ \E port \in Ports :
                 agent' = [loaded |-> TRUE, dir |-> "cli", port |-> port, pid |-> None]
          /\ Done(t)
          /\ UNCHANGED <<proc, runFile, app, recovery, commands>>
UninstallCommand(t) ==
    /\ Doing(t, "uninstall")
    /\ \/ Unload(app)
       \/ /\ BootedOut
          /\ runFile' = IF Alive(runFile["cli"]) THEN runFile
                       ELSE [runFile EXCEPT !["cli"] = None]
          /\ Done(t)
          /\ UNCHANGED <<proc, agent, app, recovery, commands>>

-----------------------------------------------------------------------------
\* The Mac app.  bootstrap() adopts a healthy gateway that launchd runs for the app;
\* else it installs its own.
AppIs(status, at) == app' = [app EXCEPT !.status = status, !.at = at]
Adoptable ==
    /\ Serving(runFile["app"])
    /\ agent.loaded /\ agent.dir = "app" /\ Alive(agent.pid)

Bootstrap ==
    /\ app.status = "off"
    /\ recovery' = FALSE
    /\ app' = IF Adoptable
              THEN [status |-> "ready", port |-> proc[runFile["app"]].port, at |-> None]
              ELSE [app EXCEPT !.status = "starting", !.at = "bootout"]
    /\ UNCHANGED <<proc, runFile, agent, cli, commands>>
RestartCore ==
    /\ app.status # "off" /\ app.at = None /\ commands < MaxCommands
    /\ commands' = commands + 1
    /\ recovery' = FALSE
    /\ AppIs("restarting", "bootout")
    /\ UNCHANGED <<proc, runFile, agent, cli>>

\* installLaunchAgent: bootout, ...
AppUnloads ==
    /\ app.at = "bootout"
    /\ \/ Unload(app)
       \/ /\ BootedOut
          /\ app' = [app EXCEPT !.at = "stale"]
          /\ UNCHANGED <<proc, runFile, agent, cli, recovery, commands>>
\* ... terminateStaleBundledCoreProcesses, chooseAvailablePort, and bootstrap of what it
\* has written; the call fails when the agent was loaded by another meanwhile.
Available(f) == {x \in Ports : \A p \in Pids : f[p].at = "serving" => f[p].port # x}
AppInstalls ==
    LET rest == [p \in Pids |-> IF proc[p].dir = "app" /\ Alive(p)
                               THEN Gone ELSE proc[p]]
        port == IF Available(rest) = {} THEN PreferredPort ELSE Min(Available(rest))
    IN  /\ app.at = "stale"
        /\ proc' = rest
        /\ \/ /\ ~agent.loaded
              /\ agent' = [loaded |-> TRUE, dir |-> "app", port |-> port, pid |-> None]
              /\ app' = [app EXCEPT !.port = port, !.at = "health"]
              /\ UNCHANGED recovery
           \/ /\ agent.loaded
              /\ app' = [status |-> "degraded", port |-> port, at |-> None]
              /\ recovery' = TRUE
              /\ UNCHANGED agent
        /\ UNCHANGED <<runFile, cli, commands>>

\* healthReady: at its port, or at that of the run file.
AppHealthy ==
    /\ app.at = "health" \/ recovery
    /\ \/ /\ HealthReady(app.port)
          /\ app' = [app EXCEPT !.status = "ready", !.at = None]
       \/ /\ ~HealthReady(app.port)
          /\ Serving(runFile["app"])
          /\ app' = [status |-> "ready", port |-> proc[runFile["app"]].port, at |-> None]
    /\ recovery' = FALSE
    /\ UNCHANGED <<proc, runFile, agent, cli, commands>>
AppGivesUp ==
    \/ /\ app.at = "health"
       /\ AppIs("degraded", None)
       /\ recovery' = TRUE
       /\ UNCHANGED <<proc, runFile, agent, cli, commands>>
    \/ /\ recovery
       /\ recovery' = FALSE
       /\ UNCHANGED <<proc, runFile, agent, cli, app, commands>>

Next ==
    \/ \E p \in Pids : Listen(p) \/ ShutDown(p) \/ Crash(p) \/ KeepAlive(p)
    \/ \E t \in Terminals :
           \/ Command(t) \/ StartCommand(t) \/ ServeCommand(t) \/ StatusCommand(t)
           \/ StopCommand(t) \/ Stopping(t) \/ InstallCommand(t) \/ UninstallCommand(t)
    \/ UnloadKills
    \/ Bootstrap \/ RestartCore \/ AppUnloads \/ AppInstalls \/ AppHealthy \/ AppGivesUp

-----------------------------------------------------------------------------
TypeOK ==
    /\ \A p \in Pids : /\ proc[p].at \in {None, "booting", "serving", "closing", "gone"}
                       /\ proc[p].dir \in Dirs
    /\ runFile \in [Dirs -> Pids \cup {None}]
    /\ agent.pid \in Pids \cup {None}
    /\ app.status \in {"off", "starting", "ready", "degraded", "restarting"}

\* A gateway that serves its directory is named by the run file, so that stop, status
\* and the app find it: after failed starts, kills, restarts by launchd and commands in
\* two terminals (run-state.ts, startHttpGateway, stopCommand, installLaunchAgent).
\* Excepted are processes that had the directory at the same time: the last one to come
\* up takes the run file from a core that still serves, on another port, and the end of
\* either clears it.  Each process that comes up alone is named again.
RunFileNamesTheCore ==
    \A p \in Pids : Serving(p) => runFile[proc[p].dir] = p \/ proc[p].beside

\* Two cores on two ports of one directory are not excepted here.  The code does not
\* satisfy it, and no run checks it: README, Deviations.
EveryCoreIsNamed == \A p \in Pids : Serving(p) => runFile[proc[p].dir] = p
=============================================================================
