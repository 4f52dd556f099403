--------------------------- MODULE FixtureRuntime ---------------------------
(***************************************************************************)
(* `verify launch' (cli.ts, verify.ts): a launcher on the host starts the  *)
(* fixture daemon (fixture-daemon.ts) in a container without a network and *)
(* relays loopback connections into it, one `docker exec' each             *)
(* (fixture-runtime.ts).                                                   *)
(*                                                                         *)
(* The launcher waits for docker, for exits and for timers with promises,  *)
(* so connections, the docker processes, the container and the daemon in   *)
(* it move between any two of its steps.  The one tie between a launcher   *)
(* that is gone and its container is the container's standard input.       *)
(***************************************************************************)
EXTENDS FiniteSets, Naturals

CONSTANTS
  Conns,         \* connections to the relay
  MaxRelays,
  DockerMayFail, \* whether docker commands may fail by themselves
  MayHang        \* whether the fixture daemon may stop reacting

ASSUME FixtureAssumption ==
  /\ IsFiniteSet(Conns) /\ MaxRelays \in Nat
  /\ DockerMayFail \in BOOLEAN /\ MayHang \in BOOLEAN

VARIABLES
  launcher,  \* what launchVerify and the handle it returns are doing, or how they ended
  step,      \* what they wait for
  held,      \* launchVerify holds the container
  attached,  \* the relay has its id
  relay,     \* open, closing, closed
  relays,    \* the relay's bookkeeping of its connections
  socket,    \* the accepted connections that are open
  child,     \* their docker exec processes: none, running, killed
  stdin,     \* the launcher holds the container's standard input open
  runner,    \* the docker run process: starting, created, attached, exited
  container, \* the container: absent, created, running, exited
  fixture    \* the fixture daemon: boot, listening, ready, closing, hung

relayVars     == <<attached, relay, relays, socket, child>>
containerVars == <<runner, container, fixture>>
fixtureVars   == <<launcher, step, held, stdin, relayVars, containerVars>>

Busy == {"starting", "cleaning", "probing", "failing", "up", "stopping"}
Over == {"failed", "stopped", "unstopped", "crashed"}

FixtureTypeOK ==
  /\ launcher \in Busy \cup Over
  /\ step \in {"none", "wait", "stop", "seen", "force", "reap", "relay", "verify"}
  /\ held \in BOOLEAN /\ attached \in BOOLEAN /\ stdin \in BOOLEAN
  /\ relay \in {"open", "closing", "closed"}
  /\ relays \subseteq Conns
  /\ socket \in [Conns -> BOOLEAN]
  /\ child \in [Conns -> {"none", "running", "killed"}]
  /\ runner \in {"starting", "created", "attached", "exited"}
  /\ container \in {"absent", "created", "running", "exited"}
  /\ fixture \in {"boot", "listening", "ready", "closing", "hung"}

FixtureInit ==
  /\ launcher = "starting" /\ step = "none"
  /\ held = FALSE /\ attached = FALSE /\ stdin = TRUE
  /\ relay = "open" /\ relays = {}
  /\ socket = [c \in Conns |-> FALSE] /\ child = [c \in Conns |-> "none"]
  /\ runner = "starting" /\ container = "absent" /\ fixture = "boot"

-----------------------------------------------------------------------------
(* The relay                                                               *)

Execs == {c \in Conns : child[c] # "none"}

\* Sockets are destroyed and processes sent SIGTERM; the bookkeeping waits for their close
Dispose(S) ==
  /\ socket' = [c \in Conns |-> socket[c] /\ c \notin S]
  /\ child' = [c \in Conns |-> IF c \in S /\ child[c] = "running" THEN "killed" ELSE child[c]]

Accepts == relay = "open" /\ attached /\ Cardinality(relays) < MaxRelays

\* A connection that is not accepted is destroyed at once
Connect(c) ==
  /\ Accepts
  /\ ~socket[c] /\ child[c] = "none" /\ c \notin relays
  /\ socket' = [socket EXCEPT ![c] = TRUE]
  /\ child' = [child EXCEPT ![c] = "running"]
  /\ relays' = relays \cup {c}
  /\ UNCHANGED <<launcher, step, held, stdin, attached, relay, containerVars>>

\* The peer closes, or one of the pipes fails
SocketEnds(c) ==
  /\ socket[c] /\ Dispose({c})
  /\ UNCHANGED <<launcher, step, held, stdin, attached, relay, relays, containerVars>>

\* The exec process has closed, however it came to that
ChildEnds(c) ==
  /\ child[c] # "none"
  /\ child' = [child EXCEPT ![c] = "none"]
  /\ socket' = [socket EXCEPT ![c] = FALSE]
  /\ relays' = relays \ {c}
  /\ UNCHANGED <<launcher, step, held, stdin, attached, relay, containerVars>>

\* The first call of close; the later ones get its promise
Closes ==
  \/ /\ relay = "open"
     /\ relay' = "closing" /\ attached' = FALSE
     /\ Dispose(relays) /\ UNCHANGED relays
  \/ relay # "open" /\ UNCHANGED relayVars

\* Mutant: close waits for the sockets only
RelayClosed_Sockets ==
  /\ relay = "closing"
  /\ \A c \in Conns : ~socket[c]
  /\ relay' = "closed"
  /\ UNCHANGED <<launcher, step, held, stdin, attached, relays, socket, child, containerVars>>

RelayClosed ==
  /\ relay = "closing"
  /\ relays = {} /\ \A c \in Conns : ~socket[c]
  /\ relay' = "closed"
  /\ UNCHANGED <<launcher, step, held, stdin, attached, relays, socket, child, containerVars>>

-----------------------------------------------------------------------------
(* Launching                                                               *)

\* inspectOwned: docker knows the container of this launch
Present == container # "absent"

\* ownedContainerIsRunning
IsRunning == container = "running"

Found ==
  /\ launcher = "starting" /\ Present
  /\ launcher' = "probing" /\ held' = TRUE /\ attached' = TRUE
  /\ UNCHANGED <<step, stdin, relay, relays, socket, child, containerVars>>

\* The deadline passes, docker fails, or the docker run process has exited
NotFound ==
  /\ launcher = "starting"
  /\ launcher' = "cleaning" /\ step' = "wait" /\ stdin' = FALSE
  /\ UNCHANGED <<held, relayVars, containerVars>>

\* launchVerify's catch: it closes the relay first
Fails ==
  /\ launcher' = "failing" /\ step' = "relay"
  /\ Closes /\ UNCHANGED <<held, stdin, containerVars>>

\* The one second, or the exit it waits for, is over
Cleans ==
  /\ launcher = "cleaning" /\ step = "wait"
  /\ \/ /\ Present /\ step' = "stop"
        /\ UNCHANGED <<launcher, held, stdin, relayVars, containerVars>>
     \/ (~Present \/ DockerMayFail) /\ Fails

\* /v1/health answers through the relay
Healthy(c) ==
  /\ launcher = "probing" /\ step = "none"
  /\ socket[c] /\ child[c] = "running"
  /\ container = "running" /\ fixture \in {"listening", "ready"}
  /\ step' = "verify"
  /\ UNCHANGED <<launcher, held, stdin, relayVars, containerVars>>

\* The daemon has written its files and its container still runs
Verified == fixture \in {"ready", "closing"} /\ IsRunning

Launched ==
  /\ launcher = "probing" /\ step = "verify" /\ Verified
  /\ launcher' = "up" /\ step' = "none"
  /\ UNCHANGED <<held, stdin, relayVars, containerVars>>

NotLaunched ==
  /\ launcher = "probing"
  /\ step = "none" \/ ~Verified \/ DockerMayFail
  /\ Fails

\* Mutant: The relay is not told that the container has gone
ExitedHook_Missing == FALSE

\* The docker run process of the container has exited: launchVerify closes the relay
ExitedHook ==
  /\ held /\ launcher \in Busy /\ runner = "exited" /\ relay = "open"
  /\ Closes
  /\ UNCHANGED <<launcher, step, held, stdin, containerVars>>

-----------------------------------------------------------------------------
(* Stopping                                                                *)

\* SIGINT or SIGTERM once the launcher handles them
Signal ==
  /\ launcher = "up"
  /\ launcher' = "stopping" /\ step' = "relay"
  /\ Closes /\ UNCHANGED <<held, stdin, containerVars>>

\* The relay is closed: on to the container, if there is one
RelayAwaited ==
  /\ step = "relay" /\ relay = "closed"
  /\ IF held THEN stdin' = FALSE /\ step' = "wait" /\ UNCHANGED launcher
             ELSE launcher' = "failed" /\ step' = "none" /\ UNCHANGED stdin
  /\ UNCHANGED <<held, relayVars, containerVars>>

\* Five seconds, or the exit of the docker run process
StopWaited ==
  /\ launcher \in {"failing", "stopping"} /\ step = "wait"
  /\ step' = IF Present THEN "stop" ELSE "reap"
  /\ UNCHANGED <<launcher, held, stdin, relayVars, containerVars>>

\* docker stop, whose failures are caught
DockerStop ==
  /\ step = "stop"
  /\ \/ container = "running" /\ container' = "exited"
     \/ (container # "running" \/ DockerMayFail) /\ UNCHANGED container
  /\ step' = "seen"
  /\ UNCHANGED <<launcher, held, stdin, relayVars, runner, fixture>>

StopSeen ==
  /\ step = "seen"
  /\ step' = IF Present THEN "force" ELSE "reap"
  /\ UNCHANGED <<launcher, held, stdin, relayVars, containerVars>>

DockerRemove ==
  /\ step = "force"
  /\ container' = "absent" /\ step' = "reap"
  /\ UNCHANGED <<launcher, held, stdin, relayVars, runner, fixture>>

\* An inspection, the removal, or one of a container that docker is removing already
RemovalFails ==
  /\ \/ DockerMayFail /\ step \in {"seen", "force"}
     \/ DockerMayFail /\ step = "wait" /\ launcher # "cleaning"
     \/ step = "force" /\ container \in {"exited", "absent"}
  /\ IF launcher = "cleaning"
     THEN Fails
     ELSE /\ launcher' = IF launcher = "stopping" THEN "unstopped" ELSE "failed"
          /\ step' = "none"
          /\ UNCHANGED <<held, stdin, relayVars, containerVars>>

\* The docker run process has exited or is sent SIGTERM and given two more seconds
Reaps ==
  /\ step = "reap"
  /\ IF launcher = "cleaning"
     THEN Fails
     ELSE /\ launcher' = IF launcher = "stopping" THEN "stopped" ELSE "failed"
          /\ step' = "none"
          /\ UNCHANGED <<held, stdin, relayVars, containerVars>>

\* The launcher is killed; a signal before it handles them does that too
LauncherCrashes ==
  /\ launcher \in Busy
  /\ launcher' = "crashed" /\ step' = "none" /\ stdin' = FALSE
  /\ attached' = FALSE /\ relay' = "closed" /\ relays' = {}
  /\ Dispose(Conns)
  /\ UNCHANGED <<held, containerVars>>

-----------------------------------------------------------------------------
(* The docker run process, the container and the daemon in it              *)

RunnerCreates ==
  /\ runner = "starting"
  /\ runner' = "created" /\ container' = "created"
  /\ UNCHANGED <<launcher, step, held, stdin, relayVars, fixture>>

RunnerStarts ==
  /\ runner = "created" /\ container = "created"
  /\ runner' = "attached" /\ container' = "running"
  /\ UNCHANGED <<launcher, step, held, stdin, relayVars, fixture>>

\* Its container has ended or was removed before it started
RunnerExits ==
  /\ \/ runner = "attached" /\ container # "running"
     \/ runner = "created" /\ container = "absent"
  /\ runner' = "exited"
  /\ UNCHANGED <<launcher, step, held, stdin, relayVars, container, fixture>>

RunnerDies ==
  /\ runner # "exited" /\ runner' = "exited"
  /\ UNCHANGED <<launcher, step, held, stdin, relayVars, container, fixture>>

\* docker run --rm
AutoRemoved ==
  /\ container = "exited" /\ container' = "absent"
  /\ UNCHANGED <<launcher, step, held, stdin, relayVars, runner, fixture>>

DaemonMoves(from, to) ==
  /\ container = "running" /\ fixture = from /\ fixture' = to
  /\ UNCHANGED <<launcher, step, held, stdin, relayVars, runner, container>>

DaemonListens == DaemonMoves("boot", "listening")

\* It has written its endpoint, pid and profile and listens to its standard input
DaemonReady == DaemonMoves("listening", "ready")

Eof == ~stdin \/ runner = "exited"

DaemonStops == Eof /\ DaemonMoves("ready", "closing")

DaemonHangs == MayHang /\ \E from \in {"ready", "closing"} : DaemonMoves(from, "hung")

ContainerEnds ==
  /\ container = "running" /\ container' = "exited"
  /\ UNCHANGED <<launcher, step, held, stdin, relayVars, runner, fixture>>

\* server.close waits for the connections
DaemonExits == fixture = "closing" /\ (\A c \in Conns : child[c] # "running") /\ ContainerEnds

-----------------------------------------------------------------------------
Launcher ==
  \/ Found \/ NotFound \/ Cleans \/ Launched \/ NotLaunched \/ ExitedHook
  \/ RelayAwaited \/ StopWaited \/ DockerStop \/ StopSeen \/ DockerRemove \/ RemovalFails
  \/ Reaps \/ RelayClosed

FixtureNext ==
  \/ Launcher
  \/ \E c \in Conns : Healthy(c) \/ Connect(c) \/ SocketEnds(c) \/ ChildEnds(c)
  \/ Signal \/ LauncherCrashes
  \/ RunnerCreates \/ RunnerStarts \/ RunnerExits \/ RunnerDies
  \/ AutoRemoved \/ ContainerEnds
  \/ DaemonListens \/ DaemonReady \/ DaemonStops \/ DaemonHangs \/ DaemonExits

FixtureSpec == FixtureInit /\ [][FixtureNext]_fixtureVars

\* The launcher's own steps, docker's answers and timers included; the processes that were
\* told to end and those whose container has ended; docker getting on with a container; and
\* the daemon, as long as it does not hang.  Nobody has to connect, signal or fail.
Fairness ==
  /\ WF_fixtureVars(Launcher)
  /\ WF_fixtureVars(ExitedHook) /\ WF_fixtureVars(RelayClosed)
  /\ \A c \in Conns : WF_fixtureVars(ChildEnds(c) /\ (child[c] = "killed" \/ container # "running"))
  /\ WF_fixtureVars(RunnerCreates) /\ WF_fixtureVars(RunnerStarts) /\ WF_fixtureVars(RunnerExits)
  /\ WF_fixtureVars(AutoRemoved)
  /\ WF_fixtureVars(DaemonListens) /\ WF_fixtureVars(DaemonReady)
  /\ WF_fixtureVars(DaemonStops) /\ WF_fixtureVars(DaemonExits)

FairFixtureSpec == FixtureSpec /\ Fairness

-----------------------------------------------------------------------------
(* Properties                                                              *)

\* There are never more docker exec processes than the relay allows connections, the ones
\* that were told to end and have not yet included (fixture-runtime.ts:337-404).
ExecsBounded == Cardinality(Execs) <= MaxRelays

\* When stop is fulfilled nothing of the launch is left: no container, no open connection and
\* no docker exec, whatever died, hung, connected or exited while it waited
\* (verify.ts:117-125; fixture-runtime.ts:298-315, 421-438).
StoppedLeavesNothing ==
  launcher = "stopped" =>
    container = "absent" /\ Execs = {} /\ \A c \in Conns : ~socket[c]

\* The relay keeps its limit, and a launch that was stopped has left nothing, with sockets
\* that close before their docker exec processes do (fixture-runtime.ts:291-438).
NothingEscapes == ExecsBounded /\ StoppedLeavesNothing

\* Every wait of the launcher's cleanup ends, with docker failing and a daemon that hangs:
\* the relay's close waits for sockets and processes that it has told to end itself
\* (verify.ts:111-125; fixture-runtime.ts:291-315, 421-438).
StopSettles == launcher \in {"cleaning", "failing", "stopping"} ~> launcher \in Over

\* A docker run process that dies after it has created its container and before it starts it
NeverStarted == container = "created" /\ runner = "exited"

\* However a launch ends, in a crash, with a docker that cannot be reached, or before the
\* docker run process it has started gets to create the container, no container goes on:
\* the daemon in it, unless it hangs, ends with its standard input (fixture-daemon.ts:76-94).
LeavesNothing ==
  [](fixture # "hung") /\ <>(launcher \in Over) => <>[](container = "absent" \/ NeverStarted)

\* Once the docker run process has exited or was killed, the container ends and so do the
\* connections into it, also those that would keep the daemon waiting, unless the daemon hangs
\* (verify.ts:105; fixture-daemon.ts:76-94).
SupervisorGoneEndsAll ==
  [](fixture # "hung") /\ <>(runner = "exited") => <>[](container # "running" /\ Execs = {})

\* Every wait ends and every launch ends its container (verify.ts:105-125;
\* fixture-runtime.ts:291-438; fixture-daemon.ts:76-94).
LaunchesEnd == StopSettles /\ LeavesNothing /\ SupervisorGoneEndsAll

=============================================================================
