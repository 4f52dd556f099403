--------------------------- MODULE RunContainers ---------------------------
(***************************************************************************)
(* The Docker objects of the runs: a container, a proxy and a network      *)
(* each, created by prepareProviderNetwork and spawnInRunContainer and     *)
(* removed by removeRunContainer (container.ts, provider.ts,               *)
(* claude-container.ts), as the drivers, the sweep and the daemon's start  *)
(* and close call them (claude.ts, codex.ts, engine.ts, http.ts).          *)
(*                                                                         *)
(* The daemon runs one thread and waits for every docker command it gives, *)
(* so `thread' is what it is doing and each of its steps is one command,   *)
(* which may fail.  Only `docker run', the client of a run's container, is *)
(* left running beside it; what the clients and the containers do is       *)
(* external.  The store is reduced to what decides who calls whom.         *)
(***************************************************************************)
EXTENDS FiniteSets

CONSTANTS
  Runs,
  ClaudeRuns,  \* the runs driven by claude.ts; the others by codex.ts
  NoRun,
  DockerFails, \* whether docker commands may fail by themselves
  MayReplay    \* whether the owner retries submissions

ASSUME ContainerAssumption ==
  /\ ClaudeRuns \subseteq Runs /\ NoRun \notin Runs
  /\ DockerFails \in BOOLEAN /\ MayReplay \in BOOLEAN

VARIABLES
  daemon,   \* down, starting, serving, closing
  thread,   \* what the daemon is doing
  row,      \* new, queued, running, loading, ended
  session,  \* the driver's sessions map has the run
  due,      \* handlers that will spawn the run's provider
  owed,     \* runs whose committed interrupt_provider is not applied yet
  stopping, \* the same of a stop-all
  client,   \* the docker run process: none, starting, created, attached, killed
  box,      \* the container: absent, created, running
  proxy,
  net,
  failed    \* runs that an error left behind: their removal was given up, the loop was cut
            \* before it, or a second spawn failed under their session (history)

docker == <<client, box, proxy, net>>
store  == <<row, due, owed, stopping>>
vars   == <<daemon, thread, row, session, due, owed, stopping, client, box, proxy, net, failed>>

Row    == {"new", "queued", "running", "loading", "ended"}
Client == {"none", "starting", "created", "attached", "killed"}
Step   == {"none", "network", "egress", "connect", "child", "undoProxy", "undoNet",
           "box", "proxy", "net"}
Job    == {"none", "spawn", "end", "all", "command", "sweep", "start", "close"}

TypeOK ==
  /\ daemon \in {"down", "starting", "serving", "closing"}
  /\ thread \in [job : Job, rest : SUBSET Runs, run : Runs \cup {NoRun}, step : Step,
                 hard : BOOLEAN]
  /\ row \in [Runs -> Row]
  /\ session \in [Runs -> BOOLEAN]
  /\ due \subseteq Runs /\ owed \subseteq Runs /\ stopping \in BOOLEAN
  /\ client \in [Runs -> Client]
  /\ box \in [Runs -> {"absent", "created", "running"}]
  /\ proxy \in [Runs -> BOOLEAN] /\ net \in [Runs -> BOOLEAN]
  /\ failed \subseteq Runs

Idle == [job |-> "none", rest |-> {}, run |-> NoRun, step |-> "none", hard |-> FALSE]

\* Between two turns of the event loop of a daemon that serves
Free == daemon = "serving" /\ thread = Idle

\* The thread goes on to interrupt the runs of S one by one
Interrupting(job, S) ==
  [job |-> job, rest |-> S, run |-> NoRun, step |-> "none", hard |-> FALSE]

\* Rows that hold a slot
Live(r) == row[r] \in {"queued", "running"}

Ended(S) == [r \in Runs |-> IF r \in S THEN "ended" ELSE row[r]]

-----------------------------------------------------------------------------
(* Commands and drivers                                                    *)

Submit(r) ==
  /\ Free /\ row[r] = "new"
  /\ row' = [row EXCEPT ![r] = "queued"]
  /\ due' = due \cup {r}
  /\ UNCHANGED <<daemon, thread, session, owed, stopping, docker, failed>>

Load(r) ==
  /\ Free /\ row[r] = "ended"
  /\ row' = [row EXCEPT ![r] = "loading"]
  /\ due' = due \cup {r}
  /\ UNCHANGED <<daemon, thread, session, owed, stopping, docker, failed>>

\* A retried submission whose launch is still pending
Replay(r) ==
  /\ MayReplay /\ Free /\ row[r] = "queued"
  /\ due' = due \cup {r}
  /\ UNCHANGED <<daemon, thread, row, session, owed, stopping, docker, failed>>

\* cancel_run, and resolve_approval that comes too late or denies
Cancel(r) ==
  /\ Free /\ Live(r)
  /\ row' = Ended({r})
  /\ owed' = owed \cup {r}
  /\ UNCHANGED <<daemon, thread, session, due, stopping, docker, failed>>

StopAll ==
  /\ Free
  /\ row' = Ended({r \in Runs : row[r] # "new"})
  /\ stopping' = TRUE
  /\ UNCHANGED <<daemon, thread, session, due, owed, docker, failed>>

\* The provider reports its session
Reports(r) ==
  /\ Free /\ row[r] = "queued" /\ session[r] /\ client[r] = "attached"
  /\ row' = [row EXCEPT ![r] = "running"]
  /\ UNCHANGED <<daemon, thread, session, due, owed, stopping, docker, failed>>

\* The run completes, its driver fails it, or its load ends
SessionEnds(r) ==
  /\ Free /\ session[r]
  /\ row' = Ended({r})
  /\ thread' = Interrupting("end", {r})
  /\ UNCHANGED <<daemon, session, due, owed, stopping, docker, failed>>

\* The exit event of the docker run process
ClientGone(r) ==
  /\ client[r] = "none"
  /\ SessionEnds(r)

\* applyReceiptEffects: one run, or all that have a session
ApplyInterrupt(r) ==
  /\ Free /\ r \in owed
  /\ owed' = owed \ {r}
  /\ thread' = Interrupting("command", {r})
  /\ UNCHANGED <<daemon, row, session, due, stopping, docker, failed>>

ApplyStopAll ==
  /\ Free /\ stopping
  /\ stopping' = FALSE
  /\ thread' = Interrupting("all", {r \in Runs : session[r]})
  /\ UNCHANGED <<daemon, row, session, due, owed, docker, failed>>

\* applySweepEffects: the runs of S are overdue
Sweep(S) ==
  /\ Free /\ \A r \in S : Live(r)
  /\ row' = Ended(S)
  /\ thread' = Interrupting("sweep", S)
  /\ UNCHANGED <<daemon, session, due, owed, stopping, docker, failed>>

-----------------------------------------------------------------------------
(* Spawning: spawnClaudeInContainer and spawnCodexAppServerInContainer     *)

\* spawnClaude goes on for a queued run only, spawnCodex for any active one
Permitted_Any(r) == TRUE

Permitted(r) ==
  row[r] \in {"queued", "loading"} \/ (row[r] = "running" /\ r \notin ClaudeRuns)

BeginSpawn(r) ==
  /\ Free /\ r \in due
  /\ due' = due \ {r}
  /\ thread' = IF Permitted(r)
               THEN [Idle EXCEPT !.job = "spawn", !.run = r, !.step = "network"]
               ELSE Idle
  /\ UNCHANGED <<daemon, row, session, owed, stopping, docker, failed>>

Spawning(r, step) == thread.job = "spawn" /\ thread.run = r /\ thread.step = step

\* The error reaches the driver and the engine, which end the run; claude.ts also
\* interrupts the session that the run may have
SpawnThrows(r) ==
  /\ row' = Ended({r})
  /\ thread' = IF r \in ClaudeRuns /\ session[r] THEN Interrupting("end", {r}) ELSE Idle
  /\ UNCHANGED <<daemon, session, due, owed, stopping>>

To(step) ==
  /\ thread' = [thread EXCEPT !.step = step]
  /\ UNCHANGED <<daemon, row, session, due, owed, stopping>>

\* docker network create, before the try of prepareProviderNetwork
NetworkFails_InTry(r) ==
  /\ Spawning(r, "network") /\ (net[r] \/ DockerFails)
  /\ To("undoProxy")
  /\ UNCHANGED <<docker, failed>>

NetworkFails(r) ==
  /\ Spawning(r, "network") /\ (net[r] \/ DockerFails)
  /\ SpawnThrows(r)
  /\ failed' = IF session[r] /\ r \notin ClaudeRuns THEN failed \cup {r} ELSE failed
  /\ UNCHANGED docker

CreateNetwork(r) ==
  /\ Spawning(r, "network") /\ ~net[r]
  /\ net' = [net EXCEPT ![r] = TRUE]
  /\ To("egress")
  /\ UNCHANGED <<client, box, proxy, failed>>

\* docker run of the proxy and docker network connect
StartProxy(r) ==
  /\ Spawning(r, "egress") /\ ~proxy[r]
  /\ proxy' = [proxy EXCEPT ![r] = TRUE]
  /\ To("connect")
  /\ UNCHANGED <<client, box, net, failed>>

ConnectProxy(r) ==
  /\ Spawning(r, "connect")
  /\ To("child")
  /\ UNCHANGED <<docker, failed>>

\* The catch of prepareProviderNetwork and of spawn...InContainer, the latter for a
\* workspace that cannot be prepared
Undone_Never(r) == SpawnThrows(r) /\ UNCHANGED failed

Undone(r) == To("undoProxy") /\ UNCHANGED failed

PrepareFails(r) ==
  /\ \/ Spawning(r, "egress") /\ (proxy[r] \/ DockerFails)
     \/ Spawning(r, "connect") /\ DockerFails
     \/ Spawning(r, "child") /\ DockerFails
  /\ Undone(r)
  /\ UNCHANGED docker

\* The child process is started and the session entered in one stretch
SpawnChild(r) ==
  /\ Spawning(r, "child")
  /\ client' = [client EXCEPT ![r] = "starting"]
  /\ session' = [session EXCEPT ![r] = TRUE]
  /\ thread' = Idle
  /\ UNCHANGED <<daemon, store, box, proxy, net, failed>>

-----------------------------------------------------------------------------
(* Removal: removeRunContainer and, after a failed spawn, removeProvider-  *)
(* Network alone                                                           *)

\* interruptClaude and interruptCodex of the next run: a session is dropped and its
\* stop removes the objects; without one interruptCodex removes them, except for a
\* stop-all and in the drivers themselves
NextRun(r) ==
  /\ thread.run = NoRun /\ r \in thread.rest
  /\ session' = [session EXCEPT ![r] = FALSE]
  /\ client' = [client EXCEPT ![r] = IF session[r] /\ @ # "none" THEN "killed" ELSE @]
  /\ thread' = IF session[r] \/ thread.job \notin {"end", "all"}
               THEN [thread EXCEPT !.rest = @ \ {r}, !.run = r, !.step = "box",
                                   !.hard = ~session[r]]
               ELSE [thread EXCEPT !.rest = @ \ {r}]
  /\ UNCHANGED <<daemon, store, box, proxy, net, failed>>

Removing(r, step) == thread.job # "spawn" /\ thread.run = r /\ thread.step = step

\* The next command of the removal
Onwards(step) ==
  /\ thread' = [thread EXCEPT !.step = step]
  /\ UNCHANGED <<daemon, store, session, failed>>

\* interruptCodex follows interruptClaude, which swallows its errors, and finds no session
SecondRemoval(r) == ~thread.hard /\ r \in ClaudeRuns /\ thread.job \notin {"end", "all"}

Removed(r) ==
  /\ thread' = IF SecondRemoval(r)
               THEN [thread EXCEPT !.step = "box", !.hard = TRUE]
               ELSE [thread EXCEPT !.step = "none", !.run = NoRun, !.hard = FALSE]
  /\ failed' = failed \ {r}
  /\ UNCHANGED <<daemon, store, session>>

RemovalThrows_Logged(r) ==
  /\ failed' = failed \cup {r}
  /\ thread' = [thread EXCEPT !.step = "none", !.run = NoRun, !.hard = FALSE]
  /\ UNCHANGED <<daemon, store, session>>

\* An error of the removal: the stop of a session is caught and logged, any other ends
\* the loop, and with it a start or a close
RemovalThrows(r) ==
  /\ failed' = failed \cup {r} \cup
       (IF thread.hard THEN {q \in thread.rest : session[q]} ELSE {})
  /\ IF thread.hard
     THEN /\ thread' = Idle
          /\ daemon' = IF thread.job \in {"start", "close"} THEN "down" ELSE daemon
     ELSE /\ thread' = IF SecondRemoval(r)
                       THEN [thread EXCEPT !.step = "box", !.hard = TRUE]
                       ELSE [thread EXCEPT !.step = "none", !.run = NoRun]
          /\ UNCHANGED daemon
  /\ UNCHANGED <<store, session>>

\* inspect, rm -f and inspect again
RemoveBox(r) ==
  /\ Removing(r, "box")
  /\ box' = [box EXCEPT ![r] = "absent"]
  /\ client' = [client EXCEPT ![r] = IF @ \in {"created", "attached"} THEN "none" ELSE @]
  /\ Onwards("proxy")
  /\ UNCHANGED <<proxy, net>>

BoxFails(r) ==
  /\ Removing(r, "box") /\ DockerFails
  /\ \/ UNCHANGED box
     \/ box' = [box EXCEPT ![r] = "absent"]
  /\ RemovalThrows(r)
  /\ UNCHANGED <<client, proxy, net>>

RemoveProxy(r) ==
  /\ proxy' = [proxy EXCEPT ![r] = FALSE]
  /\ \/ Removing(r, "proxy") /\ Onwards("net")
     \/ Spawning(r, "undoProxy") /\ To("undoNet") /\ UNCHANGED failed
  /\ UNCHANGED <<client, box, net>>

ProxyFails(r) ==
  /\ DockerFails
  /\ \/ Removing(r, "proxy") /\ RemovalThrows(r)
     \/ Spawning(r, "undoProxy") /\ SpawnThrows(r) /\ failed' = failed \cup {r}
  /\ UNCHANGED docker

\* docker network rm refuses while something is attached
RemoveNet(r) ==
  /\ box[r] # "running" /\ ~proxy[r]
  /\ net' = [net EXCEPT ![r] = FALSE]
  /\ \/ Removing(r, "net") /\ Removed(r)
     \/ Spawning(r, "undoNet") /\ SpawnThrows(r) /\ failed' = failed \ {r}
  /\ UNCHANGED <<client, box, proxy>>

NetFails(r) ==
  /\ DockerFails \/ (net[r] /\ box[r] = "running")
  /\ \/ Removing(r, "net") /\ RemovalThrows(r)
     \/ Spawning(r, "undoNet") /\ SpawnThrows(r) /\ failed' = failed \cup {r}
  /\ UNCHANGED docker

\* The loop is through: a start serves, a close ends
LoopEnds ==
  /\ thread.job \notin {"none", "spawn"} /\ thread.run = NoRun /\ thread.rest = {}
  /\ thread' = Idle
  /\ daemon' = IF thread.job = "start" THEN "serving"
               ELSE IF thread.job = "close" THEN "down" ELSE daemon
  /\ UNCHANGED <<store, session, docker, failed>>

-----------------------------------------------------------------------------
(* The daemon's life                                                       *)

Persisted == {r \in Runs : row[r] # "new"}

\* startServer: interruptActiveRuns, then the clean-up of every run of the store
Start ==
  /\ daemon = "down"
  /\ daemon' = "starting"
  /\ row' = Ended(Persisted)
  /\ session' = [r \in Runs |-> FALSE]
  /\ due' = {} /\ owed' = {} /\ stopping' = FALSE
  /\ thread' = Interrupting("start", Persisted)
  /\ UNCHANGED <<docker, failed>>

\* close of the running server
Close ==
  /\ Free
  /\ daemon' = "closing"
  /\ row' = Ended(Persisted)
  /\ thread' = Interrupting("close", Persisted)
  /\ UNCHANGED <<session, due, owed, stopping, docker, failed>>

\* The process dies; its docker clients go on
Crash ==
  /\ daemon # "down"
  /\ daemon' = "down"
  /\ thread' = Idle
  /\ UNCHANGED <<store, session, docker, failed>>

-----------------------------------------------------------------------------
(* External: docker run and the containers                                 *)

\* A killed client dies, but what it has asked for already may still be done
ClientCreates(r) ==
  /\ client[r] \in {"starting", "killed"} /\ box[r] = "absent"
  /\ box' = [box EXCEPT ![r] = "created"]
  /\ client' = [client EXCEPT ![r] = IF @ = "starting" THEN "created" ELSE "none"]
  /\ UNCHANGED <<daemon, thread, store, session, proxy, net, failed>>

\* Without its network the container cannot start and --rm removes it
ClientStarts(r) ==
  /\ client[r] = "created"
  /\ IF net[r]
     THEN box' = [box EXCEPT ![r] = "running"] /\ client' = [client EXCEPT ![r] = "attached"]
     ELSE box' = [box EXCEPT ![r] = "absent"] /\ client' = [client EXCEPT ![r] = "none"]
  /\ UNCHANGED <<daemon, thread, store, session, proxy, net, failed>>

\* The name is taken, docker fails, or a killed client is gone
ClientDies(r) ==
  /\ \/ client[r] = "killed"
     \/ client[r] = "starting" /\ (box[r] # "absent" \/ DockerFails)
  /\ client' = [client EXCEPT ![r] = "none"]
  /\ UNCHANGED <<daemon, thread, store, session, box, proxy, net, failed>>

\* The provider process ends and --rm removes its container
ProviderExits(r) ==
  /\ box[r] = "running"
  /\ box' = [box EXCEPT ![r] = "absent"]
  /\ client' = [client EXCEPT ![r] = "none"]
  /\ UNCHANGED <<daemon, thread, store, session, proxy, net, failed>>

-----------------------------------------------------------------------------
Init ==
  /\ daemon = "down" /\ thread = Idle
  /\ row = [r \in Runs |-> "new"]
  /\ session = [r \in Runs |-> FALSE]
  /\ due = {} /\ owed = {} /\ stopping = FALSE
  /\ client = [r \in Runs |-> "none"]
  /\ box = [r \in Runs |-> "absent"]
  /\ proxy = [r \in Runs |-> FALSE] /\ net = [r \in Runs |-> FALSE]
  /\ failed = {}

SpawnStep ==
  \E r \in Runs :
    \/ NetworkFails(r) \/ CreateNetwork(r) \/ StartProxy(r) \/ ConnectProxy(r)
    \/ PrepareFails(r) \/ SpawnChild(r)

RemovalStep ==
  \/ \E r \in Runs :
       \/ NextRun(r)
       \/ RemoveBox(r) \/ BoxFails(r) \/ RemoveProxy(r) \/ ProxyFails(r)
       \/ RemoveNet(r) \/ NetFails(r)
  \/ LoopEnds

Docker ==
  \E r \in Runs : ClientCreates(r) \/ ClientStarts(r) \/ ClientDies(r) \/ ProviderExits(r)

Next ==
  \/ \E r \in Runs :
       \/ Submit(r) \/ Load(r) \/ Replay(r) \/ Cancel(r) \/ Reports(r) \/ SessionEnds(r)
       \/ ClientGone(r) \/ ApplyInterrupt(r) \/ BeginSpawn(r)
  \/ StopAll \/ ApplyStopAll
  \/ \E S \in SUBSET Runs \ {{}} : Sweep(S)
  \/ SpawnStep \/ RemovalStep
  \/ Start \/ Close \/ Crash
  \/ Docker

Spec == Init /\ [][Next]_vars

-----------------------------------------------------------------------------
(* Properties                                                              *)

\* The network and the proxy of a live session are never taken away under it, neither by
\* the removals of earlier sessions of its run nor by a second spawn that fails
\* (provider.ts:111-157; container.ts:231-260).
NetworkServesSession == \A r \in Runs : session[r] => net[r] /\ proxy[r]

\* Whatever a run leaves behind once its session is gone, some removal of it was given up
\* with an error; nothing is just forgotten (container.ts:113-121; claude-container.ts:86-106).
\* A container that a killed client creates late is left out: it never starts, and only the
\* next removal of its run finds it.
NothingForgotten ==
  Free => \A r \in Runs :
    ~session[r] /\ (box[r] = "running" \/ proxy[r] \/ net[r]) => r \in failed

\* A daemon that serves after a restart has removed every object of the runs it knows,
\* and one that cannot does not serve (http.ts:128-133, 304-306;
\* docs/provider-setup.md:39).
CleanAtStart ==
  [][daemon = "starting" /\ daemon' = "serving" =>
       \A r \in Persisted : box'[r] # "running" /\ ~proxy'[r] /\ ~net'[r]]_vars

\* No session outlives its run, once the interrupts of committed commands are applied, but
\* for the ways in which an error leaves one behind that `failed' lists ("Terminal Run
\* cleanup ... remove owned Run containers", docs/provider-setup.md:39; http.ts:118-126).
EndedHasNoSession ==
  Free /\ ~stopping => \A r \in Runs : session[r] /\ row[r] = "ended" => r \in owed \cup failed

=============================================================================
