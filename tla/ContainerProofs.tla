--------------------------- MODULE ContainerProofs ---------------------------
(***************************************************************************)
(* The safety invariants of what Agentis starts in Docker: the objects of  *)
(* the runs, for any number of them (RunContainers), and the container of  *)
(* a verification launch with its relay (FixtureRuntime).                  *)
(*                                                                         *)
(* What makes the first inductive says what the daemon's one thread has in *)
(* hand: for which run it works, what of that run is made or gone already, *)
(* and which runs it still has to come to.                                 *)
(***************************************************************************)
EXTENDS RunContainers, FixtureRuntime, FiniteSetTheorems, TLAPS

\* The thread does what the daemon's phase allows, for a run that exists.
ThreadFits ==
  /\ daemon = "down" => thread = Idle
  /\ daemon = "starting" <=> thread.job = "start"
  /\ daemon = "closing" <=> thread.job = "close"
  /\ thread.job = "none" => thread = Idle
  /\ thread.job = "spawn" =>
       /\ thread.run \in Runs /\ thread.rest = {}
       /\ thread.step \in {"network", "egress", "connect", "child", "undoProxy", "undoNet"}
       /\ row[thread.run] \notin {"new", "ended"}
  /\ thread.job \notin {"none", "spawn"} =>
       /\ thread.step \in {"none", "box", "proxy", "net"}
       /\ thread.run = NoRun <=> thread.step = "none"

\* The run in hand has no session, once its network is made or its removal has begun.
Handles(r) == thread.run = r /\ (thread.job = "spawn" => thread.step # "network")

HandsFit ==
  /\ \A r \in Runs : Handles(r) => ~session[r]
  /\ thread.job = "spawn" /\ thread.step \in {"egress", "connect", "child"} => net[thread.run]
  /\ thread.job = "spawn" /\ thread.step \in {"connect", "child"} => proxy[thread.run]

\* A daemon that starts has no session yet; one that serves comes to each session whose
\* run has ended.
SessionsFit ==
  /\ daemon = "starting" => \A r \in Runs : ~session[r]
  /\ daemon = "serving" /\ ~stopping => \A r \in Runs :
       session[r] /\ row[r] = "ended" => r \in owed \cup failed \cup thread.rest

\* What a run without a session has left is known: the thread works on it, or will at a
\* start, or an error has been recorded.
Kept ==
  /\ \A r \in Runs : row[r] = "new" => ~net[r] /\ ~proxy[r] /\ box[r] # "running" /\ ~session[r]
  /\ daemon \in {"starting", "serving"} => \A r \in Runs :
       ~session[r] /\ (box[r] = "running" \/ proxy[r] \/ net[r]) =>
         r \in failed \/ Handles(r) \/ (r \in thread.rest /\ thread.job = "start")

\* A start stops at its first error, so whatever is there of a run, it still comes to it.
StartFits ==
  daemon = "starting" =>
    /\ thread.run # NoRun => thread.hard
    /\ \A r \in Runs : box[r] = "running" \/ proxy[r] \/ net[r] =>
         thread.run = r \/ r \in thread.rest

\* What a removal that fails leaves: the loop is cut, the removal is tried a second time, or
\* the thread goes on to the next run.
LEMMA GivesUp ==
  ASSUME TypeOK, NEW r \in Runs, thread.run = r, RemovalThrows(r)
  PROVE  /\ UNCHANGED <<row, session, due, owed, stopping>>
         /\ \/ /\ thread' = Idle
               /\ daemon' = IF thread.job \in {"start", "close"} THEN "down" ELSE daemon
               /\ failed' = failed \cup {r} \cup {q \in thread.rest : session[q]}
            \/ /\ ~thread.hard
               /\ thread' = [job |-> thread.job, rest |-> thread.rest, run |-> r,
                             step |-> "box", hard |-> TRUE]
               /\ daemon' = daemon /\ failed' = failed \cup {r}
            \/ /\ ~thread.hard
               /\ thread' = [job |-> thread.job, rest |-> thread.rest, run |-> NoRun,
                             step |-> "none", hard |-> thread.hard]
               /\ daemon' = daemon /\ failed' = failed \cup {r}
<1>1. UNCHANGED <<row, session, due, owed, stopping>>
  BY DEF RemovalThrows, store
<1>2. thread = [job |-> thread.job, rest |-> thread.rest, run |-> r, step |-> thread.step,
                hard |-> thread.hard]
  BY DEF TypeOK
<1>3. CASE thread.hard
  BY <1>1, <1>3 DEF RemovalThrows
<1>4. CASE ~thread.hard /\ SecondRemoval(r)
  <2>1. thread' = [thread EXCEPT !.step = "box", !.hard = TRUE] /\ daemon' = daemon
    BY <1>4 DEF RemovalThrows
  <2>2. failed' = failed \cup {r}
    BY <1>4 DEF RemovalThrows
  <2>3. thread' = [job |-> thread.job, rest |-> thread.rest, run |-> r, step |-> "box",
                   hard |-> TRUE]
    BY <1>2, <2>1
  <2> QED BY <1>1, <1>4, <2>1, <2>2, <2>3
<1>5. CASE ~thread.hard /\ ~SecondRemoval(r)
  <2>1. thread' = [thread EXCEPT !.step = "none", !.run = NoRun] /\ daemon' = daemon
    BY <1>5 DEF RemovalThrows
  <2>2. failed' = failed \cup {r}
    BY <1>5 DEF RemovalThrows
  <2>3. thread' = [job |-> thread.job, rest |-> thread.rest, run |-> NoRun,
                   step |-> "none", hard |-> thread.hard]
    BY <1>2, <2>1
  <2> QED BY <1>1, <1>5, <2>1, <2>2, <2>3
<1>. QED BY <1>3, <1>4, <1>5

\* The same, for the type of the thread.
LEMMA GivesUpTyped ==
  ASSUME TypeOK, NEW r \in Runs, thread.run = r, RemovalThrows(r)
  PROVE  thread' \in [job : Job, rest : SUBSET Runs, run : Runs \cup {NoRun}, step : Step,
                      hard : BOOLEAN]
<1>1. thread.job \in Job /\ thread.rest \in SUBSET Runs /\ thread.hard \in BOOLEAN
  BY DEF TypeOK
<1>2. {"none", "box"} \subseteq Step /\ TRUE \in BOOLEAN
  BY DEF Step
<1>3. Idle \in [job : Job, rest : SUBSET Runs, run : Runs \cup {NoRun}, step : Step,
                hard : BOOLEAN]
  BY DEF Idle, Job, Step
<1>4. CASE thread' = Idle
  BY <1>3, <1>4
<1>5. CASE thread' = [job |-> thread.job, rest |-> thread.rest, run |-> r, step |-> "box",
                      hard |-> TRUE]
  BY <1>1, <1>2, <1>5
<1>6. CASE thread' = [job |-> thread.job, rest |-> thread.rest, run |-> NoRun,
                      step |-> "none", hard |-> thread.hard]
  BY <1>1, <1>2, <1>6
<1>. QED BY GivesUp, <1>4, <1>5, <1>6

-----------------------------------------------------------------------------
(* Every step keeps each part of the invariant                             *)

\* The types.
LEMMA TypeStep == TypeOK /\ [Next]_vars => TypeOK'
<1> SUFFICES ASSUME TypeOK, [Next]_vars PROVE TypeOK'
  OBVIOUS
<1> USE DEF TypeOK, Idle, Free, Job, Step, Row, Client, store, docker
<1>1. ASSUME NEW r \in Runs, Submit(r) PROVE TypeOK'
  BY <1>1 DEF Submit
<1>2. ASSUME NEW r \in Runs, Load(r) PROVE TypeOK'
  BY <1>2 DEF Load
<1>3. ASSUME NEW r \in Runs, Replay(r) PROVE TypeOK'
  BY <1>3 DEF Replay
<1>4. ASSUME NEW r \in Runs, Cancel(r) PROVE TypeOK'
  BY <1>4 DEF Cancel, Live, Ended
<1>5. ASSUME NEW r \in Runs, Reports(r) PROVE TypeOK'
  BY <1>5 DEF Reports
<1>6. ASSUME NEW r \in Runs, SessionEnds(r) \/ ClientGone(r) PROVE TypeOK'
  <2>1. SessionEnds(r)
    BY <1>6 DEF ClientGone
  <2> QED BY <2>1 DEF SessionEnds, Interrupting, Ended
<1>7. ASSUME NEW r \in Runs, ApplyInterrupt(r) PROVE TypeOK'
  BY <1>7 DEF ApplyInterrupt, Interrupting
<1>8. ASSUME NEW r \in Runs, BeginSpawn(r) PROVE TypeOK'
  BY <1>8 DEF BeginSpawn, Permitted
<1>9. ASSUME StopAll PROVE TypeOK'
  BY <1>9 DEF StopAll, Ended
<1>10. ASSUME ApplyStopAll PROVE TypeOK'
  BY <1>10 DEF ApplyStopAll, Interrupting
<1>11. ASSUME NEW S \in SUBSET Runs, Sweep(S) PROVE TypeOK'
  BY <1>11 DEF Sweep, Live, Interrupting, Ended
<1>12. ASSUME NEW r \in Runs, NetworkFails(r) PROVE TypeOK'
  BY <1>12 DEF NetworkFails, SpawnThrows, Spawning, Interrupting, Ended
<1>13. ASSUME NEW r \in Runs, CreateNetwork(r) PROVE TypeOK'
  BY <1>13 DEF CreateNetwork, To, Spawning
<1>14. ASSUME NEW r \in Runs, StartProxy(r) PROVE TypeOK'
  BY <1>14 DEF StartProxy, To, Spawning
<1>15. ASSUME NEW r \in Runs, ConnectProxy(r) PROVE TypeOK'
  BY <1>15 DEF ConnectProxy, To, Spawning
<1>16. ASSUME NEW r \in Runs, PrepareFails(r) PROVE TypeOK'
  BY <1>16 DEF PrepareFails, Undone, To, Spawning
<1>17. ASSUME NEW r \in Runs, SpawnChild(r) PROVE TypeOK'
  BY <1>17 DEF SpawnChild, Spawning
<1>18. ASSUME NEW r \in Runs, NextRun(r) PROVE TypeOK'
  BY <1>18 DEF NextRun
<1>19. ASSUME NEW r \in Runs, RemoveBox(r) PROVE TypeOK'
  BY <1>19 DEF RemoveBox, Removing, Onwards
<1>20. ASSUME NEW r \in Runs, BoxFails(r) PROVE TypeOK'
  <2>0. ASSUME Removing(r, "box"), RemovalThrows(r), UNCHANGED docker PROVE TypeOK'
    <3>1. thread' \in [job : Job, rest : SUBSET Runs, run : Runs \cup {NoRun}, step : Step,
                      hard : BOOLEAN]
      BY <2>0, GivesUpTyped DEF Removing
    <3>2. daemon' \in {"down", "starting", "serving", "closing"} /\ failed' \subseteq Runs
      BY <2>0, GivesUp DEF Removing
    <3>3. UNCHANGED <<row, session, due, owed, stopping>>
      BY <2>0, GivesUp DEF Removing
    <3> QED BY <2>0, <3>1, <3>2, <3>3
  <2>b. ASSUME Removing(r, "box"), RemovalThrows(r), box' = [box EXCEPT ![r] = "absent"],
        UNCHANGED <<client, proxy, net>> PROVE TypeOK'
    <3>1. thread' \in [job : Job, rest : SUBSET Runs, run : Runs \cup {NoRun}, step : Step,
                      hard : BOOLEAN]
      BY <2>b, GivesUpTyped DEF Removing
    <3>2. daemon' \in {"down", "starting", "serving", "closing"} /\ failed' \subseteq Runs
      BY <2>b, GivesUp DEF Removing
    <3>3. UNCHANGED <<row, session, due, owed, stopping>>
      BY <2>b, GivesUp DEF Removing
    <3> QED BY <2>b, <3>1, <3>2, <3>3
  <2> QED BY <2>0, <2>b, <1>20 DEF BoxFails
<1>21. ASSUME NEW r \in Runs, RemoveProxy(r) PROVE TypeOK'
  BY <1>21 DEF RemoveProxy, Removing, Spawning, Onwards, To
<1>22. ASSUME NEW r \in Runs, ProxyFails(r) PROVE TypeOK'
  <2>0. ASSUME Removing(r, "proxy"), RemovalThrows(r), UNCHANGED docker PROVE TypeOK'
    <3>1. thread' \in [job : Job, rest : SUBSET Runs, run : Runs \cup {NoRun}, step : Step,
                      hard : BOOLEAN]
      BY <2>0, GivesUpTyped DEF Removing
    <3>2. daemon' \in {"down", "starting", "serving", "closing"} /\ failed' \subseteq Runs
      BY <2>0, GivesUp DEF Removing
    <3>3. UNCHANGED <<row, session, due, owed, stopping>>
      BY <2>0, GivesUp DEF Removing
    <3> QED BY <2>0, <3>1, <3>2, <3>3
  <2>1. ASSUME Spawning(r, "undoProxy"), SpawnThrows(r), failed' = failed \cup {r},
        UNCHANGED docker
        PROVE TypeOK'
    <3>1. CASE r \in ClaudeRuns /\ session[r]
      BY <2>1, <3>1 DEF Spawning, SpawnThrows, Interrupting, Ended
    <3>2. CASE ~(r \in ClaudeRuns /\ session[r])
      BY <2>1, <3>2 DEF Spawning, SpawnThrows, Ended
    <3> QED BY <3>1, <3>2
  <2> QED BY <2>0, <2>1, <1>22 DEF ProxyFails
<1>23. ASSUME NEW r \in Runs, RemoveNet(r) PROVE TypeOK'
  <2>e. box[r] # "running" /\ ~proxy[r] /\ net' = [net EXCEPT ![r] = FALSE]
        /\ UNCHANGED <<client, box, proxy>>
    BY <1>23 DEF RemoveNet
  <2>0. ASSUME Removing(r, "net"), Removed(r) PROVE TypeOK'
    <3>1. CASE SecondRemoval(r)
      BY <2>0, <2>e, <3>1 DEF Removing, Removed, SecondRemoval
    <3>2. CASE ~SecondRemoval(r)
      BY <2>0, <2>e, <3>2 DEF Removing, Removed
    <3> QED BY <3>1, <3>2
  <2>1. ASSUME Spawning(r, "undoNet"), SpawnThrows(r), failed' = failed \ {r} PROVE TypeOK'
    <3>1. CASE r \in ClaudeRuns /\ session[r]
      BY <2>1, <2>e, <3>1 DEF Spawning, SpawnThrows, Interrupting, Ended
    <3>2. CASE ~(r \in ClaudeRuns /\ session[r])
      BY <2>1, <2>e, <3>2 DEF Spawning, SpawnThrows, Ended
    <3> QED BY <3>1, <3>2
  <2> QED BY <2>0, <2>1, <1>23 DEF RemoveNet
<1>24. ASSUME NEW r \in Runs, NetFails(r) PROVE TypeOK'
  <2>0. ASSUME Removing(r, "net"), RemovalThrows(r), UNCHANGED docker PROVE TypeOK'
    <3>1. thread' \in [job : Job, rest : SUBSET Runs, run : Runs \cup {NoRun}, step : Step,
                      hard : BOOLEAN]
      BY <2>0, GivesUpTyped DEF Removing
    <3>2. daemon' \in {"down", "starting", "serving", "closing"} /\ failed' \subseteq Runs
      BY <2>0, GivesUp DEF Removing
    <3>3. UNCHANGED <<row, session, due, owed, stopping>>
      BY <2>0, GivesUp DEF Removing
    <3> QED BY <2>0, <3>1, <3>2, <3>3
  <2>1. ASSUME Spawning(r, "undoNet"), SpawnThrows(r), failed' = failed \cup {r}, UNCHANGED docker
        PROVE TypeOK'
    <3>1. CASE r \in ClaudeRuns /\ session[r]
      BY <2>1, <3>1 DEF Spawning, SpawnThrows, Interrupting, Ended
    <3>2. CASE ~(r \in ClaudeRuns /\ session[r])
      BY <2>1, <3>2 DEF Spawning, SpawnThrows, Ended
    <3> QED BY <3>1, <3>2
  <2> QED BY <2>0, <2>1, <1>24 DEF NetFails
<1>25. ASSUME LoopEnds PROVE TypeOK'
  BY <1>25 DEF LoopEnds
<1>26. ASSUME Start PROVE TypeOK'
  BY <1>26 DEF Start, Persisted, Interrupting, Ended
<1>27. ASSUME Close PROVE TypeOK'
  BY <1>27 DEF Close, Persisted, Interrupting, Ended
<1>28. ASSUME Crash PROVE TypeOK'
  BY <1>28 DEF Crash
<1>29. ASSUME NEW r \in Runs, ClientCreates(r) \/ ClientDies(r) \/ ProviderExits(r) PROVE
    TypeOK'
  BY <1>29 DEF ClientCreates, ClientDies, ProviderExits
<1>30. ASSUME NEW r \in Runs, ClientStarts(r) PROVE TypeOK'
  BY <1>30 DEF ClientStarts
<1>31. ASSUME UNCHANGED vars PROVE TypeOK'
  BY <1>31 DEF vars
<1>. QED BY <1>1, <1>2, <1>3, <1>4, <1>5, <1>6, <1>7, <1>8, <1>9, <1>10, <1>11, <1>12, <1>13,
    <1>14, <1>15, <1>16, <1>17, <1>18, <1>19, <1>20, <1>21, <1>22, <1>23, <1>24, <1>25, <1>26,
    <1>27, <1>28, <1>29, <1>30, <1>31 DEF Next, SpawnStep, RemovalStep, Docker

\* The thread, by the daemon's phase.
LEMMA ThreadStep == TypeOK /\ ThreadFits /\ [Next]_vars => ThreadFits'
<1> SUFFICES ASSUME TypeOK, ThreadFits, [Next]_vars PROVE ThreadFits'
  OBVIOUS
<1> USE ContainerAssumption DEF TypeOK, ThreadFits, Idle, Free, Job, Step, store, docker
<1>1. ASSUME NEW r \in Runs, Submit(r) PROVE ThreadFits'
  BY <1>1 DEF Submit
<1>2. ASSUME NEW r \in Runs, Load(r) PROVE ThreadFits'
  BY <1>2 DEF Load
<1>3. ASSUME NEW r \in Runs, Replay(r) PROVE ThreadFits'
  BY <1>3 DEF Replay
<1>4. ASSUME NEW r \in Runs, Cancel(r) PROVE ThreadFits'
  BY <1>4 DEF Cancel, Live, Ended
<1>5. ASSUME NEW r \in Runs, Reports(r) PROVE ThreadFits'
  BY <1>5 DEF Reports
<1>6. ASSUME NEW r \in Runs, SessionEnds(r) \/ ClientGone(r) PROVE ThreadFits'
  BY <1>6 DEF SessionEnds, ClientGone, Interrupting, Ended
<1>7. ASSUME NEW r \in Runs, ApplyInterrupt(r) PROVE ThreadFits'
  BY <1>7 DEF ApplyInterrupt, Interrupting
<1>8. ASSUME NEW r \in Runs, BeginSpawn(r) PROVE ThreadFits'
  BY <1>8 DEF BeginSpawn, Permitted
<1>9. ASSUME StopAll PROVE ThreadFits'
  BY <1>9 DEF StopAll, Ended
<1>10. ASSUME ApplyStopAll PROVE ThreadFits'
  BY <1>10 DEF ApplyStopAll, Interrupting
<1>11. ASSUME NEW S \in SUBSET Runs, Sweep(S) PROVE ThreadFits'
  BY <1>11 DEF Sweep, Live, Interrupting, Ended
<1>12. ASSUME NEW r \in Runs, NetworkFails(r) PROVE ThreadFits'
  BY <1>12 DEF NetworkFails, SpawnThrows, Spawning, Interrupting, Ended
<1>13. ASSUME NEW r \in Runs, CreateNetwork(r) PROVE ThreadFits'
  BY <1>13 DEF CreateNetwork, To, Spawning
<1>14. ASSUME NEW r \in Runs, StartProxy(r) PROVE ThreadFits'
  BY <1>14 DEF StartProxy, To, Spawning
<1>15. ASSUME NEW r \in Runs, ConnectProxy(r) PROVE ThreadFits'
  BY <1>15 DEF ConnectProxy, To, Spawning
<1>16. ASSUME NEW r \in Runs, PrepareFails(r) PROVE ThreadFits'
  BY <1>16 DEF PrepareFails, Undone, To, Spawning
<1>17. ASSUME NEW r \in Runs, SpawnChild(r) PROVE ThreadFits'
  BY <1>17 DEF SpawnChild, Spawning
<1>18. ASSUME NEW r \in Runs, NextRun(r) PROVE ThreadFits'
  BY <1>18 DEF NextRun
<1>19. ASSUME NEW r \in Runs, RemoveBox(r) PROVE ThreadFits'
  BY <1>19 DEF RemoveBox, Removing, Onwards
<1>20. ASSUME NEW r \in Runs, BoxFails(r) PROVE ThreadFits'
  <2>0. ASSUME Removing(r, "box"), RemovalThrows(r), UNCHANGED docker PROVE ThreadFits'
    BY <2>0, GivesUp DEF Removing
  <2>b. ASSUME Removing(r, "box"), RemovalThrows(r), box' = [box EXCEPT ![r] = "absent"],
        UNCHANGED <<client, proxy, net>> PROVE ThreadFits'
    BY <2>b, GivesUp DEF Removing
  <2> QED BY <2>0, <2>b, <1>20 DEF BoxFails
<1>21. ASSUME NEW r \in Runs, RemoveProxy(r) PROVE ThreadFits'
  BY <1>21 DEF RemoveProxy, Removing, Spawning, Onwards, To
<1>22. ASSUME NEW r \in Runs, ProxyFails(r) PROVE ThreadFits'
  <2>0. ASSUME Removing(r, "proxy"), RemovalThrows(r), UNCHANGED docker PROVE ThreadFits'
    BY <2>0, GivesUp DEF Removing
  <2>1. ASSUME Spawning(r, "undoProxy"), SpawnThrows(r), failed' = failed \cup {r},
        UNCHANGED docker
        PROVE ThreadFits'
    <3>1. CASE r \in ClaudeRuns /\ session[r]
      BY <2>1, <3>1 DEF Spawning, SpawnThrows, Interrupting, Ended
    <3>2. CASE ~(r \in ClaudeRuns /\ session[r])
      BY <2>1, <3>2 DEF Spawning, SpawnThrows, Ended
    <3> QED BY <3>1, <3>2
  <2> QED BY <2>0, <2>1, <1>22 DEF ProxyFails
<1>23. ASSUME NEW r \in Runs, RemoveNet(r) PROVE ThreadFits'
  <2>e. box[r] # "running" /\ ~proxy[r] /\ net' = [net EXCEPT ![r] = FALSE]
        /\ UNCHANGED <<client, box, proxy>>
    BY <1>23 DEF RemoveNet
  <2>0. ASSUME Removing(r, "net"), Removed(r) PROVE ThreadFits'
    <3>1. CASE SecondRemoval(r)
      BY <2>0, <2>e, <3>1 DEF Removing, Removed, SecondRemoval
    <3>2. CASE ~SecondRemoval(r)
      BY <2>0, <2>e, <3>2 DEF Removing, Removed
    <3> QED BY <3>1, <3>2
  <2>1. ASSUME Spawning(r, "undoNet"), SpawnThrows(r), failed' = failed \ {r} PROVE ThreadFits'
    <3>1. CASE r \in ClaudeRuns /\ session[r]
      BY <2>1, <2>e, <3>1 DEF Spawning, SpawnThrows, Interrupting, Ended
    <3>2. CASE ~(r \in ClaudeRuns /\ session[r])
      BY <2>1, <2>e, <3>2 DEF Spawning, SpawnThrows, Ended
    <3> QED BY <3>1, <3>2
  <2> QED BY <2>0, <2>1, <1>23 DEF RemoveNet
<1>24. ASSUME NEW r \in Runs, NetFails(r) PROVE ThreadFits'
  <2>0. ASSUME Removing(r, "net"), RemovalThrows(r), UNCHANGED docker PROVE ThreadFits'
    BY <2>0, GivesUp DEF Removing
  <2>1. ASSUME Spawning(r, "undoNet"), SpawnThrows(r), failed' = failed \cup {r}, UNCHANGED docker
        PROVE ThreadFits'
    <3>1. CASE r \in ClaudeRuns /\ session[r]
      BY <2>1, <3>1 DEF Spawning, SpawnThrows, Interrupting, Ended
    <3>2. CASE ~(r \in ClaudeRuns /\ session[r])
      BY <2>1, <3>2 DEF Spawning, SpawnThrows, Ended
    <3> QED BY <3>1, <3>2
  <2> QED BY <2>0, <2>1, <1>24 DEF NetFails
<1>25. ASSUME LoopEnds PROVE ThreadFits'
  BY <1>25 DEF LoopEnds
<1>26. ASSUME Start PROVE ThreadFits'
  BY <1>26 DEF Start, Persisted, Interrupting, Ended
<1>27. ASSUME Close PROVE ThreadFits'
  BY <1>27 DEF Close, Persisted, Interrupting, Ended
<1>28. ASSUME Crash PROVE ThreadFits'
  BY <1>28 DEF Crash
<1>29. ASSUME NEW r \in Runs, ClientCreates(r) \/ ClientDies(r) \/ ProviderExits(r) PROVE
    ThreadFits'
  BY <1>29 DEF ClientCreates, ClientDies, ProviderExits
<1>30. ASSUME NEW r \in Runs, ClientStarts(r) PROVE ThreadFits'
  BY <1>30 DEF ClientStarts
<1>31. ASSUME UNCHANGED vars PROVE ThreadFits'
  BY <1>31 DEF vars
<1>. QED BY <1>1, <1>2, <1>3, <1>4, <1>5, <1>6, <1>7, <1>8, <1>9, <1>10, <1>11, <1>12, <1>13,
    <1>14, <1>15, <1>16, <1>17, <1>18, <1>19, <1>20, <1>21, <1>22, <1>23, <1>24, <1>25, <1>26,
    <1>27, <1>28, <1>29, <1>30, <1>31 DEF Next, SpawnStep, RemovalStep, Docker

\* No other session of the run is there while one is made or removed.
LEMMA HandsStep ==
  ASSUME TypeOK, ThreadFits, HandsFit, NetworkServesSession, [Next]_vars
  PROVE  HandsFit' 
<1> USE ContainerAssumption DEF TypeOK, ThreadFits, HandsFit, NetworkServesSession, Handles,
    Idle, Free, Job, Step, store, docker
<1>1. ASSUME NEW r \in Runs, Submit(r) PROVE HandsFit'
  BY <1>1 DEF Submit
<1>2. ASSUME NEW r \in Runs, Load(r) PROVE HandsFit'
  BY <1>2 DEF Load
<1>3. ASSUME NEW r \in Runs, Replay(r) PROVE HandsFit'
  BY <1>3 DEF Replay
<1>4. ASSUME NEW r \in Runs, Cancel(r) PROVE HandsFit'
  BY <1>4 DEF Cancel, Live, Ended
<1>5. ASSUME NEW r \in Runs, Reports(r) PROVE HandsFit'
  BY <1>5 DEF Reports
<1>6. ASSUME NEW r \in Runs, SessionEnds(r) \/ ClientGone(r) PROVE HandsFit'
  BY <1>6 DEF SessionEnds, ClientGone, Interrupting, Ended
<1>7. ASSUME NEW r \in Runs, ApplyInterrupt(r) PROVE HandsFit'
  BY <1>7 DEF ApplyInterrupt, Interrupting
<1>8. ASSUME NEW r \in Runs, BeginSpawn(r) PROVE HandsFit'
  BY <1>8 DEF BeginSpawn, Permitted
<1>9. ASSUME StopAll PROVE HandsFit'
  BY <1>9 DEF StopAll, Ended
<1>10. ASSUME ApplyStopAll PROVE HandsFit'
  BY <1>10 DEF ApplyStopAll, Interrupting
<1>11. ASSUME NEW S \in SUBSET Runs, Sweep(S) PROVE HandsFit'
  BY <1>11 DEF Sweep, Live, Interrupting, Ended
<1>12. ASSUME NEW r \in Runs, NetworkFails(r) PROVE HandsFit'
  BY <1>12 DEF NetworkFails, SpawnThrows, Spawning, Interrupting, Ended
<1>13. ASSUME NEW r \in Runs, CreateNetwork(r) PROVE HandsFit'
  BY <1>13 DEF CreateNetwork, To, Spawning
<1>14. ASSUME NEW r \in Runs, StartProxy(r) PROVE HandsFit'
  BY <1>14 DEF StartProxy, To, Spawning
<1>15. ASSUME NEW r \in Runs, ConnectProxy(r) PROVE HandsFit'
  BY <1>15 DEF ConnectProxy, To, Spawning
<1>16. ASSUME NEW r \in Runs, PrepareFails(r) PROVE HandsFit'
  BY <1>16 DEF PrepareFails, Undone, To, Spawning
<1>17. ASSUME NEW r \in Runs, SpawnChild(r) PROVE HandsFit'
  BY <1>17 DEF SpawnChild, Spawning
<1>18. ASSUME NEW r \in Runs, NextRun(r) PROVE HandsFit'
  BY <1>18 DEF NextRun
<1>19. ASSUME NEW r \in Runs, RemoveBox(r) PROVE HandsFit'
  BY <1>19 DEF RemoveBox, Removing, Onwards
<1>20. ASSUME NEW r \in Runs, BoxFails(r) PROVE HandsFit'
  <2>0. ASSUME Removing(r, "box"), RemovalThrows(r), UNCHANGED docker PROVE HandsFit'
    BY <2>0, GivesUp DEF Removing
  <2>b. ASSUME Removing(r, "box"), RemovalThrows(r), box' = [box EXCEPT ![r] = "absent"],
        UNCHANGED <<client, proxy, net>> PROVE HandsFit'
    BY <2>b, GivesUp DEF Removing
  <2> QED BY <2>0, <2>b, <1>20 DEF BoxFails
<1>21. ASSUME NEW r \in Runs, RemoveProxy(r) PROVE HandsFit'
  BY <1>21 DEF RemoveProxy, Removing, Spawning, Onwards, To
<1>22. ASSUME NEW r \in Runs, ProxyFails(r) PROVE HandsFit'
  <2>0. ASSUME Removing(r, "proxy"), RemovalThrows(r), UNCHANGED docker PROVE HandsFit'
    BY <2>0, GivesUp DEF Removing
  <2>1. ASSUME Spawning(r, "undoProxy"), SpawnThrows(r), failed' = failed \cup {r},
        UNCHANGED docker
        PROVE HandsFit'
    <3>1. CASE r \in ClaudeRuns /\ session[r]
      BY <2>1, <3>1 DEF Spawning, SpawnThrows, Interrupting, Ended
    <3>2. CASE ~(r \in ClaudeRuns /\ session[r])
      BY <2>1, <3>2 DEF Spawning, SpawnThrows, Ended
    <3> QED BY <3>1, <3>2
  <2> QED BY <2>0, <2>1, <1>22 DEF ProxyFails
<1>23. ASSUME NEW r \in Runs, RemoveNet(r) PROVE HandsFit'
  <2>e. box[r] # "running" /\ ~proxy[r] /\ net' = [net EXCEPT ![r] = FALSE]
        /\ UNCHANGED <<client, box, proxy>>
    BY <1>23 DEF RemoveNet
  <2>0. ASSUME Removing(r, "net"), Removed(r) PROVE HandsFit'
    <3>1. CASE SecondRemoval(r)
      BY <2>0, <2>e, <3>1 DEF Removing, Removed, SecondRemoval
    <3>2. CASE ~SecondRemoval(r)
      BY <2>0, <2>e, <3>2 DEF Removing, Removed
    <3> QED BY <3>1, <3>2
  <2>1. ASSUME Spawning(r, "undoNet"), SpawnThrows(r), failed' = failed \ {r} PROVE HandsFit'
    <3>1. CASE r \in ClaudeRuns /\ session[r]
      BY <2>1, <2>e, <3>1 DEF Spawning, SpawnThrows, Interrupting, Ended
    <3>2. CASE ~(r \in ClaudeRuns /\ session[r])
      BY <2>1, <2>e, <3>2 DEF Spawning, SpawnThrows, Ended
    <3> QED BY <3>1, <3>2
  <2> QED BY <2>0, <2>1, <1>23 DEF RemoveNet
<1>24. ASSUME NEW r \in Runs, NetFails(r) PROVE HandsFit'
  <2>0. ASSUME Removing(r, "net"), RemovalThrows(r), UNCHANGED docker PROVE HandsFit'
    BY <2>0, GivesUp DEF Removing
  <2>1. ASSUME Spawning(r, "undoNet"), SpawnThrows(r), failed' = failed \cup {r}, UNCHANGED docker
        PROVE HandsFit'
    <3>1. CASE r \in ClaudeRuns /\ session[r]
      BY <2>1, <3>1 DEF Spawning, SpawnThrows, Interrupting, Ended
    <3>2. CASE ~(r \in ClaudeRuns /\ session[r])
      BY <2>1, <3>2 DEF Spawning, SpawnThrows, Ended
    <3> QED BY <3>1, <3>2
  <2> QED BY <2>0, <2>1, <1>24 DEF NetFails
<1>25. ASSUME LoopEnds PROVE HandsFit'
  BY <1>25 DEF LoopEnds
<1>26. ASSUME Start PROVE HandsFit'
  BY <1>26 DEF Start, Persisted, Interrupting, Ended
<1>27. ASSUME Close PROVE HandsFit'
  BY <1>27 DEF Close, Persisted, Interrupting, Ended
<1>28. ASSUME Crash PROVE HandsFit'
  BY <1>28 DEF Crash
<1>29. ASSUME NEW r \in Runs, ClientCreates(r) \/ ClientDies(r) \/ ProviderExits(r) PROVE
    HandsFit'
  BY <1>29 DEF ClientCreates, ClientDies, ProviderExits
<1>30. ASSUME NEW r \in Runs, ClientStarts(r) PROVE HandsFit'
  BY <1>30 DEF ClientStarts
<1>31. ASSUME UNCHANGED vars PROVE HandsFit'
  BY <1>31 DEF vars
<1>. QED BY <1>1, <1>2, <1>3, <1>4, <1>5, <1>6, <1>7, <1>8, <1>9, <1>10, <1>11, <1>12, <1>13,
    <1>14, <1>15, <1>16, <1>17, <1>18, <1>19, <1>20, <1>21, <1>22, <1>23, <1>24, <1>25, <1>26,
    <1>27, <1>28, <1>29, <1>30, <1>31 DEF Next, SpawnStep, RemovalStep, Docker

\* A run that ends with a session goes to the thread or is owed an interrupt.
LEMMA SessionsStep ==
  ASSUME TypeOK, ThreadFits, HandsFit, SessionsFit, [Next]_vars
  PROVE  SessionsFit'
<1> USE ContainerAssumption DEF TypeOK, ThreadFits, HandsFit, SessionsFit, Handles, Idle,
    Free, Job, Step, store, docker
<1>1. ASSUME NEW r \in Runs, Submit(r) PROVE SessionsFit'
  BY <1>1 DEF Submit
<1>2. ASSUME NEW r \in Runs, Load(r) PROVE SessionsFit'
  BY <1>2 DEF Load
<1>3. ASSUME NEW r \in Runs, Replay(r) PROVE SessionsFit'
  BY <1>3 DEF Replay
<1>4. ASSUME NEW r \in Runs, Cancel(r) PROVE SessionsFit'
  BY <1>4 DEF Cancel, Live, Ended
<1>5. ASSUME NEW r \in Runs, Reports(r) PROVE SessionsFit'
  BY <1>5 DEF Reports
<1>6. ASSUME NEW r \in Runs, SessionEnds(r) \/ ClientGone(r) PROVE SessionsFit'
  BY <1>6 DEF SessionEnds, ClientGone, Interrupting, Ended
<1>7. ASSUME NEW r \in Runs, ApplyInterrupt(r) PROVE SessionsFit'
  BY <1>7 DEF ApplyInterrupt, Interrupting
<1>8. ASSUME NEW r \in Runs, BeginSpawn(r) PROVE SessionsFit'
  BY <1>8 DEF BeginSpawn, Permitted
<1>9. ASSUME StopAll PROVE SessionsFit'
  BY <1>9 DEF StopAll, Ended
<1>10. ASSUME ApplyStopAll PROVE SessionsFit'
  BY <1>10 DEF ApplyStopAll, Interrupting
<1>11. ASSUME NEW S \in SUBSET Runs, Sweep(S) PROVE SessionsFit'
  BY <1>11 DEF Sweep, Live, Interrupting, Ended
<1>12. ASSUME NEW r \in Runs, NetworkFails(r) PROVE SessionsFit'
  BY <1>12 DEF NetworkFails, SpawnThrows, Spawning, Interrupting, Ended
<1>13. ASSUME NEW r \in Runs, CreateNetwork(r) PROVE SessionsFit'
  BY <1>13 DEF CreateNetwork, To, Spawning
<1>14. ASSUME NEW r \in Runs, StartProxy(r) PROVE SessionsFit'
  BY <1>14 DEF StartProxy, To, Spawning
<1>15. ASSUME NEW r \in Runs, ConnectProxy(r) PROVE SessionsFit'
  BY <1>15 DEF ConnectProxy, To, Spawning
<1>16. ASSUME NEW r \in Runs, PrepareFails(r) PROVE SessionsFit'
  BY <1>16 DEF PrepareFails, Undone, To, Spawning
<1>17. ASSUME NEW r \in Runs, SpawnChild(r) PROVE SessionsFit'
  BY <1>17 DEF SpawnChild, Spawning
<1>18. ASSUME NEW r \in Runs, NextRun(r) PROVE SessionsFit'
  BY <1>18 DEF NextRun
<1>19. ASSUME NEW r \in Runs, RemoveBox(r) PROVE SessionsFit'
  BY <1>19 DEF RemoveBox, Removing, Onwards
<1>20. ASSUME NEW r \in Runs, BoxFails(r) PROVE SessionsFit'
  <2>0. ASSUME Removing(r, "box"), RemovalThrows(r), UNCHANGED docker PROVE SessionsFit'
    BY <2>0, GivesUp DEF Removing
  <2>b. ASSUME Removing(r, "box"), RemovalThrows(r), box' = [box EXCEPT ![r] = "absent"],
        UNCHANGED <<client, proxy, net>> PROVE SessionsFit'
    BY <2>b, GivesUp DEF Removing
  <2> QED BY <2>0, <2>b, <1>20 DEF BoxFails
<1>21. ASSUME NEW r \in Runs, RemoveProxy(r) PROVE SessionsFit'
  BY <1>21 DEF RemoveProxy, Removing, Spawning, Onwards, To
<1>22. ASSUME NEW r \in Runs, ProxyFails(r) PROVE SessionsFit'
  <2>0. ASSUME Removing(r, "proxy"), RemovalThrows(r), UNCHANGED docker PROVE SessionsFit'
    BY <2>0, GivesUp DEF Removing
  <2>1. ASSUME Spawning(r, "undoProxy"), SpawnThrows(r), failed' = failed \cup {r},
        UNCHANGED docker
        PROVE SessionsFit'
    <3>1. CASE r \in ClaudeRuns /\ session[r]
      BY <2>1, <3>1 DEF Spawning, SpawnThrows, Interrupting, Ended
    <3>2. CASE ~(r \in ClaudeRuns /\ session[r])
      BY <2>1, <3>2 DEF Spawning, SpawnThrows, Ended
    <3> QED BY <3>1, <3>2
  <2> QED BY <2>0, <2>1, <1>22 DEF ProxyFails
<1>23. ASSUME NEW r \in Runs, RemoveNet(r) PROVE SessionsFit'
  <2>e. box[r] # "running" /\ ~proxy[r] /\ net' = [net EXCEPT ![r] = FALSE]
        /\ UNCHANGED <<client, box, proxy>>
    BY <1>23 DEF RemoveNet
  <2>0. ASSUME Removing(r, "net"), Removed(r) PROVE SessionsFit'
    <3>1. CASE SecondRemoval(r)
      BY <2>0, <2>e, <3>1 DEF Removing, Removed, SecondRemoval
    <3>2. CASE ~SecondRemoval(r)
      BY <2>0, <2>e, <3>2 DEF Removing, Removed
    <3> QED BY <3>1, <3>2
  <2>1. ASSUME Spawning(r, "undoNet"), SpawnThrows(r), failed' = failed \ {r} PROVE SessionsFit'
    <3>1. CASE r \in ClaudeRuns /\ session[r]
      BY <2>1, <2>e, <3>1 DEF Spawning, SpawnThrows, Interrupting, Ended
    <3>2. CASE ~(r \in ClaudeRuns /\ session[r])
      BY <2>1, <2>e, <3>2 DEF Spawning, SpawnThrows, Ended
    <3> QED BY <3>1, <3>2
  <2> QED BY <2>0, <2>1, <1>23 DEF RemoveNet
<1>24. ASSUME NEW r \in Runs, NetFails(r) PROVE SessionsFit'
  <2>0. ASSUME Removing(r, "net"), RemovalThrows(r), UNCHANGED docker PROVE SessionsFit'
    BY <2>0, GivesUp DEF Removing
  <2>1. ASSUME Spawning(r, "undoNet"), SpawnThrows(r), failed' = failed \cup {r}, UNCHANGED docker
        PROVE SessionsFit'
    <3>1. CASE r \in ClaudeRuns /\ session[r]
      BY <2>1, <3>1 DEF Spawning, SpawnThrows, Interrupting, Ended
    <3>2. CASE ~(r \in ClaudeRuns /\ session[r])
      BY <2>1, <3>2 DEF Spawning, SpawnThrows, Ended
    <3> QED BY <3>1, <3>2
  <2> QED BY <2>0, <2>1, <1>24 DEF NetFails
<1>25. ASSUME LoopEnds PROVE SessionsFit'
  BY <1>25 DEF LoopEnds
<1>26. ASSUME Start PROVE SessionsFit'
  BY <1>26 DEF Start, Persisted, Interrupting, Ended
<1>27. ASSUME Close PROVE SessionsFit'
  BY <1>27 DEF Close, Persisted, Interrupting, Ended
<1>28. ASSUME Crash PROVE SessionsFit'
  BY <1>28 DEF Crash
<1>29. ASSUME NEW r \in Runs, ClientCreates(r) \/ ClientDies(r) \/ ProviderExits(r) PROVE
    SessionsFit'
  BY <1>29 DEF ClientCreates, ClientDies, ProviderExits
<1>30. ASSUME NEW r \in Runs, ClientStarts(r) PROVE SessionsFit'
  BY <1>30 DEF ClientStarts
<1>31. ASSUME UNCHANGED vars PROVE SessionsFit'
  BY <1>31 DEF vars
<1>. QED BY <1>1, <1>2, <1>3, <1>4, <1>5, <1>6, <1>7, <1>8, <1>9, <1>10, <1>11, <1>12, <1>13,
    <1>14, <1>15, <1>16, <1>17, <1>18, <1>19, <1>20, <1>21, <1>22, <1>23, <1>24, <1>25, <1>26,
    <1>27, <1>28, <1>29, <1>30, <1>31 DEF Next, SpawnStep, RemovalStep, Docker

\* Nothing is made but in hand, and nothing leaves the hand unless it is gone or in `failed'.
LEMMA KeptStep ==
  ASSUME TypeOK, ThreadFits, HandsFit, SessionsFit, Kept, [Next]_vars
  PROVE  Kept'
<1> USE ContainerAssumption DEF TypeOK, ThreadFits, HandsFit, SessionsFit, Kept, Handles,
    Idle, Free, Job, Step, store, docker
<1>1. ASSUME NEW r \in Runs, Submit(r) PROVE Kept'
  BY <1>1 DEF Submit
<1>2. ASSUME NEW r \in Runs, Load(r) PROVE Kept'
  BY <1>2 DEF Load
<1>3. ASSUME NEW r \in Runs, Replay(r) PROVE Kept'
  BY <1>3 DEF Replay
<1>4. ASSUME NEW r \in Runs, Cancel(r) PROVE Kept'
  BY <1>4 DEF Cancel, Live, Ended
<1>5. ASSUME NEW r \in Runs, Reports(r) PROVE Kept'
  BY <1>5 DEF Reports
<1>6. ASSUME NEW r \in Runs, SessionEnds(r) \/ ClientGone(r) PROVE Kept'
  BY <1>6 DEF SessionEnds, ClientGone, Interrupting, Ended
<1>7. ASSUME NEW r \in Runs, ApplyInterrupt(r) PROVE Kept'
  BY <1>7 DEF ApplyInterrupt, Interrupting
<1>8. ASSUME NEW r \in Runs, BeginSpawn(r) PROVE Kept'
  BY <1>8 DEF BeginSpawn, Permitted
<1>9. ASSUME StopAll PROVE Kept'
  BY <1>9 DEF StopAll, Ended
<1>10. ASSUME ApplyStopAll PROVE Kept'
  BY <1>10 DEF ApplyStopAll, Interrupting
<1>11. ASSUME NEW S \in SUBSET Runs, Sweep(S) PROVE Kept'
  BY <1>11 DEF Sweep, Live, Interrupting, Ended
<1>12. ASSUME NEW r \in Runs, NetworkFails(r) PROVE Kept'
  BY <1>12 DEF NetworkFails, SpawnThrows, Spawning, Interrupting, Ended
<1>13. ASSUME NEW r \in Runs, CreateNetwork(r) PROVE Kept'
  BY <1>13 DEF CreateNetwork, To, Spawning
<1>14. ASSUME NEW r \in Runs, StartProxy(r) PROVE Kept'
  BY <1>14 DEF StartProxy, To, Spawning
<1>15. ASSUME NEW r \in Runs, ConnectProxy(r) PROVE Kept'
  BY <1>15 DEF ConnectProxy, To, Spawning
<1>16. ASSUME NEW r \in Runs, PrepareFails(r) PROVE Kept'
  BY <1>16 DEF PrepareFails, Undone, To, Spawning
<1>17. ASSUME NEW r \in Runs, SpawnChild(r) PROVE Kept'
  BY <1>17 DEF SpawnChild, Spawning
<1>18. ASSUME NEW r \in Runs, NextRun(r) PROVE Kept'
  BY <1>18 DEF NextRun
<1>19. ASSUME NEW r \in Runs, RemoveBox(r) PROVE Kept'
  BY <1>19 DEF RemoveBox, Removing, Onwards
<1>20. ASSUME NEW r \in Runs, BoxFails(r) PROVE Kept'
  <2>0. ASSUME Removing(r, "box"), RemovalThrows(r), UNCHANGED docker PROVE Kept'
    BY <2>0, GivesUp DEF Removing
  <2>b. ASSUME Removing(r, "box"), RemovalThrows(r), box' = [box EXCEPT ![r] = "absent"],
        UNCHANGED <<client, proxy, net>> PROVE Kept'
    BY <2>b, GivesUp DEF Removing
  <2> QED BY <2>0, <2>b, <1>20 DEF BoxFails
<1>21. ASSUME NEW r \in Runs, RemoveProxy(r) PROVE Kept'
  BY <1>21 DEF RemoveProxy, Removing, Spawning, Onwards, To
<1>22. ASSUME NEW r \in Runs, ProxyFails(r) PROVE Kept'
  <2>0. ASSUME Removing(r, "proxy"), RemovalThrows(r), UNCHANGED docker PROVE Kept'
    BY <2>0, GivesUp DEF Removing
  <2>1. ASSUME Spawning(r, "undoProxy"), SpawnThrows(r), failed' = failed \cup {r},
        UNCHANGED docker
        PROVE Kept'
    <3>1. CASE r \in ClaudeRuns /\ session[r]
      BY <2>1, <3>1 DEF Spawning, SpawnThrows, Interrupting, Ended
    <3>2. CASE ~(r \in ClaudeRuns /\ session[r])
      BY <2>1, <3>2 DEF Spawning, SpawnThrows, Ended
    <3> QED BY <3>1, <3>2
  <2> QED BY <2>0, <2>1, <1>22 DEF ProxyFails
<1>23. ASSUME NEW r \in Runs, RemoveNet(r) PROVE Kept'
  <2>e. box[r] # "running" /\ ~proxy[r] /\ net' = [net EXCEPT ![r] = FALSE]
        /\ UNCHANGED <<client, box, proxy>>
    BY <1>23 DEF RemoveNet
  <2>0. ASSUME Removing(r, "net"), Removed(r) PROVE Kept'
    <3>1. CASE SecondRemoval(r)
      BY <2>0, <2>e, <3>1 DEF Removing, Removed, SecondRemoval
    <3>2. CASE ~SecondRemoval(r)
      BY <2>0, <2>e, <3>2 DEF Removing, Removed
    <3> QED BY <3>1, <3>2
  <2>1. ASSUME Spawning(r, "undoNet"), SpawnThrows(r), failed' = failed \ {r} PROVE Kept'
    <3>1. CASE r \in ClaudeRuns /\ session[r]
      BY <2>1, <2>e, <3>1 DEF Spawning, SpawnThrows, Interrupting, Ended
    <3>2. CASE ~(r \in ClaudeRuns /\ session[r])
      BY <2>1, <2>e, <3>2 DEF Spawning, SpawnThrows, Ended
    <3> QED BY <3>1, <3>2
  <2> QED BY <2>0, <2>1, <1>23 DEF RemoveNet
<1>24. ASSUME NEW r \in Runs, NetFails(r) PROVE Kept'
  <2>0. ASSUME Removing(r, "net"), RemovalThrows(r), UNCHANGED docker PROVE Kept'
    BY <2>0, GivesUp DEF Removing
  <2>1. ASSUME Spawning(r, "undoNet"), SpawnThrows(r), failed' = failed \cup {r}, UNCHANGED docker
        PROVE Kept'
    <3>1. CASE r \in ClaudeRuns /\ session[r]
      BY <2>1, <3>1 DEF Spawning, SpawnThrows, Interrupting, Ended
    <3>2. CASE ~(r \in ClaudeRuns /\ session[r])
      BY <2>1, <3>2 DEF Spawning, SpawnThrows, Ended
    <3> QED BY <3>1, <3>2
  <2> QED BY <2>0, <2>1, <1>24 DEF NetFails
<1>25. ASSUME LoopEnds PROVE Kept'
  BY <1>25 DEF LoopEnds
<1>26. ASSUME Start PROVE Kept'
  BY <1>26 DEF Start, Persisted, Interrupting, Ended
<1>27. ASSUME Close PROVE Kept'
  BY <1>27 DEF Close, Persisted, Interrupting, Ended
<1>28. ASSUME Crash PROVE Kept'
  BY <1>28 DEF Crash
<1>29. ASSUME NEW r \in Runs, ClientCreates(r) \/ ClientDies(r) \/ ProviderExits(r) PROVE Kept'
  BY <1>29 DEF ClientCreates, ClientDies, ProviderExits
<1>30. ASSUME NEW r \in Runs, ClientStarts(r) PROVE Kept'
  BY <1>30 DEF ClientStarts
<1>31. ASSUME UNCHANGED vars PROVE Kept'
  BY <1>31 DEF vars
<1>. QED BY <1>1, <1>2, <1>3, <1>4, <1>5, <1>6, <1>7, <1>8, <1>9, <1>10, <1>11, <1>12, <1>13,
    <1>14, <1>15, <1>16, <1>17, <1>18, <1>19, <1>20, <1>21, <1>22, <1>23, <1>24, <1>25, <1>26,
    <1>27, <1>28, <1>29, <1>30, <1>31 DEF Next, SpawnStep, RemovalStep, Docker

\* A start does not pass over a run: a second removal is for sessions, which it has none of.
LEMMA StartStep ==
  ASSUME TypeOK, ThreadFits, SessionsFit, Kept, StartFits, [Next]_vars
  PROVE  StartFits'
<1> USE ContainerAssumption DEF TypeOK, ThreadFits, SessionsFit, Kept, StartFits, Idle, Free,
        Job, Step, store, docker
<1>1. ASSUME NEW r \in Runs, Submit(r) PROVE StartFits'
  BY <1>1 DEF Submit
<1>2. ASSUME NEW r \in Runs, Load(r) PROVE StartFits'
  BY <1>2 DEF Load
<1>3. ASSUME NEW r \in Runs, Replay(r) PROVE StartFits'
  BY <1>3 DEF Replay
<1>4. ASSUME NEW r \in Runs, Cancel(r) PROVE StartFits'
  BY <1>4 DEF Cancel, Live, Ended
<1>5. ASSUME NEW r \in Runs, Reports(r) PROVE StartFits'
  BY <1>5 DEF Reports
<1>6. ASSUME NEW r \in Runs, SessionEnds(r) \/ ClientGone(r) PROVE StartFits'
  BY <1>6 DEF SessionEnds, ClientGone, Interrupting, Ended
<1>7. ASSUME NEW r \in Runs, ApplyInterrupt(r) PROVE StartFits'
  BY <1>7 DEF ApplyInterrupt, Interrupting
<1>8. ASSUME NEW r \in Runs, BeginSpawn(r) PROVE StartFits'
  BY <1>8 DEF BeginSpawn, Permitted
<1>9. ASSUME StopAll PROVE StartFits'
  BY <1>9 DEF StopAll, Ended
<1>10. ASSUME ApplyStopAll PROVE StartFits'
  BY <1>10 DEF ApplyStopAll, Interrupting
<1>11. ASSUME NEW S \in SUBSET Runs, Sweep(S) PROVE StartFits'
  BY <1>11 DEF Sweep, Live, Interrupting, Ended
<1>12. ASSUME NEW r \in Runs, NetworkFails(r) PROVE StartFits'
  BY <1>12 DEF NetworkFails, SpawnThrows, Spawning, Interrupting, Ended
<1>13. ASSUME NEW r \in Runs, CreateNetwork(r) PROVE StartFits'
  BY <1>13 DEF CreateNetwork, To, Spawning
<1>14. ASSUME NEW r \in Runs, StartProxy(r) PROVE StartFits'
  BY <1>14 DEF StartProxy, To, Spawning
<1>15. ASSUME NEW r \in Runs, ConnectProxy(r) PROVE StartFits'
  BY <1>15 DEF ConnectProxy, To, Spawning
<1>16. ASSUME NEW r \in Runs, PrepareFails(r) PROVE StartFits'
  BY <1>16 DEF PrepareFails, Undone, To, Spawning
<1>17. ASSUME NEW r \in Runs, SpawnChild(r) PROVE StartFits'
  BY <1>17 DEF SpawnChild, Spawning
<1>18. ASSUME NEW r \in Runs, NextRun(r) PROVE StartFits'
  BY <1>18 DEF NextRun
<1>19. ASSUME NEW r \in Runs, RemoveBox(r) PROVE StartFits'
  BY <1>19 DEF RemoveBox, Removing, Onwards
<1>20. ASSUME NEW r \in Runs, BoxFails(r) PROVE StartFits'
  <2>0. ASSUME Removing(r, "box"), RemovalThrows(r), UNCHANGED docker PROVE StartFits'
    BY <2>0, GivesUp DEF Removing
  <2>b. ASSUME Removing(r, "box"), RemovalThrows(r), box' = [box EXCEPT ![r] = "absent"],
        UNCHANGED <<client, proxy, net>> PROVE StartFits'
    BY <2>b, GivesUp DEF Removing
  <2> QED BY <2>0, <2>b, <1>20 DEF BoxFails
<1>21. ASSUME NEW r \in Runs, RemoveProxy(r) PROVE StartFits'
  BY <1>21 DEF RemoveProxy, Removing, Spawning, Onwards, To
<1>22. ASSUME NEW r \in Runs, ProxyFails(r) PROVE StartFits'
  <2>0. ASSUME Removing(r, "proxy"), RemovalThrows(r), UNCHANGED docker PROVE StartFits'
    BY <2>0, GivesUp DEF Removing
  <2>1. ASSUME Spawning(r, "undoProxy"), SpawnThrows(r), failed' = failed \cup {r},
        UNCHANGED docker
        PROVE StartFits'
    <3>1. CASE r \in ClaudeRuns /\ session[r]
      BY <2>1, <3>1 DEF Spawning, SpawnThrows, Interrupting, Ended
    <3>2. CASE ~(r \in ClaudeRuns /\ session[r])
      BY <2>1, <3>2 DEF Spawning, SpawnThrows, Ended
    <3> QED BY <3>1, <3>2
  <2> QED BY <2>0, <2>1, <1>22 DEF ProxyFails
<1>23. ASSUME NEW r \in Runs, RemoveNet(r) PROVE StartFits'
  <2>e. box[r] # "running" /\ ~proxy[r] /\ net' = [net EXCEPT ![r] = FALSE]
        /\ UNCHANGED <<client, box, proxy>>
    BY <1>23 DEF RemoveNet
  <2>0. ASSUME Removing(r, "net"), Removed(r) PROVE StartFits'
    <3>1. CASE SecondRemoval(r)
      BY <2>0, <2>e, <3>1 DEF Removing, Removed, SecondRemoval
    <3>2. CASE ~SecondRemoval(r)
      BY <2>0, <2>e, <3>2 DEF Removing, Removed
    <3> QED BY <3>1, <3>2
  <2>1. ASSUME Spawning(r, "undoNet"), SpawnThrows(r), failed' = failed \ {r} PROVE StartFits'
    <3>1. CASE r \in ClaudeRuns /\ session[r]
      BY <2>1, <2>e, <3>1 DEF Spawning, SpawnThrows, Interrupting, Ended
    <3>2. CASE ~(r \in ClaudeRuns /\ session[r])
      BY <2>1, <2>e, <3>2 DEF Spawning, SpawnThrows, Ended
    <3> QED BY <3>1, <3>2
  <2> QED BY <2>0, <2>1, <1>23 DEF RemoveNet
<1>24. ASSUME NEW r \in Runs, NetFails(r) PROVE StartFits'
  <2>0. ASSUME Removing(r, "net"), RemovalThrows(r), UNCHANGED docker PROVE StartFits'
    BY <2>0, GivesUp DEF Removing
  <2>1. ASSUME Spawning(r, "undoNet"), SpawnThrows(r), failed' = failed \cup {r}, UNCHANGED docker
        PROVE StartFits'
    <3>1. CASE r \in ClaudeRuns /\ session[r]
      BY <2>1, <3>1 DEF Spawning, SpawnThrows, Interrupting, Ended
    <3>2. CASE ~(r \in ClaudeRuns /\ session[r])
      BY <2>1, <3>2 DEF Spawning, SpawnThrows, Ended
    <3> QED BY <3>1, <3>2
  <2> QED BY <2>0, <2>1, <1>24 DEF NetFails
<1>25. ASSUME LoopEnds PROVE StartFits'
  BY <1>25 DEF LoopEnds
<1>26. ASSUME Start PROVE StartFits'
  BY <1>26 DEF Start, Persisted, Interrupting, Ended
<1>27. ASSUME Close PROVE StartFits'
  BY <1>27 DEF Close, Persisted, Interrupting, Ended
<1>28. ASSUME Crash PROVE StartFits'
  BY <1>28 DEF Crash
<1>29. ASSUME NEW r \in Runs, ClientCreates(r) \/ ClientDies(r) \/ ProviderExits(r) PROVE
    StartFits'
  BY <1>29 DEF ClientCreates, ClientDies, ProviderExits
<1>30. ASSUME NEW r \in Runs, ClientStarts(r) PROVE StartFits'
  BY <1>30 DEF ClientStarts
<1>31. ASSUME UNCHANGED vars PROVE StartFits'
  BY <1>31 DEF vars
<1>. QED BY <1>1, <1>2, <1>3, <1>4, <1>5, <1>6, <1>7, <1>8, <1>9, <1>10, <1>11, <1>12, <1>13,
    <1>14, <1>15, <1>16, <1>17, <1>18, <1>19, <1>20, <1>21, <1>22, <1>23, <1>24, <1>25, <1>26,
    <1>27, <1>28, <1>29, <1>30, <1>31 DEF Next, SpawnStep, RemovalStep, Docker

\* The invariant of the daemon's thread and of what it makes and removes.
ContInv ==
  /\ TypeOK /\ ThreadFits /\ HandsFit /\ SessionsFit /\ Kept /\ StartFits
  /\ NetworkServesSession

\* Networks and proxies are removed of the run in hand only, which has no session.
LEMMA ServesStep ==
  ASSUME TypeOK, ThreadFits, HandsFit, NetworkServesSession, [Next]_vars
  PROVE  NetworkServesSession'
<1> USE ContainerAssumption DEF TypeOK, ThreadFits, HandsFit, NetworkServesSession, Handles,
        Idle, Free, Job, Step, store, docker
<1>1. ASSUME NEW r \in Runs, Submit(r) PROVE NetworkServesSession'
  BY <1>1 DEF Submit
<1>2. ASSUME NEW r \in Runs, Load(r) PROVE NetworkServesSession'
  BY <1>2 DEF Load
<1>3. ASSUME NEW r \in Runs, Replay(r) PROVE NetworkServesSession'
  BY <1>3 DEF Replay
<1>4. ASSUME NEW r \in Runs, Cancel(r) PROVE NetworkServesSession'
  BY <1>4 DEF Cancel, Live, Ended
<1>5. ASSUME NEW r \in Runs, Reports(r) PROVE NetworkServesSession'
  BY <1>5 DEF Reports
<1>6. ASSUME NEW r \in Runs, SessionEnds(r) \/ ClientGone(r) PROVE NetworkServesSession'
  BY <1>6 DEF SessionEnds, ClientGone, Interrupting, Ended
<1>7. ASSUME NEW r \in Runs, ApplyInterrupt(r) PROVE NetworkServesSession'
  BY <1>7 DEF ApplyInterrupt, Interrupting
<1>8. ASSUME NEW r \in Runs, BeginSpawn(r) PROVE NetworkServesSession'
  BY <1>8 DEF BeginSpawn, Permitted
<1>9. ASSUME StopAll PROVE NetworkServesSession'
  BY <1>9 DEF StopAll, Ended
<1>10. ASSUME ApplyStopAll PROVE NetworkServesSession'
  BY <1>10 DEF ApplyStopAll, Interrupting
<1>11. ASSUME NEW S \in SUBSET Runs, Sweep(S) PROVE NetworkServesSession'
  BY <1>11 DEF Sweep, Live, Interrupting, Ended
<1>12. ASSUME NEW r \in Runs, NetworkFails(r) PROVE NetworkServesSession'
  BY <1>12 DEF NetworkFails, SpawnThrows, Spawning, Interrupting, Ended
<1>13. ASSUME NEW r \in Runs, CreateNetwork(r) PROVE NetworkServesSession'
  BY <1>13 DEF CreateNetwork, To, Spawning
<1>14. ASSUME NEW r \in Runs, StartProxy(r) PROVE NetworkServesSession'
  BY <1>14 DEF StartProxy, To, Spawning
<1>15. ASSUME NEW r \in Runs, ConnectProxy(r) PROVE NetworkServesSession'
  BY <1>15 DEF ConnectProxy, To, Spawning
<1>16. ASSUME NEW r \in Runs, PrepareFails(r) PROVE NetworkServesSession'
  BY <1>16 DEF PrepareFails, Undone, To, Spawning
<1>17. ASSUME NEW r \in Runs, SpawnChild(r) PROVE NetworkServesSession'
  BY <1>17 DEF SpawnChild, Spawning
<1>18. ASSUME NEW r \in Runs, NextRun(r) PROVE NetworkServesSession'
  BY <1>18 DEF NextRun
<1>19. ASSUME NEW r \in Runs, RemoveBox(r) PROVE NetworkServesSession'
  BY <1>19 DEF RemoveBox, Removing, Onwards
<1>20. ASSUME NEW r \in Runs, BoxFails(r) PROVE NetworkServesSession'
  <2>0. ASSUME Removing(r, "box"), RemovalThrows(r), UNCHANGED docker PROVE NetworkServesSession'
    BY <2>0, GivesUp DEF Removing
  <2>b. ASSUME Removing(r, "box"), RemovalThrows(r), box' = [box EXCEPT ![r] = "absent"],
        UNCHANGED <<client, proxy, net>> PROVE NetworkServesSession'
    BY <2>b, GivesUp DEF Removing
  <2> QED BY <2>0, <2>b, <1>20 DEF BoxFails
<1>21. ASSUME NEW r \in Runs, RemoveProxy(r) PROVE NetworkServesSession'
  BY <1>21 DEF RemoveProxy, Removing, Spawning, Onwards, To
<1>22. ASSUME NEW r \in Runs, ProxyFails(r) PROVE NetworkServesSession'
  <2>0. ASSUME Removing(r, "proxy"), RemovalThrows(r), UNCHANGED docker
        PROVE NetworkServesSession'
    BY <2>0, GivesUp DEF Removing
  <2>1. ASSUME Spawning(r, "undoProxy"), SpawnThrows(r), failed' = failed \cup {r},
        UNCHANGED docker
        PROVE NetworkServesSession'
    <3>1. CASE r \in ClaudeRuns /\ session[r]
      BY <2>1, <3>1 DEF Spawning, SpawnThrows, Interrupting, Ended
    <3>2. CASE ~(r \in ClaudeRuns /\ session[r])
      BY <2>1, <3>2 DEF Spawning, SpawnThrows, Ended
    <3> QED BY <3>1, <3>2
  <2> QED BY <2>0, <2>1, <1>22 DEF ProxyFails
<1>23. ASSUME NEW r \in Runs, RemoveNet(r) PROVE NetworkServesSession'
  <2>e. box[r] # "running" /\ ~proxy[r] /\ net' = [net EXCEPT ![r] = FALSE]
        /\ UNCHANGED <<client, box, proxy>>
    BY <1>23 DEF RemoveNet
  <2>0. ASSUME Removing(r, "net"), Removed(r) PROVE NetworkServesSession'
    <3>1. CASE SecondRemoval(r)
      BY <2>0, <2>e, <3>1 DEF Removing, Removed, SecondRemoval
    <3>2. CASE ~SecondRemoval(r)
      BY <2>0, <2>e, <3>2 DEF Removing, Removed
    <3> QED BY <3>1, <3>2
  <2>1. ASSUME Spawning(r, "undoNet"), SpawnThrows(r), failed' = failed \ {r}
        PROVE NetworkServesSession'
    <3>1. CASE r \in ClaudeRuns /\ session[r]
      BY <2>1, <2>e, <3>1 DEF Spawning, SpawnThrows, Interrupting, Ended
    <3>2. CASE ~(r \in ClaudeRuns /\ session[r])
      BY <2>1, <2>e, <3>2 DEF Spawning, SpawnThrows, Ended
    <3> QED BY <3>1, <3>2
  <2> QED BY <2>0, <2>1, <1>23 DEF RemoveNet
<1>24. ASSUME NEW r \in Runs, NetFails(r) PROVE NetworkServesSession'
  <2>0. ASSUME Removing(r, "net"), RemovalThrows(r), UNCHANGED docker PROVE NetworkServesSession'
    BY <2>0, GivesUp DEF Removing
  <2>1. ASSUME Spawning(r, "undoNet"), SpawnThrows(r), failed' = failed \cup {r}, UNCHANGED docker
        PROVE NetworkServesSession'
    <3>1. CASE r \in ClaudeRuns /\ session[r]
      BY <2>1, <3>1 DEF Spawning, SpawnThrows, Interrupting, Ended
    <3>2. CASE ~(r \in ClaudeRuns /\ session[r])
      BY <2>1, <3>2 DEF Spawning, SpawnThrows, Ended
    <3> QED BY <3>1, <3>2
  <2> QED BY <2>0, <2>1, <1>24 DEF NetFails
<1>25. ASSUME LoopEnds PROVE NetworkServesSession'
  BY <1>25 DEF LoopEnds
<1>26. ASSUME Start PROVE NetworkServesSession'
  BY <1>26 DEF Start, Persisted, Interrupting, Ended
<1>27. ASSUME Close PROVE NetworkServesSession'
  BY <1>27 DEF Close, Persisted, Interrupting, Ended
<1>28. ASSUME Crash PROVE NetworkServesSession'
  BY <1>28 DEF Crash
<1>29. ASSUME NEW r \in Runs, ClientCreates(r) \/ ClientDies(r) \/ ProviderExits(r) PROVE
    NetworkServesSession'
  BY <1>29 DEF ClientCreates, ClientDies, ProviderExits
<1>30. ASSUME NEW r \in Runs, ClientStarts(r) PROVE NetworkServesSession'
  BY <1>30 DEF ClientStarts
<1>31. ASSUME UNCHANGED vars PROVE NetworkServesSession'
  BY <1>31 DEF vars
<1>. QED BY <1>1, <1>2, <1>3, <1>4, <1>5, <1>6, <1>7, <1>8, <1>9, <1>10, <1>11, <1>12, <1>13,
    <1>14, <1>15, <1>16, <1>17, <1>18, <1>19, <1>20, <1>21, <1>22, <1>23, <1>24, <1>25, <1>26,
    <1>27, <1>28, <1>29, <1>30, <1>31 DEF Next, SpawnStep, RemovalStep, Docker

\* The whole invariant is inductive,
LEMMA ContStep == ContInv /\ [Next]_vars => ContInv'
BY TypeStep, ThreadStep, HandsStep, SessionsStep, KeptStep, StartStep, ServesStep DEF ContInv

\* holds at first,
LEMMA ContInit == Init => ContInv
<1> SUFFICES ASSUME Init PROVE ContInv
  OBVIOUS
<1> USE ContainerAssumption DEF Init, Idle
<1>1. thread \in [job : Job, rest : SUBSET Runs, run : Runs \cup {NoRun}, step : Step,
                   hard : BOOLEAN]
  BY DEF Job, Step
<1>2. TypeOK
  BY <1>1 DEF TypeOK, Row, Client
<1>3. ThreadFits /\ SessionsFit /\ StartFits
  BY DEF ThreadFits, SessionsFit, StartFits
<1>4. HandsFit /\ Kept /\ NetworkServesSession
  BY DEF HandsFit, Handles, Kept, NetworkServesSession
<1>. QED BY <1>2, <1>3, <1>4 DEF ContInv

\* and always.
LEMMA ContHolds == Spec => []ContInv
BY ContInit, ContStep, PTL DEF Spec

\* The types of the daemon's thread, of the sessions and of the docker objects.
THEOREM ContainersTyped == Spec => []TypeOK
BY ContHolds, PTL DEF ContInv

\* For any number of runs, wherever docker fails and whatever is retried: no removal and no
\* failed spawn takes the network or the proxy of a live session away.
THEOREM NetworksServe == Spec => []NetworkServesSession
BY ContHolds, PTL DEF ContInv

\* Between two turns of a daemon that serves, what runs without a session have left behind is
\* what an error left behind.
THEOREM NothingIsForgotten == Spec => []NothingForgotten
<1>1. ContInv => NothingForgotten
  BY ContainerAssumption
     DEF ContInv, ThreadFits, Kept, NothingForgotten, Free, Idle, Handles
<1>. QED BY <1>1, ContHolds, PTL

\* A session outlives its run only until the interrupts of committed commands are applied, or
\* after an error.
THEOREM EndedLoseSessions == Spec => []EndedHasNoSession
<1>1. ContInv => EndedHasNoSession
  BY ContainerAssumption DEF ContInv, SessionsFit, EndedHasNoSession, Free, Idle
<1>. QED BY <1>1, ContHolds, PTL

\* A daemon begins to serve by the end of its start's loop.
LEMMA ServesByLoopEnds ==
  ASSUME TypeOK, [Next]_vars, daemon = "starting", daemon' = "serving"
  PROVE  LoopEnds
<1> USE DEF Idle, Free, store, docker
<1>1. ASSUME NEW r \in Runs, Submit(r) PROVE LoopEnds
  BY <1>1 DEF Submit
<1>2. ASSUME NEW r \in Runs, Load(r) PROVE LoopEnds
  BY <1>2 DEF Load
<1>3. ASSUME NEW r \in Runs, Replay(r) PROVE LoopEnds
  BY <1>3 DEF Replay
<1>4. ASSUME NEW r \in Runs, Cancel(r) PROVE LoopEnds
  BY <1>4 DEF Cancel, Live, Ended
<1>5. ASSUME NEW r \in Runs, Reports(r) PROVE LoopEnds
  BY <1>5 DEF Reports
<1>6. ASSUME NEW r \in Runs, SessionEnds(r) \/ ClientGone(r) PROVE LoopEnds
  BY <1>6 DEF SessionEnds, ClientGone, Interrupting, Ended
<1>7. ASSUME NEW r \in Runs, ApplyInterrupt(r) PROVE LoopEnds
  BY <1>7 DEF ApplyInterrupt, Interrupting
<1>8. ASSUME NEW r \in Runs, BeginSpawn(r) PROVE LoopEnds
  BY <1>8 DEF BeginSpawn, Permitted
<1>9. ASSUME StopAll PROVE LoopEnds
  BY <1>9 DEF StopAll, Ended
<1>10. ASSUME ApplyStopAll PROVE LoopEnds
  BY <1>10 DEF ApplyStopAll, Interrupting
<1>11. ASSUME NEW S \in SUBSET Runs, Sweep(S) PROVE LoopEnds
  BY <1>11 DEF Sweep, Live, Interrupting, Ended
<1>12. ASSUME NEW r \in Runs, NetworkFails(r) PROVE LoopEnds
  BY <1>12 DEF NetworkFails, SpawnThrows, Spawning, Interrupting, Ended
<1>13. ASSUME NEW r \in Runs, CreateNetwork(r) PROVE LoopEnds
  BY <1>13 DEF CreateNetwork, To, Spawning
<1>14. ASSUME NEW r \in Runs, StartProxy(r) PROVE LoopEnds
  BY <1>14 DEF StartProxy, To, Spawning
<1>15. ASSUME NEW r \in Runs, ConnectProxy(r) PROVE LoopEnds
  BY <1>15 DEF ConnectProxy, To, Spawning
<1>16. ASSUME NEW r \in Runs, PrepareFails(r) PROVE LoopEnds
  BY <1>16 DEF PrepareFails, Undone, To, Spawning
<1>17. ASSUME NEW r \in Runs, SpawnChild(r) PROVE LoopEnds
  BY <1>17 DEF SpawnChild, Spawning
<1>18. ASSUME NEW r \in Runs, NextRun(r) PROVE LoopEnds
  BY <1>18 DEF NextRun
<1>19. ASSUME NEW r \in Runs, RemoveBox(r) PROVE LoopEnds
  BY <1>19 DEF RemoveBox, Removing, Onwards
<1>20. ASSUME NEW r \in Runs, BoxFails(r) PROVE LoopEnds
  <2>0. ASSUME Removing(r, "box"), RemovalThrows(r), UNCHANGED docker PROVE LoopEnds
    BY <2>0, GivesUp DEF Removing
  <2>b. ASSUME Removing(r, "box"), RemovalThrows(r), box' = [box EXCEPT ![r] = "absent"],
        UNCHANGED <<client, proxy, net>> PROVE LoopEnds
    BY <2>b, GivesUp DEF Removing
  <2> QED BY <2>0, <2>b, <1>20 DEF BoxFails
<1>21. ASSUME NEW r \in Runs, RemoveProxy(r) PROVE LoopEnds
  BY <1>21 DEF RemoveProxy, Removing, Spawning, Onwards, To
<1>22. ASSUME NEW r \in Runs, ProxyFails(r) PROVE LoopEnds
  <2>0. ASSUME Removing(r, "proxy"), RemovalThrows(r), UNCHANGED docker PROVE LoopEnds
    BY <2>0, GivesUp DEF Removing
  <2>1. ASSUME Spawning(r, "undoProxy"), SpawnThrows(r), failed' = failed \cup {r},
        UNCHANGED docker
        PROVE LoopEnds
    <3>1. CASE r \in ClaudeRuns /\ session[r]
      BY <2>1, <3>1 DEF Spawning, SpawnThrows, Interrupting, Ended
    <3>2. CASE ~(r \in ClaudeRuns /\ session[r])
      BY <2>1, <3>2 DEF Spawning, SpawnThrows, Ended
    <3> QED BY <3>1, <3>2
  <2> QED BY <2>0, <2>1, <1>22 DEF ProxyFails
<1>23. ASSUME NEW r \in Runs, RemoveNet(r) PROVE LoopEnds
  <2>e. box[r] # "running" /\ ~proxy[r] /\ net' = [net EXCEPT ![r] = FALSE]
        /\ UNCHANGED <<client, box, proxy>>
    BY <1>23 DEF RemoveNet
  <2>0. ASSUME Removing(r, "net"), Removed(r) PROVE LoopEnds
    <3>1. CASE SecondRemoval(r)
      BY <2>0, <2>e, <3>1 DEF Removing, Removed, SecondRemoval
    <3>2. CASE ~SecondRemoval(r)
      BY <2>0, <2>e, <3>2 DEF Removing, Removed
    <3> QED BY <3>1, <3>2
  <2>1. ASSUME Spawning(r, "undoNet"), SpawnThrows(r), failed' = failed \ {r} PROVE LoopEnds
    <3>1. CASE r \in ClaudeRuns /\ session[r]
      BY <2>1, <2>e, <3>1 DEF Spawning, SpawnThrows, Interrupting, Ended
    <3>2. CASE ~(r \in ClaudeRuns /\ session[r])
      BY <2>1, <2>e, <3>2 DEF Spawning, SpawnThrows, Ended
    <3> QED BY <3>1, <3>2
  <2> QED BY <2>0, <2>1, <1>23 DEF RemoveNet
<1>24. ASSUME NEW r \in Runs, NetFails(r) PROVE LoopEnds
  <2>0. ASSUME Removing(r, "net"), RemovalThrows(r), UNCHANGED docker PROVE LoopEnds
    BY <2>0, GivesUp DEF Removing
  <2>1. ASSUME Spawning(r, "undoNet"), SpawnThrows(r), failed' = failed \cup {r}, UNCHANGED docker
        PROVE LoopEnds
    <3>1. CASE r \in ClaudeRuns /\ session[r]
      BY <2>1, <3>1 DEF Spawning, SpawnThrows, Interrupting, Ended
    <3>2. CASE ~(r \in ClaudeRuns /\ session[r])
      BY <2>1, <3>2 DEF Spawning, SpawnThrows, Ended
    <3> QED BY <3>1, <3>2
  <2> QED BY <2>0, <2>1, <1>24 DEF NetFails
<1>25. ASSUME LoopEnds PROVE LoopEnds
  BY <1>25 DEF LoopEnds
<1>26. ASSUME Start PROVE LoopEnds
  BY <1>26 DEF Start, Persisted, Interrupting, Ended
<1>27. ASSUME Close PROVE LoopEnds
  BY <1>27 DEF Close, Persisted, Interrupting, Ended
<1>28. ASSUME Crash PROVE LoopEnds
  BY <1>28 DEF Crash
<1>29. ASSUME NEW r \in Runs, ClientCreates(r) \/ ClientDies(r) \/ ProviderExits(r) PROVE
    LoopEnds
  BY <1>29 DEF ClientCreates, ClientDies, ProviderExits
<1>30. ASSUME NEW r \in Runs, ClientStarts(r) PROVE LoopEnds
  BY <1>30 DEF ClientStarts
<1>31. ASSUME UNCHANGED vars PROVE LoopEnds
  BY <1>31 DEF vars
<1>. QED BY <1>1, <1>2, <1>3, <1>4, <1>5, <1>6, <1>7, <1>8, <1>9, <1>10, <1>11, <1>12, <1>13,
    <1>14, <1>15, <1>16, <1>17, <1>18, <1>19, <1>20, <1>21, <1>22, <1>23, <1>24, <1>25, <1>26,
    <1>27, <1>28, <1>29, <1>30, <1>31 DEF Next, SpawnStep, RemovalStep, Docker

\* A daemon that serves after a restart has removed every object of the runs it knows.
THEOREM StartsClean == Spec => CleanAtStart
<1>1. ASSUME ContInv, [Next]_vars, daemon = "starting", daemon' = "serving"
      PROVE  \A r \in Persisted : box'[r] # "running" /\ ~proxy'[r] /\ ~net'[r]
  <2>1. LoopEnds
    BY <1>1, ServesByLoopEnds DEF ContInv
  <2>2. thread.run = NoRun /\ thread.rest = {} /\ UNCHANGED docker
    BY <2>1 DEF LoopEnds
  <2> QED BY <1>1, <2>2, ContainerAssumption DEF ContInv, TypeOK, StartFits, Persisted, docker
<1>. QED BY <1>1, ContHolds, PTL DEF Spec, CleanAtStart

-----------------------------------------------------------------------------
(* The fixture's container                                                 *)

\* The relay's bookkeeping is its docker exec processes, until the launcher crashes, and no
\* open connection is without one.
RelayKept ==
  /\ \A c \in Conns : socket[c] => child[c] # "none"
  /\ launcher # "crashed" => relays = Execs
  /\ launcher # "crashed" /\ relay = "closed" => relays = {}
  /\ launcher = "crashed" => relay = "closed" /\ step = "none"

\* A container that is held, or there, was created by the docker run process, which creates
\* no second one; a launcher that stops has closed the relay before it turns to it.
BoxKept ==
  /\ container # "absent" \/ held => runner # "starting"
  /\ launcher \in {"probing", "up", "stopping", "stopped", "unstopped"} => held
  /\ launcher = "stopping" /\ step # "relay" => relay = "closed"
  /\ launcher = "stopping" /\ step = "reap" => container = "absent"
  /\ launcher = "stopped" => relay = "closed" /\ container = "absent"

FixtureInv == FixtureTypeOK /\ RelayKept /\ BoxKept /\ ExecsBounded

\* The types.
LEMMA FixtureTyped ==
  ASSUME FixtureTypeOK, [FixtureNext]_fixtureVars
  PROVE  FixtureTypeOK'
<1> USE DEF FixtureTypeOK, Busy, Over, relayVars, containerVars
<1>1. CASE Found
  BY <1>1 DEF Found, Present
<1>2. CASE NotFound
  BY <1>2 DEF NotFound
<1>3. CASE Cleans
  BY <1>3 DEF Cleans, Present, Fails, Closes, Dispose
<1>4. CASE Launched
  BY <1>4 DEF Launched
<1>5. CASE NotLaunched
  BY <1>5 DEF NotLaunched, Fails, Closes, Dispose
<1>6. CASE ExitedHook
  BY <1>6 DEF ExitedHook, Closes, Dispose
<1>7. CASE RelayAwaited
  BY <1>7 DEF RelayAwaited
<1>8. CASE StopWaited
  BY <1>8 DEF StopWaited, Present
<1>9. CASE DockerStop
  BY <1>9 DEF DockerStop
<1>10. CASE StopSeen
  BY <1>10 DEF StopSeen, Present
<1>11. CASE DockerRemove
  BY <1>11 DEF DockerRemove
<1>12. CASE RemovalFails
  <2>1. CASE Fails
    <3>1. CASE relay = "open"
      BY <2>1, <3>1 DEF Fails, Closes, Dispose
    <3>2. CASE relay # "open"
      BY <2>1, <3>2 DEF Fails, Closes
    <3> QED BY <3>1, <3>2
  <2>2. CASE launcher # "cleaning"
    <3>1. launcher' \in {"unstopped", "failed"} /\ step' = "none"
      BY <1>12, <2>2 DEF RemovalFails
    <3>2. UNCHANGED <<held, stdin, relayVars, containerVars>>
      BY <1>12, <2>2 DEF RemovalFails
    <3> QED BY <3>1, <3>2
  <2> QED BY <1>12, <2>1, <2>2 DEF RemovalFails
<1>13. CASE Reaps
  <2>1. CASE Fails
    <3>1. CASE relay = "open"
      BY <2>1, <3>1 DEF Fails, Closes, Dispose
    <3>2. CASE relay # "open"
      BY <2>1, <3>2 DEF Fails, Closes
    <3> QED BY <3>1, <3>2
  <2>2. CASE launcher # "cleaning"
    BY <1>13, <2>2 DEF Reaps
  <2> QED BY <1>13, <2>1, <2>2 DEF Reaps
<1>14. CASE RelayClosed
  BY <1>14 DEF RelayClosed
<1>15. ASSUME NEW c \in Conns, Healthy(c) PROVE FixtureTypeOK'
  BY <1>15 DEF Healthy
<1>16. ASSUME NEW c \in Conns, Connect(c) PROVE FixtureTypeOK'
  BY <1>16 DEF Connect, Accepts
<1>17. ASSUME NEW c \in Conns, SocketEnds(c) PROVE FixtureTypeOK'
  BY <1>17 DEF SocketEnds, Dispose
<1>18. ASSUME NEW c \in Conns, ChildEnds(c) PROVE FixtureTypeOK'
  BY <1>18 DEF ChildEnds
<1>19. CASE Signal
  BY <1>19 DEF Signal, Closes, Dispose
<1>20. CASE LauncherCrashes
  BY <1>20 DEF LauncherCrashes, Dispose
<1>21. CASE RunnerCreates
  BY <1>21 DEF RunnerCreates
<1>22. CASE RunnerStarts
  BY <1>22 DEF RunnerStarts
<1>23. CASE RunnerExits
  BY <1>23 DEF RunnerExits
<1>24. CASE RunnerDies
  BY <1>24 DEF RunnerDies
<1>25. CASE AutoRemoved
  BY <1>25 DEF AutoRemoved
<1>26. CASE ContainerEnds
  BY <1>26 DEF ContainerEnds
<1>27. CASE DaemonListens \/ DaemonReady \/ DaemonStops
      \/ DaemonHangs
  BY <1>27 DEF DaemonListens, DaemonReady, DaemonStops,
      DaemonHangs, DaemonMoves
<1>28. CASE UNCHANGED fixtureVars
  BY <1>28 DEF fixtureVars
<1>. QED BY <1>1, <1>2, <1>3, <1>4, <1>5, <1>6, <1>7, <1>8, <1>9, <1>10, <1>11, <1>12, <1>13,
    <1>14, <1>15, <1>16, <1>17, <1>18, <1>19, <1>20, <1>21, <1>22, <1>23, <1>24, <1>25, <1>26,
    <1>27, <1>28 DEF FixtureNext, Launcher, DaemonExits

\* The relay's bookkeeping.
LEMMA RelayStep ==
  ASSUME FixtureTypeOK, RelayKept, [FixtureNext]_fixtureVars
  PROVE  RelayKept'
<1> USE DEF FixtureTypeOK, Busy, Over, relayVars, containerVars,
    RelayKept, Execs
<1>1. CASE Found
  BY <1>1 DEF Found, Present
<1>2. CASE NotFound
  BY <1>2 DEF NotFound
<1>3. CASE Cleans
  BY <1>3 DEF Cleans, Present, Fails, Closes, Dispose
<1>4. CASE Launched
  BY <1>4 DEF Launched
<1>5. CASE NotLaunched
  BY <1>5 DEF NotLaunched, Fails, Closes, Dispose
<1>6. CASE ExitedHook
  BY <1>6 DEF ExitedHook, Closes, Dispose
<1>7. CASE RelayAwaited
  BY <1>7 DEF RelayAwaited
<1>8. CASE StopWaited
  BY <1>8 DEF StopWaited, Present
<1>9. CASE DockerStop
  BY <1>9 DEF DockerStop
<1>10. CASE StopSeen
  BY <1>10 DEF StopSeen, Present
<1>11. CASE DockerRemove
  BY <1>11 DEF DockerRemove
<1>12. CASE RemovalFails
  BY <1>12 DEF RemovalFails, Fails, Closes, Dispose
<1>13. CASE Reaps
  BY <1>13 DEF Reaps, Fails, Closes, Dispose
<1>14. CASE RelayClosed
  BY <1>14 DEF RelayClosed
<1>15. ASSUME NEW c \in Conns, Healthy(c) PROVE RelayKept'
  BY <1>15 DEF Healthy
<1>16. ASSUME NEW c \in Conns, Connect(c) PROVE RelayKept'
  BY <1>16 DEF Connect, Accepts
<1>17. ASSUME NEW c \in Conns, SocketEnds(c) PROVE RelayKept'
  BY <1>17 DEF SocketEnds, Dispose
<1>18. ASSUME NEW c \in Conns, ChildEnds(c) PROVE RelayKept'
  BY <1>18 DEF ChildEnds
<1>19. CASE Signal
  BY <1>19 DEF Signal, Closes, Dispose
<1>20. CASE LauncherCrashes
  BY <1>20 DEF LauncherCrashes, Dispose
<1>21. CASE RunnerCreates
  BY <1>21 DEF RunnerCreates
<1>22. CASE RunnerStarts
  BY <1>22 DEF RunnerStarts
<1>23. CASE RunnerExits
  BY <1>23 DEF RunnerExits
<1>24. CASE RunnerDies
  BY <1>24 DEF RunnerDies
<1>25. CASE AutoRemoved
  BY <1>25 DEF AutoRemoved
<1>26. CASE ContainerEnds
  BY <1>26 DEF ContainerEnds
<1>27. CASE DaemonListens \/ DaemonReady \/ DaemonStops
      \/ DaemonHangs
  BY <1>27 DEF DaemonListens, DaemonReady, DaemonStops,
      DaemonHangs, DaemonMoves
<1>28. CASE UNCHANGED fixtureVars
  BY <1>28 DEF fixtureVars
<1>. QED BY <1>1, <1>2, <1>3, <1>4, <1>5, <1>6, <1>7, <1>8, <1>9, <1>10, <1>11, <1>12, <1>13,
    <1>14, <1>15, <1>16, <1>17, <1>18, <1>19, <1>20, <1>21, <1>22, <1>23, <1>24, <1>25, <1>26,
    <1>27, <1>28 DEF FixtureNext, Launcher, DaemonExits

\* The container and the launcher's stop.
LEMMA BoxStep ==
  ASSUME FixtureTypeOK, RelayKept, BoxKept, [FixtureNext]_fixtureVars
  PROVE  BoxKept'
<1> USE DEF FixtureTypeOK, Busy, Over, relayVars, containerVars,
    RelayKept, BoxKept
<1>1. CASE Found
  BY <1>1 DEF Found, Present
<1>2. CASE NotFound
  BY <1>2 DEF NotFound
<1>3. CASE Cleans
  BY <1>3 DEF Cleans, Present, Fails, Closes, Dispose
<1>4. CASE Launched
  BY <1>4 DEF Launched
<1>5. CASE NotLaunched
  BY <1>5 DEF NotLaunched, Fails, Closes, Dispose
<1>6. CASE ExitedHook
  BY <1>6 DEF ExitedHook, Closes, Dispose
<1>7. CASE RelayAwaited
  BY <1>7 DEF RelayAwaited
<1>8. CASE StopWaited
  BY <1>8 DEF StopWaited, Present
<1>9. CASE DockerStop
  BY <1>9 DEF DockerStop
<1>10. CASE StopSeen
  BY <1>10 DEF StopSeen, Present
<1>11. CASE DockerRemove
  BY <1>11 DEF DockerRemove
<1>12. CASE RemovalFails
  BY <1>12 DEF RemovalFails, Fails, Closes, Dispose
<1>13. CASE Reaps
  BY <1>13 DEF Reaps, Fails, Closes, Dispose
<1>14. CASE RelayClosed
  BY <1>14 DEF RelayClosed
<1>15. ASSUME NEW c \in Conns, Healthy(c) PROVE BoxKept'
  BY <1>15 DEF Healthy
<1>16. ASSUME NEW c \in Conns, Connect(c) PROVE BoxKept'
  BY <1>16 DEF Connect, Accepts
<1>17. ASSUME NEW c \in Conns, SocketEnds(c) PROVE BoxKept'
  BY <1>17 DEF SocketEnds, Dispose
<1>18. ASSUME NEW c \in Conns, ChildEnds(c) PROVE BoxKept'
  BY <1>18 DEF ChildEnds
<1>19. CASE Signal
  BY <1>19 DEF Signal, Closes, Dispose
<1>20. CASE LauncherCrashes
  BY <1>20 DEF LauncherCrashes, Dispose
<1>21. CASE RunnerCreates
  BY <1>21 DEF RunnerCreates
<1>22. CASE RunnerStarts
  BY <1>22 DEF RunnerStarts
<1>23. CASE RunnerExits
  BY <1>23 DEF RunnerExits
<1>24. CASE RunnerDies
  BY <1>24 DEF RunnerDies
<1>25. CASE AutoRemoved
  BY <1>25 DEF AutoRemoved
<1>26. CASE ContainerEnds
  BY <1>26 DEF ContainerEnds
<1>27. CASE DaemonListens \/ DaemonReady \/ DaemonStops
      \/ DaemonHangs
  BY <1>27 DEF DaemonListens, DaemonReady, DaemonStops,
      DaemonHangs, DaemonMoves
<1>28. CASE UNCHANGED fixtureVars
  BY <1>28 DEF fixtureVars
<1>. QED BY <1>1, <1>2, <1>3, <1>4, <1>5, <1>6, <1>7, <1>8, <1>9, <1>10, <1>11, <1>12, <1>13,
    <1>14, <1>15, <1>16, <1>17, <1>18, <1>19, <1>20, <1>21, <1>22, <1>23, <1>24, <1>25, <1>26,
    <1>27, <1>28 DEF FixtureNext, Launcher, DaemonExits

\* Processes only come one at a time, and only where the relay accepts a connection.
LEMMA ExecsStep ==
  ASSUME FixtureTypeOK, RelayKept, [FixtureNext]_fixtureVars
  PROVE  \/ Execs' \subseteq Execs
         \/ \E c \in Conns : /\ Accepts /\ launcher # "crashed" /\ c \notin relays
                             /\ Execs' = Execs \cup {c}
<1> DEFINE ExecsMove ==
      \/ Execs' \subseteq Execs
      \/ \E c \in Conns : /\ Accepts /\ launcher # "crashed" /\ c \notin relays
                          /\ Execs' = Execs \cup {c}
<1> SUFFICES ExecsMove
  OBVIOUS
<1> USE DEF FixtureTypeOK, Busy, Over, relayVars, containerVars,
    RelayKept, Execs
<1>1. CASE Found
  BY <1>1 DEF Found, Present
<1>2. CASE NotFound
  BY <1>2 DEF NotFound
<1>3. CASE Cleans
  BY <1>3 DEF Cleans, Present, Fails, Closes, Dispose
<1>4. CASE Launched
  BY <1>4 DEF Launched
<1>5. CASE NotLaunched
  BY <1>5 DEF NotLaunched, Fails, Closes, Dispose
<1>6. CASE ExitedHook
  BY <1>6 DEF ExitedHook, Closes, Dispose
<1>7. CASE RelayAwaited
  BY <1>7 DEF RelayAwaited
<1>8. CASE StopWaited
  BY <1>8 DEF StopWaited, Present
<1>9. CASE DockerStop
  BY <1>9 DEF DockerStop
<1>10. CASE StopSeen
  BY <1>10 DEF StopSeen, Present
<1>11. CASE DockerRemove
  BY <1>11 DEF DockerRemove
<1>12. CASE RemovalFails
  BY <1>12 DEF RemovalFails, Fails, Closes, Dispose
<1>13. CASE Reaps
  BY <1>13 DEF Reaps, Fails, Closes, Dispose
<1>14. CASE RelayClosed
  BY <1>14 DEF RelayClosed
<1>15. ASSUME NEW c \in Conns, Healthy(c) PROVE ExecsMove
  BY <1>15 DEF Healthy
<1>16. ASSUME NEW c \in Conns, Connect(c) PROVE ExecsMove
  BY <1>16 DEF Connect, Accepts
<1>17. ASSUME NEW c \in Conns, SocketEnds(c) PROVE ExecsMove
  BY <1>17 DEF SocketEnds, Dispose
<1>18. ASSUME NEW c \in Conns, ChildEnds(c) PROVE ExecsMove
  BY <1>18 DEF ChildEnds
<1>19. CASE Signal
  BY <1>19 DEF Signal, Closes, Dispose
<1>20. CASE LauncherCrashes
  BY <1>20 DEF LauncherCrashes, Dispose
<1>21. CASE RunnerCreates
  BY <1>21 DEF RunnerCreates
<1>22. CASE RunnerStarts
  BY <1>22 DEF RunnerStarts
<1>23. CASE RunnerExits
  BY <1>23 DEF RunnerExits
<1>24. CASE RunnerDies
  BY <1>24 DEF RunnerDies
<1>25. CASE AutoRemoved
  BY <1>25 DEF AutoRemoved
<1>26. CASE ContainerEnds
  BY <1>26 DEF ContainerEnds
<1>27. CASE DaemonListens \/ DaemonReady \/ DaemonStops
      \/ DaemonHangs
  BY <1>27 DEF DaemonListens, DaemonReady, DaemonStops,
      DaemonHangs, DaemonMoves
<1>28. CASE UNCHANGED fixtureVars
  BY <1>28 DEF fixtureVars
<1>. QED BY <1>1, <1>2, <1>3, <1>4, <1>5, <1>6, <1>7, <1>8, <1>9, <1>10, <1>11, <1>12, <1>13,
    <1>14, <1>15, <1>16, <1>17, <1>18, <1>19, <1>20, <1>21, <1>22, <1>23, <1>24, <1>25, <1>26,
    <1>27, <1>28 DEF FixtureNext, Launcher, DaemonExits

\* So their number stays within the limit.
LEMMA ExecsStayBounded ==
  ASSUME FixtureTypeOK, RelayKept, ExecsBounded,
      [FixtureNext]_fixtureVars
  PROVE  ExecsBounded'
<1>0. IsFiniteSet(Conns) /\ MaxRelays \in Nat
  BY FixtureAssumption
<1>1. IsFiniteSet(Execs) /\ Cardinality(Execs) \in Nat
  BY <1>0, FS_Subset, FS_CardinalityType DEF Execs
<1>2. CASE Execs' \subseteq Execs
  <2>1. IsFiniteSet(Execs') /\ Cardinality(Execs') <= Cardinality(Execs)
    BY <1>1, <1>2, FS_Subset
  <2>2. Cardinality(Execs') \in Nat
    BY <2>1, FS_CardinalityType
  <2>3. Cardinality(Execs) <= MaxRelays
    BY DEF ExecsBounded
  <2>4. Cardinality(Execs') <= MaxRelays
    BY <1>0, <1>1, <2>1, <2>2, <2>3
  <2> QED BY <2>4 DEF ExecsBounded
<1>3. CASE \E c \in Conns : Accepts /\ launcher # "crashed" /\ c \notin relays
                            /\ Execs' = Execs \cup {c}
  <2>1. PICK c \in Conns : /\ Accepts /\ launcher # "crashed" /\ c \notin relays
                           /\ Execs' = Execs \cup {c}
    BY <1>3
  <2>2. c \notin Execs /\ Cardinality(Execs) < MaxRelays
    BY <2>1 DEF RelayKept, Accepts
  <2>3. Cardinality(Execs \cup {c}) = Cardinality(Execs) + 1
    BY <1>1, <2>2, FS_AddElement
  <2>4. Cardinality(Execs') <= MaxRelays
    BY <1>0, <1>1, <2>1, <2>2, <2>3
  <2> QED BY <2>4 DEF ExecsBounded
<1>. QED BY <1>2, <1>3, ExecsStep

\* The invariant holds at first,
LEMMA FixtureInvInit == FixtureInit => FixtureInv
<1> SUFFICES ASSUME FixtureInit PROVE FixtureInv
  OBVIOUS
<1>1. FixtureTypeOK
  BY DEF FixtureInit, FixtureTypeOK, Busy, Over
<1>2. Execs = {}
  BY DEF FixtureInit, Execs
<1>3. RelayKept /\ BoxKept
  BY <1>2 DEF FixtureInit, RelayKept, BoxKept
<1>4. ExecsBounded
  BY <1>2, FixtureAssumption, FS_EmptySet DEF ExecsBounded
<1>. QED BY <1>1, <1>3, <1>4 DEF FixtureInv

\* and always.
LEMMA FixtureHolds == FixtureSpec => []FixtureInv
<1>1. FixtureInit => FixtureInv
  BY FixtureInvInit
<1>2. FixtureInv /\ [FixtureNext]_fixtureVars => FixtureInv'
  BY FixtureTyped, RelayStep, BoxStep, ExecsStayBounded DEF FixtureInv
<1>. QED BY <1>1, <1>2, PTL DEF FixtureSpec

\* For any connections and any limit: the relay keeps its limit, and a launch that was stopped
\* has left no container, no connection and no process.
THEOREM FixtureLeavesNothing == FixtureSpec => []NothingEscapes
<1>1. FixtureInv => NothingEscapes
  <2> SUFFICES ASSUME FixtureInv PROVE NothingEscapes
    OBVIOUS
  <2>1. launcher = "stopped" => Execs = {}
    BY DEF FixtureInv, RelayKept, BoxKept
  <2>2. StoppedLeavesNothing
    BY <2>1 DEF FixtureInv, FixtureTypeOK, RelayKept, BoxKept, StoppedLeavesNothing,
        Execs
  <2> QED BY <2>2 DEF FixtureInv, NothingEscapes
<1>. QED BY <1>1, FixtureHolds, PTL

==============================================================================
