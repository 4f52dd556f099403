------------------------- MODULE CodexDriverProofs -------------------------
(***************************************************************************)
(* The Codex driver implements the store's specification: whatever it does *)
(* to the store's variables is one of the store's own transactions.        *)
(* Everything proved of the store in RunStoreProofs therefore holds of the *)
(* store as this driver uses it.                                           *)
(*                                                                         *)
(* Then what the driver adds to the store: its sessions, the requests they *)
(* hold and the effects that wait fit the rows (`DriverInv').              *)
(***************************************************************************)
EXTENDS CodexDriver, RunStoreProofs

\* The part of the driver's type that says which run a busy drive works for.
DriveType ==
  /\ stage \in [Drives -> Stage]
  /\ driveOf \in [Drives -> Runs \cup {NoRun}]
  /\ \A d \in Drives : stage[d] # "idle" => driveOf[d] \in Runs

\* The busy drives keep their run.
LEMMA DriveTypeStep ==
  ASSUME DriveType, [DriverNext]_allVars
  PROVE  DriveType'
<1>1. CASE UNCHANGED allVars
  BY <1>1 DEF allVars, driverVars, DriveType
<1>2. ASSUME NEW r \in Runs, NEW d \in Drives, NEW k, Begin(d, r, k) PROVE DriveType'
  BY <1>2 DEF DriveType, Begin, Stage
<1>3. ASSUME NEW d \in Drives, End(d), UNCHANGED driveOf PROVE DriveType'
  BY <1>3 DEF DriveType, End, Stage
<1>4. ASSUME NEW S, DropSessions(S), UNCHANGED driveOf PROVE DriveType'
  BY <1>4 DEF DriveType, DropSessions, Stage, Live
<1>5. ASSUME UNCHANGED <<stage, driveOf>> PROVE DriveType'
  BY <1>5 DEF DriveType
<1>6. ASSUME NEW d \in Drives, NEW s \in Stage, stage[d] # "idle",
             stage' = [stage EXCEPT ![d] = s], UNCHANGED driveOf
      PROVE  DriveType'
  BY <1>6 DEF DriveType
<1>7. CASE Command
  <2>1. ASSUME NEW r \in Runs, NEW d \in Drives, NEW t \in Tasks, NEW b \in Bots, Submit(r, t, b, d)
        PROVE  DriveType'
    BY <2>1, <1>2 DEF Submit
  <2>2. ASSUME NEW r \in Runs, NEW d \in Drives, Replay(r, d) \/ Load(r, d) PROVE DriveType'
    BY <2>2, <1>2 DEF Replay, Load
  <2>3. ASSUME NEW a \in Approvals, Resolve(a) PROVE DriveType'
    BY <2>3, <1>5 DEF Resolve
  <2>4. ASSUME NEW r \in Runs, Answer(r) \/ Cancel(r) PROVE DriveType'
    BY <2>4, <1>5 DEF Answer, Cancel
  <2>5. ASSUME Stop PROVE DriveType'
    BY <2>5, <1>5 DEF Stop
  <2>. QED BY <1>7, <2>1, <2>2, <2>3, <2>4, <2>5 DEF Command
<1>8. CASE ApplyEffect
  <2>1. ASSUME NEW r \in Runs, DispatchTool(r) \/ ResumeInput(r) PROVE DriveType'
    BY <2>1, <1>5 DEF DispatchTool, ResumeInput
  <2>2. ASSUME NEW r \in Runs, RejectTool(r) PROVE DriveType'
    BY <2>2, <1>4 DEF RejectTool
  <2>3. ASSUME NEW r \in Runs, InterruptProvider(r) PROVE DriveType'
    BY <2>3, <1>4 DEF InterruptProvider
  <2>4. ASSUME InterruptAll PROVE DriveType'
    BY <2>4, <1>4 DEF InterruptAll
  <2>. QED BY <1>8, <2>1, <2>2, <2>3, <2>4 DEF ApplyEffect
<1>9. ASSUME NEW d \in Drives, Proceed(d) PROVE DriveType'
  <2>1. CASE Spawn(d)
    BY <2>1, <1>6 DEF Spawn, Stage
  <2>2. CASE SpawnFails(d) \/ SpawnRefused(d) \/ BriefFails(d) \/ RequestFails(d) \/ Rejected(d)
    BY <2>2, <1>3 DEF SpawnFails, SpawnRefused, BriefFails, RequestFails, Rejected
  <2>. QED BY <1>9, <2>1, <2>2 DEF Proceed
<1>10. ASSUME NEW d \in Drives, Provider(d) PROVE DriveType'
  <2>1. CASE ThreadStarts(d)
    BY <2>1, <1>3, <1>6 DEF ThreadStarts, Stage
  <2>2. CASE HistoryLoaded(d)
    BY <2>2, <1>3 DEF HistoryLoaded
  <2>3. CASE TurnStarts(d)
    BY <2>3, <1>6 DEF TurnStarts, Stage
  <2>4. ASSUME NEW a \in Approvals, AskApproval(d, a) PROVE DriveType'
    BY <2>4, <1>5 DEF AskApproval
  <2>5. CASE AskInput(d)
    BY <2>5, <1>5 DEF AskInput
  <2>6. CASE AskTooMuch(d) \/ TurnCompletes(d) \/ TurnInterrupted(d) \/ ProviderFails(d)
    BY <2>6, <1>4 DEF AskTooMuch, TurnCompletes, TurnInterrupted, TurnIsOver, ProviderFails
  <2>. QED BY <1>10, <2>1, <2>2, <2>3, <2>4, <2>5, <2>6 DEF Provider
<1>11. CASE SweepAndInterrupt
  BY <1>11, <1>4 DEF SweepAndInterrupt
<1>12. CASE Restart
  BY <1>12 DEF Restart, DriveType, Stage
<1>13. CASE Time
  BY <1>13, <1>5 DEF Time, driverVars
<1>. QED
  BY <1>1, <1>7, <1>8, <1>9, <1>10, <1>11, <1>12, <1>13 DEF DriverNext

-----------------------------------------------------------------------------
(* What the parts of the handlers do to the store                          *)

\* A driver call for an existing run is a step of the store.
LEMMA FailureIsStoreStep ==
  ASSUME NEW r \in Runs,
         \/ FailIfActive(r) \/ EndLoadIfLoading(r) \/ EngineFail(r)
  PROVE  [Next]_vars
<1>1. FailRun(r) \/ EndLoad(r) \/ UNCHANGED vars
  BY DEF FailIfActive, EndLoadIfLoading, EngineFail
<1>2. FailRun(r) \/ EndLoad(r) => DriverCall
  BY DEF DriverCall
<1>. QED BY <1>1, <1>2 DEF Next

LEMMA CodexFailIsStoreStep ==
  ASSUME NEW d \in Drives, driveOf[d] \in Runs, CodexFail(d)
  PROVE  [Next]_vars
<1>1. FailIfActive(driveOf[d]) \/ EndLoadIfLoading(driveOf[d])
  BY DEF CodexFail
<1>. QED BY <1>1, FailureIsStoreStep

\* Every step of the driver is a step of the store or leaves the store alone.
LEMMA StoreStep ==
  ASSUME DriveType, [DriverNext]_allVars
  PROVE  [Next]_vars
<1>1. CASE UNCHANGED allVars
  BY <1>1 DEF allVars
<1>2. CASE Command
  <2>1. ASSUME NEW r \in Runs, NEW d \in Drives, NEW t \in Tasks, NEW b \in Bots, Submit(r, t, b, d)
        PROVE  [Next]_vars
    <3>1. SubmitTask(r, t, b, "native") /\ "native" \in Providers
      BY <2>1, DriveAssumption DEF Submit
    <3>2. OwnerCommand
      BY <3>1 DEF OwnerCommand
    <3>. QED BY <3>2 DEF Next
  <2>2. ASSUME NEW r \in Runs, NEW d \in Drives, Replay(r, d) PROVE [Next]_vars
    BY <2>2 DEF Replay
  <2>3. ASSUME NEW r \in Runs, NEW d \in Drives, Load(r, d) PROVE [Next]_vars
    <3>1. OwnerCommand
      BY <2>3 DEF Load, OwnerCommand
    <3>. QED BY <3>1 DEF Next
  <2>4. ASSUME NEW a \in Approvals, Resolve(a) PROVE [Next]_vars
    <3>1. OwnerCommand
      BY <2>4 DEF Resolve, OwnerCommand
    <3>. QED BY <3>1 DEF Next
  <2>5. ASSUME NEW r \in Runs, Answer(r) \/ Cancel(r) PROVE [Next]_vars
    <3>1. OwnerCommand
      BY <2>5 DEF Answer, Cancel, OwnerCommand
    <3>. QED BY <3>1 DEF Next
  <2>6. ASSUME Stop PROVE [Next]_vars
    BY <2>6 DEF Stop, OwnerCommand, Next
  <2>. QED BY <1>2, <2>1, <2>2, <2>3, <2>4, <2>5, <2>6 DEF Command
<1>3. CASE ApplyEffect
  BY <1>3 DEF ApplyEffect, DispatchTool, RejectTool, ResumeInput, InterruptProvider, InterruptAll
<1>4. ASSUME NEW d \in Drives, Proceed(d) PROVE [Next]_vars
  <2>1. driveOf[d] \in Runs
    BY <1>4 DEF Proceed, SpawnFails, SpawnRefused, Spawn, BriefFails, RequestFails, Rejected,
                RejectionDue, DriveType
  <2>2. CASE SpawnRefused(d) \/ Spawn(d)
    BY <2>2 DEF SpawnRefused, Spawn
  <2>3. CASE SpawnFails(d) \/ BriefFails(d) \/ RequestFails(d) \/ Rejected(d)
    <3>1. EngineFail(driveOf[d]) \/ EndLoadIfLoading(driveOf[d]) \/ CodexFail(d) \/ UNCHANGED vars
      BY <2>3 DEF SpawnFails, BriefFails, RequestFails, Rejected
    <3>. QED BY <3>1, <2>1, FailureIsStoreStep, CodexFailIsStoreStep
  <2>. QED BY <1>4, <2>2, <2>3 DEF Proceed
<1>5. ASSUME NEW d \in Drives, Provider(d) PROVE [Next]_vars
  <2>1. driveOf[d] \in Runs
    BY <1>5 DEF Provider, ThreadStarts, HistoryLoaded, TurnStarts, AskApproval, AskTooMuch,
                AskInput, TurnCompletes, TurnInterrupted, ProviderFails, TakesRequests, Live, DriveType
  <2>2. CASE TurnStarts(d)
    BY <2>2 DEF TurnStarts
  <2>3. CASE HistoryLoaded(d) \/ AskTooMuch(d) \/ TurnInterrupted(d) \/ ProviderFails(d)
    <3>1. EndLoadIfLoading(driveOf[d]) \/ FailIfActive(driveOf[d]) \/ CodexFail(d)
      BY <2>3 DEF HistoryLoaded, AskTooMuch, TurnInterrupted, ProviderFails
    <3>. QED BY <3>1, <2>1, FailureIsStoreStep, CodexFailIsStoreStep
  <2>4. CASE \/ ThreadStarts(d) \/ AskInput(d) \/ TurnCompletes(d)
             \/ \E a \in Approvals : AskApproval(d, a)
    <3>1. \/ MarkRunning(driveOf[d]) \/ RequestInput(driveOf[d]) \/ Complete(driveOf[d])
          \/ \E a \in Approvals : RequestApproval(driveOf[d], a)
          \/ UNCHANGED vars
      BY <2>4 DEF ThreadStarts, AskInput, TurnCompletes, AskApproval
    <3>2. DriverCall \/ UNCHANGED vars
      BY <3>1, <2>1 DEF DriverCall
    <3>. QED BY <3>2 DEF Next
  <2>. QED BY <1>5, <2>2, <2>3, <2>4 DEF Provider
<1>6. CASE SweepAndInterrupt \/ Restart \/ Time
  BY <1>6 DEF SweepAndInterrupt, Restart, Time, Next
<1>. QED BY <1>1, <1>2, <1>3, <1>4, <1>5, <1>6 DEF DriverNext

LEMMA DriveTypeAlways == DriverSpec => []DriveType
<1>1. DriverInit => DriveType
  BY DEF DriverInit, DriveType, Stage
<1>. QED BY <1>1, DriveTypeStep, PTL DEF DriverSpec

\* The Codex driver and the engine implement the store: they never write a row in
\* a way that is not a transaction of the store (codex.ts, engine.ts).
THEOREM DriverImplementsStore == DriverSpec => Spec
<1>1. DriverInit => Init
  BY DEF DriverInit
<1>. QED BY <1>1, StoreStep, DriveTypeAlways, PTL DEF DriverSpec, Spec

\* The admission limits hold while handlers race, retry and restart.
THEOREM DriverKeepsAdmission == DriverSpec => []ConcurrencyBound
  BY DriverImplementsStore, Admission, PTL

\* Stop-all stays quiet whatever late handlers and providers do.
THEOREM DriverKeepsQuiet == DriverSpec => []StopQuiesces
  BY DriverImplementsStore, StopAllQuiesces, PTL

\* What was decided stands, whatever order commands and their effects take.
THEOREM DriverKeepsDecisions == DriverSpec => DecisionsHold
  BY DriverImplementsStore, DecisionsStandForEver, PTL

\* No handler that outlives its run brings it back.
THEOREM DriverKeepsCancellation == DriverSpec => EndingsHold
  BY DriverImplementsStore, EndingsStand, PTL

-----------------------------------------------------------------------------
(* What the driver keeps in memory fits the rows of the store              *)

\* The fields of the drives and the effects that wait
MemoryType ==
  /\ DriveType
  /\ kind \in [Drives -> {"launch", "load"}]
  /\ asked \in [Drives -> Approvals \cup {"none", "input"}]

\* A run has one session at a time: its network's name is taken.
OneSession ==
  \A d, e \in Drives :
    stage[d] \in Live /\ stage[e] \in Live /\ driveOf[d] = driveOf[e] => d = e

\* A busy drive has a run, and a load has one that is over.
BusyWithRun ==
  \A d \in Drives : stage[d] # "idle" =>
    /\ status[driveOf[d]] # "absent"
    /\ kind[d] = "load" => Ended(driveOf[d])

\* A run that succeeded or was interrupted has no session of its launch left.
LaunchLives ==
  \A d \in Drives : kind[d] = "launch" /\ stage[d] \in Live =>
    status[driveOf[d]] \in ActiveStatus \cup {"failed", "canceled"}

\* Turns are those of launches, after markRunning, and only the session of a launch asks.
TurnIsLaunch ==
  \A d \in Drives :
    /\ stage[d] \in {"starting", "turn"} => kind[d] = "launch" /\ session[driveOf[d]]
    /\ asked[d] # "none" => TakesRequests(d)

DriveInv == MemoryType /\ OneSession /\ BusyWithRun /\ LaunchLives /\ TurnIsLaunch

-----------------------------------------------------------------------------
(* How a drive moves                                                       *)

Begins(d) ==
  /\ stage[d] = "idle" /\ stage'[d] = "checking"
  /\ driveOf'[d] \in Runs /\ kind'[d] \in {"launch", "load"}
  /\ status'[driveOf'[d]] # "absent"
  /\ kind'[d] = "load" => status'[driveOf'[d]] \notin ActiveStatus
  /\ kind'[d] = "launch" => status[driveOf'[d]] = "absent" \/ driveOf'[d] \in replayed'

Spawns(d) ==
  /\ stage[d] = "checking" /\ stage' = [stage EXCEPT ![d] = "handshake"]
  /\ SessionOf(driveOf[d]) = {}
  /\ kind[d] = "launch" => Active(driveOf[d])
  /\ UNCHANGED vars

Starts(d) ==
  /\ stage[d] = "handshake" /\ stage'[d] = "starting"
  /\ kind[d] = "launch" /\ session'[driveOf[d]]

Goes(d) == stage[d] = "starting" /\ stage'[d] = "turn"

Ends(d) ==
  /\ stage[d] # "idle" /\ stage'[d] \in {"idle", "rejected"}
  /\ stage[d] \in Live /\ kind[d] = "launch" => status'[driveOf[d]] \notin ActiveStatus

\* Each drive makes one of these moves, or stays, and keeps its run; a run succeeds or is
\* interrupted only with its sessions gone.
DriveMoves ==
  /\ kind' \in [Drives -> {"launch", "load"}]
  /\ asked' \in [Drives -> Approvals \cup {"none", "input"}]
  /\ \A d \in Drives :
       /\ Begins(d) \/ Spawns(d) \/ Starts(d) \/ Goes(d) \/ Ends(d) \/ stage'[d] = stage[d]
       /\ ~Begins(d) => driveOf'[d] = driveOf[d] /\ kind'[d] = kind[d]
       /\ asked'[d] # "none" => stage'[d] \in Live /\ kind'[d] = "launch"
       /\ kind[d] = "launch" /\ stage'[d] \in Live =>
            \/ status'[driveOf[d]] = status[driveOf[d]]
            \/ status'[driveOf[d]] \notin {"succeeded", "interrupted"}

\* The effects of receipts that wait
EndsAreDue ==
  \A e \in todo :
    /\ e.effect \in Effect /\ e.run \in Runs \cup {NoRun}
    /\ e.run # NoRun => status[e.run] # "absent"
    /\ e.run = NoRun => e.effect = "interrupt_provider" /\ latched
    /\ e.effect \in {"interrupt_provider", "reject_tool"} /\ e.run # NoRun => Down(e.run)

\* Whatever is to be interrupted or refused has ended for good, before and after the
\* effect is applied.
LEMMA EndsAreDueStep ==
  ASSUME StoreInv, RunMoves, DriveType, EndsAreDue, [DriverNext]_allVars
  PROVE  EndsAreDue'
<1> USE DEF EndsAreDue, StoreInv, TypeOK, RunMoves, Down, Effect
<1>1. ASSUME NEW r \in Runs, NEW t \in Tasks, NEW b \in Bots, NEW d \in Drives,
    Submit(r, t, b, d) PROVE EndsAreDue'
  BY <1>1 DEF Submit, SubmitTask, Begin
<1>2. ASSUME NEW r \in Runs, NEW d \in Drives, Replay(r, d) PROVE EndsAreDue'
  BY <1>2 DEF Replay, Begin
<1>3. ASSUME NEW r \in Runs, NEW d \in Drives, Load(r, d) PROVE EndsAreDue'
  BY <1>3 DEF Load, LoadSession, Begin
<1>4. ASSUME NEW a \in Approvals, AllowApproval(a), Resolve(a) PROVE EndsAreDue'
  <2>1. approvalRun[a] \in Runs
    BY <1>4 DEF References, ApprovalsWellFormed, AllowApproval, Resolvable, ApprovalState
  <2>2. /\ latched' = latched
        /\ status' = [status EXCEPT ![approvalRun[a]] = "running"]
        /\ status[approvalRun[a]] = "waiting_approval"
        /\ todo' = todo \cup {[effect |-> "dispatch_tool", run |-> approvalRun[a]]}
    BY <1>4 DEF AllowApproval, Resolvable, Resolve, Later, DenyApproval, ResolveTooLate, Expired
  <2>. QED BY <2>1, <2>2, IdentityAssumption
<1>5. ASSUME NEW a \in Approvals, DenyApproval(a) \/ ResolveTooLate(a), Resolve(a) PROVE
    EndsAreDue'
  BY <1>5, IdentityAssumption DEF Resolve, DenyApproval, ResolveTooLate,
      ExpireApprovals, FinishRuns, Resolvable, Later, References, ApprovalsWellFormed
<1>6. ASSUME NEW r \in Runs, Answer(r) PROVE EndsAreDue'
  BY <1>6, IdentityAssumption DEF Answer, AnswerInput, Later
<1>7. ASSUME NEW r \in Runs, Cancel(r) PROVE EndsAreDue'
  BY <1>7, IdentityAssumption DEF Cancel, CancelRun, CancelApprovals, FinishRuns, Later
<1>8. ASSUME Stop PROVE EndsAreDue'
  BY <1>8, IdentityAssumption DEF Stop, StopAll, CancelApprovals, FinishRuns,
      ActiveRuns, Later
<1>9. ASSUME NEW r \in Runs, DispatchTool(r) PROVE EndsAreDue'
  BY <1>9 DEF DispatchTool, Applied
<1>10. ASSUME NEW r \in Runs, RejectTool(r) PROVE EndsAreDue'
  BY <1>10 DEF RejectTool, Applied, DropSessions
<1>11. ASSUME NEW r \in Runs, ResumeInput(r) PROVE EndsAreDue'
  BY <1>11 DEF ResumeInput, Applied
<1>12. ASSUME NEW r \in Runs, InterruptProvider(r) PROVE EndsAreDue'
  BY <1>12 DEF InterruptProvider, Applied, DropSessions
<1>13. ASSUME InterruptAll PROVE EndsAreDue'
  BY <1>13 DEF InterruptAll, Applied, DropSessions
<1>14. ASSUME NEW d \in Drives, BriefFails(d) PROVE EndsAreDue'
  BY <1>14 DEF BriefFails, End
<1>15. ASSUME NEW d \in Drives, SpawnRefused(d) PROVE EndsAreDue'
  BY <1>15 DEF SpawnRefused, End
<1>16. ASSUME NEW d \in Drives, Spawn(d) PROVE EndsAreDue'
  BY <1>16 DEF Spawn
<1>17. ASSUME NEW d \in Drives, SpawnFails(d) PROVE EndsAreDue'
  BY <1>17 DEF SpawnFails, End
<1>18. ASSUME NEW d \in Drives, RequestFails(d) PROVE EndsAreDue'
  BY <1>18 DEF RequestFails, End
<1>19. ASSUME NEW d \in Drives, Rejected(d) PROVE EndsAreDue'
  BY <1>19 DEF Rejected, RejectionDue, End
<1>20. ASSUME NEW d \in Drives, ThreadStarts(d) PROVE EndsAreDue'
  BY <1>20 DEF ThreadStarts, MarkRunning, End
<1>21. ASSUME NEW d \in Drives, HistoryLoaded(d) PROVE EndsAreDue'
  BY <1>21 DEF HistoryLoaded, End
<1>22. ASSUME NEW d \in Drives, TurnStarts(d) PROVE EndsAreDue'
  BY <1>22 DEF TurnStarts
<1>23. ASSUME NEW d \in Drives, NEW a \in Approvals, AskApproval(d, a) PROVE EndsAreDue'
  BY <1>23 DEF AskApproval, RequestApproval, TakesRequests, Unasked
<1>24. ASSUME NEW d \in Drives, AskTooMuch(d) PROVE EndsAreDue'
  BY <1>24 DEF AskTooMuch, TakesRequests, DropSessions
<1>25. ASSUME NEW d \in Drives, AskInput(d) PROVE EndsAreDue'
  BY <1>25 DEF AskInput, RequestInput, TakesRequests, Unasked
<1>26. ASSUME NEW d \in Drives, TurnCompletes(d) PROVE EndsAreDue'
  BY <1>26 DEF TurnCompletes, TurnIsOver, Complete, FinishRuns, TakesRequests, DropSessions
<1>27. ASSUME NEW d \in Drives, ProviderFails(d) PROVE EndsAreDue'
  BY <1>27 DEF ProviderFails, DropSessions
<1>32. ASSUME NEW d \in Drives, TurnInterrupted(d) PROVE EndsAreDue'
  BY <1>32 DEF TurnInterrupted, TurnIsOver, DropSessions
<1>28. ASSUME SweepAndInterrupt PROVE EndsAreDue'
  BY <1>28 DEF SweepAndInterrupt, DropSessions
<1>29. ASSUME Restart PROVE EndsAreDue'
  BY <1>29 DEF Restart, InterruptActive, ActiveRuns
<1>30. ASSUME Time PROVE EndsAreDue'
  BY <1>30 DEF Time, Tick, driverVars
<1>31. ASSUME UNCHANGED allVars PROVE EndsAreDue'
  BY <1>31 DEF allVars, driverVars, vars
<1>. QED BY <1>1, <1>2, <1>3, <1>4, <1>5, <1>6, <1>7, <1>8, <1>9, <1>10, <1>11, <1>12,
    <1>13, <1>14, <1>15, <1>16, <1>17, <1>18, <1>19, <1>20, <1>21, <1>22, <1>23, <1>24,
    <1>25, <1>26, <1>27, <1>28, <1>29, <1>30, <1>31, <1>32 DEF DriverNext, Command,
    ApplyEffect, Proceed, Provider, Resolve

\* A failure ends the run, or else the load that it shows, and touches nothing else.
Harmless(r) ==
  /\ UNCHANGED <<latched, session, approval, approvalRun, launch>>
  /\ \A q \in Runs :
       /\ status'[q] # status[q] => q = r /\ status'[q] = "failed"
       /\ loading'[q] => loading[q]

LEMMA FailRunEffect ==
  ASSUME NEW r \in Runs, StoreInv, FailRun(r)
  PROVE  Harmless(r) /\ status'[r] \notin ActiveStatus /\ ~Ended(r)
<1>1. /\ UNCHANGED <<latched, session, loading, approval, approvalRun, launch>>
      /\ status' = [q \in Runs |-> IF q = r THEN "failed" ELSE status[q]]
      /\ status[r] \in ActiveStatus
  BY DEF FailRun, FinishRuns, Active, approvalVars
<1>. QED BY <1>1 DEF Harmless, ActiveStatus, Ended

LEMMA EndLoadEffect ==
  ASSUME NEW r \in Runs, StoreInv, EndLoadIfLoading(r)
  PROVE  Harmless(r) /\ ~loading'[r] /\ status' = status
BY DEF EndLoadIfLoading, EndLoad, Harmless, StoreInv, TypeOK, vars, runVars, approvalVars

LEMMA FailIfActiveEffect ==
  ASSUME NEW r \in Runs, StoreInv, FailIfActive(r)
  PROVE  Harmless(r) /\ status'[r] \notin ActiveStatus
<1>1. CASE FailRun(r)
  BY <1>1, FailRunEffect
<1>2. CASE UNCHANGED vars /\ ~Active(r)
  BY <1>2, ActiveIsServed DEF Harmless, vars, runVars, approvalVars
<1>. QED BY <1>1, <1>2 DEF FailIfActive

LEMMA EngineFailEffect ==
  ASSUME NEW r \in Runs, StoreInv, EngineFail(r)
  PROVE  Harmless(r) /\ status'[r] \notin ActiveStatus /\ (Ended(r) => ~loading'[r])
<1>1. CASE FailRun(r)
  BY <1>1, FailRunEffect
<1>2. CASE EndLoadIfLoading(r) /\ ~Active(r)
  BY <1>2, EndLoadEffect, ActiveIsServed
<1>. QED BY <1>1, <1>2 DEF EngineFail

\* failRun of codex.ts ends a launch's run, or the load that the run shows.
LEMMA CodexFailEffect ==
  ASSUME NEW d \in Drives, driveOf[d] \in Runs, StoreInv, CodexFail(d)
  PROVE  /\ Harmless(driveOf[d])
         /\ kind[d] # "load" => status'[driveOf[d]] \notin ActiveStatus
         /\ kind[d] = "load" => ~loading'[driveOf[d]] /\ status' = status
BY EndLoadEffect, FailIfActiveEffect DEF CodexFail

\* The sweep fails the runs that its interrupts are for.
LEMMA SweepEffect ==
  ASSUME SweepAndInterrupt
  PROVE  /\ status' = [r \in Runs |-> IF r \in SweptRuns THEN "failed" ELSE status[r]]
         /\ approval' = [a \in Approvals |-> IF a \in LateApprovals THEN "expired" ELSE approval[a]]
         /\ UNCHANGED <<latched, session, loading, approvalRun>>
BY DEF SweepAndInterrupt, Sweep, SweptRuns, FinishRuns, ExpireApprovals

\* A run has one session to drop.
LEMMA DropsOne ==
  ASSUME MemoryType, OneSession, NEW d \in Drives, stage[d] \in Live, DropSessions({driveOf[d]})
  PROVE  /\ stage' = [stage EXCEPT ![d] = IF stage[d] = "turn" THEN "idle" ELSE "rejected"]
         /\ asked' = [asked EXCEPT ![d] = "none"]
<1>1. {e \in Drives : driveOf[e] \in {driveOf[d]} /\ stage[e] \in Live} = {d}
  BY DEF OneSession
<1>2. /\ stage' = [e \in Drives |-> IF e # d THEN stage[e]
                                  ELSE IF stage[e] = "turn" THEN "idle" ELSE "rejected"]
      /\ asked' = [e \in Drives |-> IF e = d THEN "none" ELSE asked[e]]
  BY <1>1 DEF DropSessions
<1>. QED BY <1>2 DEF MemoryType, DriveType

\* Every step of the driver moves its drives so.
LEMMA DriveMovesStep ==
  ASSUME StoreInv, RunMoves, DriveInv, EndsAreDue, DriverNext
  PROVE  DriveMoves
<1>s. \A r \in Runs : status[r] \in ActiveStatus <=> Active(r)
  BY ActiveIsServed DEF Active
<1> USE DEF DriveInv, MemoryType, DriveType, TurnIsLaunch, DriveMoves, Begins, Spawns,
    Starts, Goes, Ends, StoreInv, TypeOK, Ended, Live, Stage, TakesRequests, ActiveStatus,
    approvalVars, runVars, taskVars, handoffVars, vars
<1>1. ASSUME NEW r \in Runs, NEW t \in Tasks, NEW b \in Bots, NEW d \in Drives,
    Submit(r, t, b, d) PROVE DriveMoves
  BY <1>1, RequestAssumption DEF Submit, SubmitTask, Begin
<1>2. ASSUME NEW r \in Runs, NEW d \in Drives, Replay(r, d) PROVE DriveMoves
  BY <1>2, RequestAssumption DEF Replay, Begin, AbsentIsBare
<1>3. ASSUME NEW r \in Runs, NEW d \in Drives, Load(r, d) PROVE DriveMoves
  BY <1>3, RequestAssumption DEF Load, LoadSession, Begin, RowsAgree,
      LaunchIntentMatches
<1>4. ASSUME NEW a \in Approvals, AllowApproval(a), Resolve(a) PROVE DriveMoves
  BY <1>4, RequestAssumption DEF Resolve, AllowApproval, Resolvable, Later
<1>5. ASSUME NEW a \in Approvals, DenyApproval(a) \/ ResolveTooLate(a), Resolve(a) PROVE
    DriveMoves
  BY <1>5, RequestAssumption DEF Resolve, DenyApproval, ResolveTooLate, ExpireApprovals,
      FinishRuns, Resolvable, Later
<1>6. ASSUME NEW r \in Runs, Answer(r) PROVE DriveMoves
  BY <1>6, RequestAssumption DEF Answer, AnswerInput, Later
<1>7. ASSUME NEW r \in Runs, Cancel(r) PROVE DriveMoves
  BY <1>7, RequestAssumption DEF Cancel, CancelRun, CancelApprovals, FinishRuns, Later
<1>8. ASSUME Stop PROVE DriveMoves
  BY <1>8, RequestAssumption DEF Stop, StopAll, CancelApprovals, FinishRuns, ActiveRuns,
      Later
<1>9. ASSUME NEW r \in Runs, DispatchTool(r) PROVE DriveMoves
  BY <1>9, RequestAssumption DEF DispatchTool, Applied
<1>10. ASSUME NEW r \in Runs, RejectTool(r) PROVE DriveMoves
  BY <1>10, RequestAssumption, IdentityAssumption DEF RejectTool, Applied, DropSessions,
      EndsAreDue, Down
<1>11. ASSUME NEW r \in Runs, ResumeInput(r) PROVE DriveMoves
  BY <1>11, RequestAssumption DEF ResumeInput, Applied
<1>12. ASSUME NEW r \in Runs, InterruptProvider(r) PROVE DriveMoves
  BY <1>12, RequestAssumption, IdentityAssumption DEF InterruptProvider, Applied,
      DropSessions, EndsAreDue, Down
<1>13. ASSUME InterruptAll PROVE DriveMoves
  BY <1>13, RequestAssumption, <1>s DEF InterruptAll, Applied, DropSessions, EndsAreDue,
      Active
<1>14. ASSUME NEW d \in Drives, BriefFails(d) PROVE DriveMoves
  BY <1>14, RequestAssumption, EngineFailEffect DEF BriefFails, End, Harmless
<1>15. ASSUME NEW d \in Drives, SpawnRefused(d) PROVE DriveMoves
  BY <1>15, RequestAssumption DEF SpawnRefused, End
<1>16. ASSUME NEW d \in Drives, Spawn(d) PROVE DriveMoves
  <2>1. \A e \in Drives : e = d => Spawns(e)
    BY <1>16 DEF Spawn, Permitted, vars
  <2>2. \A e \in Drives : e # d => stage'[e] = stage[e]
    BY <1>16 DEF Spawn
  <2>. QED BY <1>16, <2>1, <2>2, RequestAssumption DEF Spawn
<1>17. ASSUME NEW d \in Drives, SpawnFails(d) PROVE DriveMoves
  <2>1. driveOf[d] \in Runs /\ stage[d] = "checking"
    BY <1>17 DEF SpawnFails
  <2>2. stage' = [stage EXCEPT ![d] = "idle"] /\ asked' = [asked EXCEPT ![d] = "none"]
        /\ UNCHANGED <<driveOf, kind>>
    BY <1>17 DEF SpawnFails, End
  <2>3. Harmless(driveOf[d]) \/ UNCHANGED status
    BY <1>17, <2>1, EngineFailEffect, EndLoadEffect DEF SpawnFails
  <2>. QED BY <2>1, <2>2, <2>3 DEF Harmless
<1>18. ASSUME NEW d \in Drives, RequestFails(d) PROVE DriveMoves
  <2>1. driveOf[d] \in Runs /\ stage[d] \in {"handshake", "starting"}
    BY <1>18 DEF RequestFails
  <2>2. stage' = [stage EXCEPT ![d] = "idle"] /\ asked' = [asked EXCEPT ![d] = "none"]
        /\ UNCHANGED <<driveOf, kind>>
    BY <1>18 DEF RequestFails, End
  <2>3. Harmless(driveOf[d]) /\ (kind[d] = "launch" => status'[driveOf[d]] \notin ActiveStatus)
    BY <1>18, <2>1, EngineFailEffect, CodexFailEffect DEF RequestFails
  <2>. QED BY <2>1, <2>2, <2>3 DEF Harmless
<1>19. ASSUME NEW d \in Drives, Rejected(d) PROVE DriveMoves
  BY <1>19, RequestAssumption, EngineFailEffect DEF Rejected, RejectionDue, End,
      Harmless
<1>20. ASSUME NEW d \in Drives, ThreadStarts(d) PROVE DriveMoves
  BY <1>20, RequestAssumption, <1>s DEF ThreadStarts, MarkRunning, End
<1>21. ASSUME NEW d \in Drives, HistoryLoaded(d) PROVE DriveMoves
  BY <1>21, RequestAssumption, EndLoadEffect DEF HistoryLoaded, End, Harmless
<1>22. ASSUME NEW d \in Drives, TurnStarts(d) PROVE DriveMoves
  BY <1>22, RequestAssumption DEF TurnStarts
<1>23. ASSUME NEW d \in Drives, NEW a \in Approvals, AskApproval(d, a) PROVE DriveMoves
  BY <1>23, RequestAssumption DEF AskApproval, RequestApproval, TakesRequests, Unasked
<1>24. ASSUME NEW d \in Drives, AskTooMuch(d) PROVE DriveMoves
  BY <1>24, RequestAssumption, FailIfActiveEffect DEF AskTooMuch, TakesRequests, DropSessions,
      Harmless
<1>25. ASSUME NEW d \in Drives, AskInput(d) PROVE DriveMoves
  BY <1>25, RequestAssumption DEF AskInput, RequestInput, TakesRequests, Unasked
<1>26. ASSUME NEW d \in Drives, TurnCompletes(d) PROVE DriveMoves
  BY <1>26, RequestAssumption, <1>s DEF TurnCompletes, TurnIsOver, Complete, FinishRuns, TakesRequests,
      DropSessions, OneSession
<1>27. ASSUME NEW d \in Drives, ProviderFails(d) PROVE DriveMoves
  <2>1. driveOf[d] \in Runs /\ stage[d] \in Live
    BY <1>27 DEF ProviderFails
  <2>3. stage' = [stage EXCEPT ![d] = IF stage[d] = "turn" THEN "idle" ELSE "rejected"]
        /\ asked' = [asked EXCEPT ![d] = "none"] /\ UNCHANGED <<driveOf, kind>>
    BY <1>27, <2>1, DropsOne DEF ProviderFails
  <2>4. Harmless(driveOf[d]) /\ (kind[d] = "launch" => status'[driveOf[d]] \notin ActiveStatus)
    BY <1>27, <2>1, CodexFailEffect DEF ProviderFails
  <2>. QED BY <2>1, <2>3, <2>4 DEF Harmless
<1>32. ASSUME NEW d \in Drives, TurnInterrupted(d) PROVE DriveMoves
  <2>1. driveOf[d] \in Runs /\ stage[d] \in Live
    BY <1>32 DEF TurnInterrupted
  <2>3. stage' = [stage EXCEPT ![d] = IF stage[d] = "turn" THEN "idle" ELSE "rejected"]
        /\ asked' = [asked EXCEPT ![d] = "none"] /\ UNCHANGED <<driveOf, kind>>
    BY <1>32, <2>1, DropsOne DEF TurnInterrupted, TurnIsOver
  <2>4. Harmless(driveOf[d]) /\ (kind[d] = "launch" => status'[driveOf[d]] \notin ActiveStatus)
    BY <1>32, <2>1, FailIfActiveEffect DEF TurnInterrupted
  <2>. QED BY <2>1, <2>3, <2>4 DEF Harmless
<1>28. ASSUME SweepAndInterrupt PROVE DriveMoves
  BY <1>28, RequestAssumption, SweepEffect DEF SweepAndInterrupt, DropSessions
<1>29. ASSUME Restart PROVE DriveMoves
  BY <1>29, RequestAssumption DEF Restart, InterruptActive, ActiveRuns
<1>30. ASSUME Time PROVE DriveMoves
  BY <1>30, RequestAssumption DEF Time, Tick, driverVars
<1>31. ASSUME UNCHANGED allVars PROVE DriveMoves
  BY <1>31, RequestAssumption DEF allVars, driverVars, vars
<1>. QED BY <1>1, <1>2, <1>3, <1>4, <1>5, <1>6, <1>7, <1>8, <1>9, <1>10, <1>11, <1>12,
    <1>13, <1>14, <1>15, <1>16, <1>17, <1>18, <1>19, <1>20, <1>21, <1>22, <1>23, <1>24,
    <1>25, <1>26, <1>27, <1>28, <1>29, <1>30, <1>31, <1>32 DEF DriverNext, Command,
    ApplyEffect, Proceed, Provider, Resolve


\* The moves keep the invariant of the drives.
LEMMA DriveInvStep ==
  ASSUME StoreInv, StoreInv', RunMoves, DriveInv, DriveType', DriveMoves
  PROVE  DriveInv'
<1> USE DEF DriveInv, MemoryType, DriveType, Begins, Spawns, Starts, Goes, Ends, Live, Stage, TakesRequests
<1>1. MemoryType'
  BY DEF DriveMoves
<1>2. OneSession'
  <2> SUFFICES ASSUME NEW d \in Drives, NEW e \in Drives, stage'[d] \in Live, stage'[e] \in Live,
                      driveOf'[d] = driveOf'[e], d # e
               PROVE  FALSE
    BY DEF OneSession
  <2>1. /\ stage[d] \in Live \/ Spawns(d)
        /\ stage[e] \in Live \/ Spawns(e)
        /\ driveOf[d] = driveOf[e]
    BY DEF DriveMoves
  <2>. QED BY <2>1 DEF OneSession, SessionOf
<1>3. BusyWithRun'
  BY DEF DriveMoves, BusyWithRun, RunMoves, Ended
<1>4. LaunchLives'
  <2> SUFFICES ASSUME NEW d \in Drives, kind'[d] = "launch", stage'[d] \in Live
               PROVE  status'[driveOf'[d]] \in ActiveStatus \cup {"failed", "canceled"}
    BY DEF LaunchLives
  <2>1. /\ kind[d] = "launch" /\ driveOf'[d] = driveOf[d] /\ driveOf[d] \in Runs
        /\ stage[d] \in Live \/ Spawns(d)
    BY DEF DriveMoves
  <2>2. status[driveOf[d]] \in ActiveStatus \cup {"failed", "canceled"}
    BY <2>1 DEF LaunchLives, Active
  <2>3. /\ status'[driveOf[d]] # "absent" /\ status'[driveOf[d]] \in RunStatus
        /\ \/ status'[driveOf[d]] = status[driveOf[d]]
           \/ status'[driveOf[d]] \notin {"succeeded", "interrupted"}
    BY <2>1, <2>2 DEF DriveMoves, RunMoves, StoreInv, TypeOK, ActiveStatus
  <2>. QED BY <2>1, <2>2, <2>3 DEF RunStatus, FinishedStatus
<1>5. TurnIsLaunch'
  BY DEF DriveMoves, TurnIsLaunch, RunMoves
<1>. QED BY <1>1, <1>2, <1>3, <1>4, <1>5

-----------------------------------------------------------------------------
(* Who holds the requests that wait for the owner                          *)

Due(e, r) == [effect |-> e, run |-> r] \in todo

\* The session of an active run holds its pending approval, or the input it waits for.
PendingHasAsker ==
  \A a \in Approvals : approval[a] = "pending" /\ status[approvalRun[a]] \in ActiveStatus =>
    \E d \in SessionOf(approvalRun[a]) : asked[d] = a

InputHasAsker ==
  \A r \in Runs : status[r] = "waiting_input" => \E d \in SessionOf(r) : asked[d] = "input"

\* The answer to an approval will meet the approval that was allowed, and it alone.
DispatchMeetsAllowed ==
  \A r \in Runs : Due("dispatch_tool", r) =>
    /\ status[r] \in ActiveStatus => \E d \in SessionOf(r) : asked[d] \in Approvals
    /\ \A d \in SessionOf(r) : asked[d] \in Approvals => approval[asked[d]] = "allowed"

\* The owner's input will meet the request for it.
ResumeMeetsInput ==
  \A r \in Runs : Due("resume_input", r) /\ status[r] \in ActiveStatus =>
    /\ status[r] # "waiting_input"
    /\ \E d \in SessionOf(r) : asked[d] = "input"

\* A refusal will meet the request it is for, and no other answer is on its way.
RejectMeetsRequest ==
  \A r \in Runs : Due("reject_tool", r) =>
    /\ ~Due("dispatch_tool", r) /\ ~Due("resume_input", r)
    /\ \A d \in SessionOf(r) : kind[d] = "launch" => asked[d] # "none"

RequestInv ==
  PendingHasAsker /\ InputHasAsker /\ DispatchMeetsAllowed /\ ResumeMeetsInput
    /\ RejectMeetsRequest

\* Steps that make, answer or decide no request
Quiet ==
  /\ \A a \in Approvals : approval'[a] = "pending" =>
       approval[a] = "pending" /\ approvalRun'[a] = approvalRun[a]
  /\ \A r \in Runs : status'[r] = "waiting_input" => status[r] = "waiting_input"
  /\ \A e \in todo' : e \in todo \/ e.effect = "interrupt_provider"
  /\ \A d \in Drives : stage'[d] \in Live => asked'[d] = asked[d]

Asks ==
  \/ \E a \in Approvals : Resolve(a)
  \/ \E r \in Runs : Answer(r) \/ DispatchTool(r) \/ ResumeInput(r)
  \/ \E d \in Drives : AskInput(d) \/ \E a \in Approvals : AskApproval(d, a)

\* All others are quiet.
LEMMA QuietStep ==
  ASSUME StoreInv, DriveInv, DriverNext
  PROVE  Quiet \/ Asks
<1> USE DEF DriveInv, MemoryType, DriveType, TurnIsLaunch, StoreInv, TypeOK, Live, Stage,
            TakesRequests, Quiet, Asks, approvalVars, runVars, taskVars, handoffVars, vars
<1>1. ASSUME NEW r \in Runs, NEW t \in Tasks, NEW b \in Bots, NEW d \in Drives,
    Submit(r, t, b, d) PROVE Quiet \/ Asks
  BY <1>1 DEF Submit, SubmitTask, Begin
<1>2. ASSUME NEW r \in Runs, NEW d \in Drives, Replay(r, d) PROVE Quiet \/ Asks
  BY <1>2 DEF Replay, Begin
<1>3. ASSUME NEW r \in Runs, NEW d \in Drives, Load(r, d) PROVE Quiet \/ Asks
  BY <1>3 DEF Load, LoadSession, Begin
<1>4. ASSUME NEW a \in Approvals, AllowApproval(a), Resolve(a) PROVE Quiet \/ Asks
  BY <1>4
<1>5. ASSUME NEW a \in Approvals, DenyApproval(a) \/ ResolveTooLate(a), Resolve(a) PROVE
    Quiet \/ Asks
  BY <1>5
<1>6. ASSUME NEW r \in Runs, Answer(r) PROVE Quiet \/ Asks
  BY <1>6
<1>7. ASSUME NEW r \in Runs, Cancel(r) PROVE Quiet \/ Asks
  BY <1>7 DEF Cancel, CancelRun, CancelApprovals, FinishRuns, Later
<1>8. ASSUME Stop PROVE Quiet \/ Asks
  BY <1>8 DEF Stop, StopAll, CancelApprovals, FinishRuns, ActiveRuns, Later
<1>9. ASSUME NEW r \in Runs, DispatchTool(r) PROVE Quiet \/ Asks
  BY <1>9
<1>10. ASSUME NEW r \in Runs, RejectTool(r) PROVE Quiet \/ Asks
  BY <1>10 DEF RejectTool, Applied, DropSessions
<1>11. ASSUME NEW r \in Runs, ResumeInput(r) PROVE Quiet \/ Asks
  BY <1>11
<1>12. ASSUME NEW r \in Runs, InterruptProvider(r) PROVE Quiet \/ Asks
  BY <1>12 DEF InterruptProvider, Applied, DropSessions
<1>13. ASSUME InterruptAll PROVE Quiet \/ Asks
  BY <1>13 DEF InterruptAll, Applied, DropSessions
<1>14. ASSUME NEW d \in Drives, BriefFails(d) PROVE Quiet \/ Asks
  BY <1>14, EngineFailEffect DEF BriefFails, End, Harmless
<1>15. ASSUME NEW d \in Drives, SpawnRefused(d) PROVE Quiet \/ Asks
  BY <1>15 DEF SpawnRefused, End
<1>16. ASSUME NEW d \in Drives, Spawn(d) PROVE Quiet \/ Asks
  BY <1>16 DEF Spawn
<1>17. ASSUME NEW d \in Drives, SpawnFails(d) PROVE Quiet \/ Asks
  <2>1. driveOf[d] \in Runs /\ stage[d] = "checking"
    BY <1>17 DEF SpawnFails
  <2>2. stage' = [stage EXCEPT ![d] = "idle"] /\ asked' = [asked EXCEPT ![d] = "none"]
        /\ UNCHANGED <<driveOf, kind, todo>>
    BY <1>17 DEF SpawnFails, End
  <2>3. Harmless(driveOf[d]) \/ UNCHANGED vars
    BY <1>17, <2>1, EngineFailEffect, EndLoadEffect DEF SpawnFails
  <2>. QED BY <2>1, <2>2, <2>3 DEF Harmless
<1>18. ASSUME NEW d \in Drives, RequestFails(d) PROVE Quiet \/ Asks
  <2>1. driveOf[d] \in Runs /\ stage[d] \in {"handshake", "starting"}
    BY <1>18 DEF RequestFails
  <2>2. stage' = [stage EXCEPT ![d] = "idle"] /\ asked' = [asked EXCEPT ![d] = "none"]
        /\ UNCHANGED <<driveOf, kind, todo>>
    BY <1>18 DEF RequestFails, End
  <2>3. Harmless(driveOf[d])
    BY <1>18, <2>1, EngineFailEffect, CodexFailEffect DEF RequestFails
  <2>. QED BY <2>1, <2>2, <2>3 DEF Harmless
<1>19. ASSUME NEW d \in Drives, Rejected(d) PROVE Quiet \/ Asks
  BY <1>19, EngineFailEffect DEF Rejected, RejectionDue, End, Harmless
<1>20. ASSUME NEW d \in Drives, ThreadStarts(d) PROVE Quiet \/ Asks
  BY <1>20 DEF ThreadStarts, MarkRunning, End
<1>21. ASSUME NEW d \in Drives, HistoryLoaded(d) PROVE Quiet \/ Asks
  BY <1>21, EndLoadEffect DEF HistoryLoaded, End, Harmless
<1>22. ASSUME NEW d \in Drives, TurnStarts(d) PROVE Quiet \/ Asks
  BY <1>22 DEF TurnStarts
<1>23. ASSUME NEW d \in Drives, NEW a \in Approvals, AskApproval(d, a) PROVE Quiet \/
    Asks
  BY <1>23
<1>24. ASSUME NEW d \in Drives, AskTooMuch(d) PROVE Quiet \/ Asks
  BY <1>24, FailIfActiveEffect DEF AskTooMuch, TakesRequests, DropSessions, Harmless
<1>25. ASSUME NEW d \in Drives, AskInput(d) PROVE Quiet \/ Asks
  BY <1>25
<1>26. ASSUME NEW d \in Drives, TurnCompletes(d) PROVE Quiet \/ Asks
  BY <1>26 DEF TurnCompletes, TurnIsOver, Complete, FinishRuns, TakesRequests, DropSessions
<1>27. ASSUME NEW d \in Drives, ProviderFails(d) PROVE Quiet \/ Asks
  BY <1>27, CodexFailEffect DEF ProviderFails, DropSessions, Harmless
<1>32. ASSUME NEW d \in Drives, TurnInterrupted(d) PROVE Quiet \/ Asks
  BY <1>32, FailIfActiveEffect DEF TurnInterrupted, TurnIsOver, DropSessions, Harmless
<1>28. ASSUME SweepAndInterrupt PROVE Quiet \/ Asks
  BY <1>28, SweepEffect DEF SweepAndInterrupt, DropSessions
<1>29. ASSUME Restart PROVE Quiet \/ Asks
  BY <1>29 DEF Restart, InterruptActive, ActiveRuns
<1>30. ASSUME Time PROVE Quiet \/ Asks
  BY <1>30 DEF Time, Tick, driverVars
<1>31. ASSUME UNCHANGED allVars PROVE Quiet \/ Asks
  BY <1>31 DEF allVars, driverVars, vars
<1>. QED BY <1>1, <1>2, <1>3, <1>4, <1>5, <1>6, <1>7, <1>8, <1>9, <1>10, <1>11, <1>12,
    <1>13, <1>14, <1>15, <1>16, <1>17, <1>18, <1>19, <1>20, <1>21, <1>22, <1>23, <1>24,
    <1>25, <1>26, <1>27, <1>28, <1>29, <1>30, <1>31, <1>32 DEF DriverNext, Command,
    ApplyEffect, Proceed, Provider, Resolve

\* A quiet step keeps every request with its holder until the run ends.
LEMMA QuietRequests ==
  ASSUME StoreInv, StoreInv', RunMoves, DecisionStands, DriveInv, DriveInv', DriveMoves,
         EndsAreDue, EndsAreDue', RequestInv, Quiet
  PROVE  RequestInv'
<1>1. ASSUME NEW d \in Drives, asked[d] # "none", status'[driveOf[d]] \in ActiveStatus
      PROVE  /\ stage'[d] \in Live /\ driveOf'[d] = driveOf[d] /\ asked'[d] = asked[d]
  BY <1>1 DEF Quiet, DriveMoves, Begins, Spawns, Starts, Goes, Ends, DriveInv, TurnIsLaunch,
     TakesRequests, Live
<1>2. ASSUME NEW d \in Drives, stage'[d] \in Live
      PROVE  /\ driveOf'[d] = driveOf[d] /\ kind'[d] = kind[d] /\ asked'[d] = asked[d]
             /\ driveOf[d] \in Runs
             /\ stage[d] \in Live \/ (kind[d] = "launch" => status[driveOf[d]] \in ActiveStatus)
             /\ stage[d] \notin Live => asked[d] = "none"
  BY <1>2 DEF Quiet, DriveMoves, Begins, Spawns, Starts, Goes, Ends, DriveInv, MemoryType,
     DriveType, TurnIsLaunch, TakesRequests, Live, Active
<1>3. ASSUME NEW r \in Runs, status'[r] \in ActiveStatus
      PROVE  status[r] \in ActiveStatus \cup {"absent"}
  BY <1>3 DEF RunMoves, Ended
<1>4. ASSUME NEW r \in Runs, NEW e \in {"dispatch_tool", "resume_input", "reject_tool"}, Due(e, r)'
      PROVE  Due(e, r)
  BY <1>4 DEF Due, Quiet
<1>5. PendingHasAsker'
  <2> SUFFICES ASSUME NEW a \in Approvals, approval'[a] = "pending",
                      status'[approvalRun'[a]] \in ActiveStatus
               PROVE  \E d \in SessionOf(approvalRun[a])' : asked'[d] = a
    BY DEF PendingHasAsker, Quiet
  <2>1. approval[a] = "pending" /\ approvalRun'[a] = approvalRun[a] /\ approvalRun[a] \in Runs
        /\ status[approvalRun[a]] # "absent"
    BY DEF Quiet, StoreInv, References, ApprovalsWellFormed
  <2>2. PICK d \in SessionOf(approvalRun[a]) : asked[d] = a
    BY <2>1, <1>3 DEF RequestInv, PendingHasAsker
  <2>. QED BY <2>1, <2>2, <1>1, RequestAssumption DEF SessionOf
<1>6. InputHasAsker'
  <2> SUFFICES ASSUME NEW r \in Runs, status'[r] = "waiting_input"
               PROVE  \E d \in SessionOf(r)' : asked'[d] = "input"
    BY DEF InputHasAsker
  <2>1. PICK d \in SessionOf(r) : asked[d] = "input"
    BY DEF Quiet, RequestInv, InputHasAsker
  <2>. QED BY <2>1, <1>1 DEF SessionOf, ActiveStatus
<1>7. DispatchMeetsAllowed'
  <2> SUFFICES ASSUME NEW r \in Runs, Due("dispatch_tool", r)'
               PROVE  /\ status'[r] \in ActiveStatus => \E d \in SessionOf(r)' : asked'[d] \in Approvals
                      /\ \A d \in SessionOf(r)' : asked'[d] \in Approvals => approval'[asked'[d]] = "allowed"
    BY DEF DispatchMeetsAllowed
  <2>1. Due("dispatch_tool", r)
    BY <1>4
  <2>2. ASSUME status'[r] \in ActiveStatus PROVE \E d \in SessionOf(r)' : asked'[d] \in Approvals
    <3>1. status[r] \in ActiveStatus
      BY <2>1, <2>2, <1>3, IdentityAssumption DEF EndsAreDue, Due
    <3>2. PICK d \in SessionOf(r) : asked[d] \in Approvals
      BY <2>1, <3>1 DEF RequestInv, DispatchMeetsAllowed
    <3>. QED BY <3>2, <2>2, <1>1, RequestAssumption DEF SessionOf
  <2>3. ASSUME NEW d \in SessionOf(r)', asked'[d] \in Approvals PROVE approval'[asked'[d]] = "allowed"
    <3>1. d \in SessionOf(r) /\ asked'[d] = asked[d]
      BY <2>3, <1>2, RequestAssumption DEF SessionOf
    <3>2. approval[asked[d]] = "allowed"
      BY <2>1, <2>3, <3>1 DEF RequestInv, DispatchMeetsAllowed
    <3>. QED BY <2>3, <3>1, <3>2 DEF DecisionStands
  <2>. QED BY <2>2, <2>3
<1>8. ResumeMeetsInput'
  <2> SUFFICES ASSUME NEW r \in Runs, Due("resume_input", r)', status'[r] \in ActiveStatus
               PROVE  status'[r] # "waiting_input" /\ \E d \in SessionOf(r)' : asked'[d] = "input"
    BY DEF ResumeMeetsInput
  <2>1. Due("resume_input", r)
    BY <1>4
  <2>2. status[r] \in ActiveStatus
    BY <2>1, <1>3, IdentityAssumption DEF EndsAreDue, Due
  <2>3. PICK d \in SessionOf(r) : asked[d] = "input"
    BY <2>1, <2>2 DEF RequestInv, ResumeMeetsInput
  <2>4. status'[r] # "waiting_input"
    BY <2>1, <2>2 DEF RequestInv, ResumeMeetsInput, Quiet
  <2>. QED BY <2>3, <2>4, <1>1 DEF SessionOf
<1>9. RejectMeetsRequest'
  <2> SUFFICES ASSUME NEW r \in Runs, Due("reject_tool", r)'
               PROVE  /\ ~Due("dispatch_tool", r)' /\ ~Due("resume_input", r)'
                      /\ \A d \in SessionOf(r)' : kind'[d] = "launch" => asked'[d] # "none"
    BY DEF RejectMeetsRequest
  <2>1. Due("reject_tool", r) /\ status[r] \in {"failed", "canceled"}
    BY <1>4, IdentityAssumption DEF Due, EndsAreDue, Down
  <2>2. ~Due("dispatch_tool", r)' /\ ~Due("resume_input", r)'
    BY <2>1, <1>4 DEF RequestInv, RejectMeetsRequest
  <2>3. ASSUME NEW d \in SessionOf(r)', kind'[d] = "launch" PROVE asked'[d] # "none"
    BY <2>1, <2>3, <1>2 DEF RequestInv, RejectMeetsRequest, SessionOf, ActiveStatus
  <2>. QED BY <2>2, <2>3
<1>. QED BY <1>5, <1>6, <1>7, <1>8, <1>9 DEF RequestInv

\* So do the steps that make, decide and answer requests.
LEMMA AnsweredRequests ==
  ASSUME StoreInv, StoreInv', DecisionStands, DriveInv, DriveInv', EndsAreDue, RequestInv, Asks
  PROVE  RequestInv'
<1>1. /\ UNCHANGED <<stage, driveOf, kind>>
      /\ \A r : SessionOf(r)' = SessionOf(r)
  <2>1. UNCHANGED <<stage, driveOf, kind>>
    BY DEF Asks, Resolve, Answer, DispatchTool, ResumeInput, AskInput, AskApproval
  <2>. QED BY <2>1 DEF SessionOf
<1>2. \A r : \A d, e \in SessionOf(r) : d = e
  BY DEF DriveInv, OneSession, SessionOf
<1>3. \A a \in Approvals : approval[a] # "absent" => approvalRun[a] \in Runs
  BY DEF StoreInv, References, ApprovalsWellFormed
<1>4. /\ asked \in [Drives -> Approvals \cup {"none", "input"}]
      /\ status \in [Runs -> RunStatus] /\ approval \in [Approvals -> ApprovalState]
      /\ \A r : SessionOf(r) \subseteq Drives
  BY DEF DriveInv, MemoryType, StoreInv, TypeOK, SessionOf
<1> USE DEF Due, ActiveStatus, Effect
<1>5. ASSUME NEW a \in Approvals, AllowApproval(a), Resolve(a) PROVE RequestInv'
  <2>1. /\ approval[a] = "pending" /\ status[approvalRun[a]] = "waiting_approval"
        /\ approval' = [approval EXCEPT ![a] = "allowed"]
        /\ status' = [status EXCEPT ![approvalRun[a]] = "running"]
        /\ todo' = todo \cup {[effect |-> "dispatch_tool", run |-> approvalRun[a]]}
        /\ UNCHANGED <<approvalRun, asked>>
    BY <1>4, <1>5 DEF AllowApproval, Resolvable, Resolve, Later, DenyApproval, ResolveTooLate, Expired
  <2>2. PICK d \in SessionOf(approvalRun[a]) : asked[d] = a
    BY <2>1 DEF RequestInv, PendingHasAsker
  <2>3. PendingHasAsker'
    BY <1>1, <1>2, <1>3, <1>4, IdentityAssumption, RequestAssumption, <2>1, <2>2
    DEF RequestInv, PendingHasAsker, InputHasAsker, DispatchMeetsAllowed, ResumeMeetsInput, RejectMeetsRequest, EndsAreDue, Down
  <2>4. InputHasAsker'
    BY <1>1, <1>2, <1>3, <1>4, IdentityAssumption, RequestAssumption, <2>1, <2>2
    DEF RequestInv, PendingHasAsker, InputHasAsker, DispatchMeetsAllowed, ResumeMeetsInput, RejectMeetsRequest, EndsAreDue, Down
  <2>5. DispatchMeetsAllowed'
    BY <1>1, <1>2, <1>3, <1>4, IdentityAssumption, RequestAssumption, <2>1, <2>2
    DEF RequestInv, PendingHasAsker, InputHasAsker, DispatchMeetsAllowed, ResumeMeetsInput, RejectMeetsRequest, EndsAreDue, Down
  <2>6. ResumeMeetsInput'
    BY <1>1, <1>2, <1>3, <1>4, IdentityAssumption, RequestAssumption, <2>1, <2>2
    DEF RequestInv, PendingHasAsker, InputHasAsker, DispatchMeetsAllowed, ResumeMeetsInput, RejectMeetsRequest, EndsAreDue, Down
  <2>7. RejectMeetsRequest'
    BY <1>1, <1>2, <1>3, <1>4, IdentityAssumption, RequestAssumption, <2>1, <2>2
    DEF RequestInv, PendingHasAsker, InputHasAsker, DispatchMeetsAllowed, ResumeMeetsInput, RejectMeetsRequest, EndsAreDue, Down
  <2>. QED BY <2>3, <2>4, <2>5, <2>6, <2>7 DEF RequestInv
<1>6. ASSUME NEW a \in Approvals, DenyApproval(a) \/ ResolveTooLate(a), Resolve(a) PROVE RequestInv'
  <2>1. /\ approval[a] = "pending" /\ status[approvalRun[a]] = "waiting_approval"
        /\ approval'[a] # "pending"
        /\ \A b \in Approvals : b # a => approval'[b] = approval[b]
        /\ status' = [status EXCEPT ![approvalRun[a]] = "failed"]
        /\ \E e \in {"reject_tool", "interrupt_provider"} :
             todo' = todo \cup {[effect |-> e, run |-> approvalRun[a]]}
        /\ UNCHANGED <<approvalRun, asked>>
    BY <1>4, <1>6 DEF AllowApproval, Resolvable, Resolve, Later, DenyApproval, ResolveTooLate, Expired,
       FinishRuns, ExpireApprovals
  <2>2. PICK d \in SessionOf(approvalRun[a]) : asked[d] = a
    BY <2>1 DEF RequestInv, PendingHasAsker
  <2>3. PendingHasAsker'
    BY <1>1, <1>2, <1>3, <1>4, IdentityAssumption, RequestAssumption, <2>1, <2>2
    DEF RequestInv, PendingHasAsker, InputHasAsker, DispatchMeetsAllowed, ResumeMeetsInput, RejectMeetsRequest, EndsAreDue, Down
  <2>4. InputHasAsker'
    BY <1>1, <1>2, <1>3, <1>4, IdentityAssumption, RequestAssumption, <2>1, <2>2
    DEF RequestInv, PendingHasAsker, InputHasAsker, DispatchMeetsAllowed, ResumeMeetsInput, RejectMeetsRequest, EndsAreDue, Down
  <2>5. DispatchMeetsAllowed'
    BY <1>1, <1>2, <1>3, <1>4, IdentityAssumption, RequestAssumption, <2>1, <2>2
    DEF RequestInv, PendingHasAsker, InputHasAsker, DispatchMeetsAllowed, ResumeMeetsInput, RejectMeetsRequest, EndsAreDue, Down
  <2>6. ResumeMeetsInput'
    BY <1>1, <1>2, <1>3, <1>4, IdentityAssumption, RequestAssumption, <2>1, <2>2
    DEF RequestInv, PendingHasAsker, InputHasAsker, DispatchMeetsAllowed, ResumeMeetsInput, RejectMeetsRequest, EndsAreDue, Down
  <2>7. RejectMeetsRequest'
    BY <1>1, <1>2, <1>3, <1>4, IdentityAssumption, RequestAssumption, <2>1, <2>2
    DEF RequestInv, PendingHasAsker, InputHasAsker, DispatchMeetsAllowed, ResumeMeetsInput, RejectMeetsRequest, EndsAreDue, Down
  <2>. QED BY <2>3, <2>4, <2>5, <2>6, <2>7 DEF RequestInv
<1>7. ASSUME NEW r \in Runs, Answer(r) PROVE RequestInv'
  <2>1. /\ status[r] = "waiting_input" /\ status' = [status EXCEPT ![r] = "running"]
        /\ todo' = todo \cup {[effect |-> "resume_input", run |-> r]}
        /\ UNCHANGED <<approval, approvalRun, asked>>
    BY <1>7 DEF Answer, AnswerInput, Later, approvalVars
  <2>2. PICK d \in SessionOf(r) : asked[d] = "input"
    BY <2>1 DEF RequestInv, InputHasAsker
  <2>3. PendingHasAsker'
    BY <1>1, <1>2, <1>3, <1>4, IdentityAssumption, RequestAssumption, <2>1, <2>2
    DEF RequestInv, PendingHasAsker, InputHasAsker, DispatchMeetsAllowed, ResumeMeetsInput, RejectMeetsRequest, EndsAreDue, Down
  <2>4. InputHasAsker'
    BY <1>1, <1>2, <1>3, <1>4, IdentityAssumption, RequestAssumption, <2>1, <2>2
    DEF RequestInv, PendingHasAsker, InputHasAsker, DispatchMeetsAllowed, ResumeMeetsInput, RejectMeetsRequest, EndsAreDue, Down
  <2>5. DispatchMeetsAllowed'
    BY <1>1, <1>2, <1>3, <1>4, IdentityAssumption, RequestAssumption, <2>1, <2>2
    DEF RequestInv, PendingHasAsker, InputHasAsker, DispatchMeetsAllowed, ResumeMeetsInput, RejectMeetsRequest, EndsAreDue, Down
  <2>6. ResumeMeetsInput'
    BY <1>1, <1>2, <1>3, <1>4, IdentityAssumption, RequestAssumption, <2>1, <2>2
    DEF RequestInv, PendingHasAsker, InputHasAsker, DispatchMeetsAllowed, ResumeMeetsInput, RejectMeetsRequest, EndsAreDue, Down
  <2>7. RejectMeetsRequest'
    BY <1>1, <1>2, <1>3, <1>4, IdentityAssumption, RequestAssumption, <2>1, <2>2
    DEF RequestInv, PendingHasAsker, InputHasAsker, DispatchMeetsAllowed, ResumeMeetsInput, RejectMeetsRequest, EndsAreDue, Down
  <2>. QED BY <2>3, <2>4, <2>5, <2>6, <2>7 DEF RequestInv
<1>8. ASSUME NEW r \in Runs, DispatchTool(r) PROVE RequestInv'
  <2>1. /\ Due("dispatch_tool", r) /\ todo' = todo \ {[effect |-> "dispatch_tool", run |-> r]}
        /\ UNCHANGED <<status, approval, approvalRun>>
        /\ asked' = [d \in Drives |-> IF d \in SessionOf(r) THEN "none" ELSE asked[d]]
    BY <1>8 DEF DispatchTool, Applied, vars, runVars, approvalVars
  <2>2. /\ status[r] \in ActiveStatus => \E d \in SessionOf(r) : asked[d] \in Approvals
        /\ \A d \in SessionOf(r) : asked[d] \in Approvals => approval[asked[d]] = "allowed"
        /\ \A q \in Runs : \A d \in SessionOf(q) : q # r => d \notin SessionOf(r)
    BY <2>1 DEF RequestInv, DispatchMeetsAllowed, SessionOf
  <2>3. PendingHasAsker'
    BY <1>1, <1>2, <1>3, <1>4, IdentityAssumption, RequestAssumption, <2>1, <2>2
    DEF RequestInv, PendingHasAsker, InputHasAsker, DispatchMeetsAllowed, ResumeMeetsInput, RejectMeetsRequest, EndsAreDue, Down
  <2>4. InputHasAsker'
    BY <1>1, <1>2, <1>3, <1>4, IdentityAssumption, RequestAssumption, <2>1, <2>2
    DEF RequestInv, PendingHasAsker, InputHasAsker, DispatchMeetsAllowed, ResumeMeetsInput, RejectMeetsRequest, EndsAreDue, Down
  <2>5. DispatchMeetsAllowed'
    BY <1>1, <1>2, <1>3, <1>4, IdentityAssumption, RequestAssumption, <2>1, <2>2
    DEF RequestInv, PendingHasAsker, InputHasAsker, DispatchMeetsAllowed, ResumeMeetsInput, RejectMeetsRequest, EndsAreDue, Down
  <2>6. ResumeMeetsInput'
    BY <1>1, <1>2, <1>3, <1>4, IdentityAssumption, RequestAssumption, <2>1, <2>2
    DEF RequestInv, PendingHasAsker, InputHasAsker, DispatchMeetsAllowed, ResumeMeetsInput, RejectMeetsRequest, EndsAreDue, Down
  <2>7. RejectMeetsRequest'
    BY <1>1, <1>2, <1>3, <1>4, IdentityAssumption, RequestAssumption, <2>1, <2>2
    DEF RequestInv, PendingHasAsker, InputHasAsker, DispatchMeetsAllowed, ResumeMeetsInput, RejectMeetsRequest, EndsAreDue, Down
  <2>. QED BY <2>3, <2>4, <2>5, <2>6, <2>7 DEF RequestInv
<1>9. ASSUME NEW r \in Runs, ResumeInput(r) PROVE RequestInv'
  <2>1. /\ Due("resume_input", r) /\ todo' = todo \ {[effect |-> "resume_input", run |-> r]}
        /\ UNCHANGED <<status, approval, approvalRun>>
        /\ asked' = [d \in Drives |-> IF d \in SessionOf(r) THEN "none" ELSE asked[d]]
    BY <1>9 DEF ResumeInput, Applied, vars, runVars, approvalVars
  <2>2. /\ status[r] \in ActiveStatus =>
             status[r] # "waiting_input" /\ \E d \in SessionOf(r) : asked[d] = "input"
        /\ \A q \in Runs : \A d \in SessionOf(q) : q # r => d \notin SessionOf(r)
    BY <2>1 DEF RequestInv, ResumeMeetsInput, SessionOf
  <2>3. PendingHasAsker'
    BY <1>1, <1>2, <1>3, <1>4, IdentityAssumption, RequestAssumption, <2>1, <2>2
    DEF RequestInv, PendingHasAsker, InputHasAsker, DispatchMeetsAllowed, ResumeMeetsInput, RejectMeetsRequest, EndsAreDue, Down
  <2>4. InputHasAsker'
    BY <1>1, <1>2, <1>3, <1>4, IdentityAssumption, RequestAssumption, <2>1, <2>2
    DEF RequestInv, PendingHasAsker, InputHasAsker, DispatchMeetsAllowed, ResumeMeetsInput, RejectMeetsRequest, EndsAreDue, Down
  <2>5. DispatchMeetsAllowed'
    BY <1>1, <1>2, <1>3, <1>4, IdentityAssumption, RequestAssumption, <2>1, <2>2
    DEF RequestInv, PendingHasAsker, InputHasAsker, DispatchMeetsAllowed, ResumeMeetsInput, RejectMeetsRequest, EndsAreDue, Down
  <2>6. ResumeMeetsInput'
    BY <1>1, <1>2, <1>3, <1>4, IdentityAssumption, RequestAssumption, <2>1, <2>2
    DEF RequestInv, PendingHasAsker, InputHasAsker, DispatchMeetsAllowed, ResumeMeetsInput, RejectMeetsRequest, EndsAreDue, Down
  <2>7. RejectMeetsRequest'
    BY <1>1, <1>2, <1>3, <1>4, IdentityAssumption, RequestAssumption, <2>1, <2>2
    DEF RequestInv, PendingHasAsker, InputHasAsker, DispatchMeetsAllowed, ResumeMeetsInput, RejectMeetsRequest, EndsAreDue, Down
  <2>. QED BY <2>3, <2>4, <2>5, <2>6, <2>7 DEF RequestInv
<1>10. ASSUME NEW d \in Drives, NEW a \in Approvals, AskApproval(d, a) PROVE RequestInv'
  <2>1. /\ driveOf[d] \in Runs /\ d \in SessionOf(driveOf[d]) /\ asked[d] = "none"
        /\ status[driveOf[d]] \in ActiveStatus
        /\ approval[a] = "absent" /\ approval' = [approval EXCEPT ![a] = "pending"]
        /\ approvalRun' = [approvalRun EXCEPT ![a] = driveOf[d]]
        /\ status' = [status EXCEPT ![driveOf[d]] = "waiting_approval"]
        /\ asked' = [asked EXCEPT ![d] = a] /\ UNCHANGED todo
    BY <1>10 DEF AskApproval, RequestApproval, TakesRequests, Unasked, Active, SessionOf, Live, DriveInv,
       MemoryType, DriveType
  <2>2. \A q \in Runs : q # driveOf[d] => d \notin SessionOf(q)
    BY DEF SessionOf
  <2>3. approvalRun \in [Approvals -> Runs \cup {NoRun}]
    BY DEF StoreInv, TypeOK
  <2>4. PendingHasAsker'
    BY <1>1, <1>2, <1>3, <1>4, IdentityAssumption, RequestAssumption, <2>1, <2>2, <2>3
    DEF RequestInv, PendingHasAsker, InputHasAsker, DispatchMeetsAllowed, ResumeMeetsInput, RejectMeetsRequest, EndsAreDue, Down
  <2>5. InputHasAsker'
    BY <1>1, <1>2, <1>3, <1>4, IdentityAssumption, RequestAssumption, <2>1, <2>2, <2>3
    DEF RequestInv, PendingHasAsker, InputHasAsker, DispatchMeetsAllowed, ResumeMeetsInput, RejectMeetsRequest, EndsAreDue, Down
  <2>6. DispatchMeetsAllowed'
    BY <1>1, <1>2, <1>3, <1>4, IdentityAssumption, RequestAssumption, <2>1, <2>2, <2>3
    DEF RequestInv, PendingHasAsker, InputHasAsker, DispatchMeetsAllowed, ResumeMeetsInput, RejectMeetsRequest, EndsAreDue, Down
  <2>7. ResumeMeetsInput'
    BY <1>1, <1>2, <1>3, <1>4, IdentityAssumption, RequestAssumption, <2>1, <2>2, <2>3
    DEF RequestInv, PendingHasAsker, InputHasAsker, DispatchMeetsAllowed, ResumeMeetsInput, RejectMeetsRequest, EndsAreDue, Down
  <2>8. RejectMeetsRequest'
    BY <1>1, <1>2, <1>3, <1>4, IdentityAssumption, RequestAssumption, <2>1, <2>2, <2>3
    DEF RequestInv, PendingHasAsker, InputHasAsker, DispatchMeetsAllowed, ResumeMeetsInput, RejectMeetsRequest, EndsAreDue, Down
  <2>. QED BY <2>4, <2>5, <2>6, <2>7, <2>8 DEF RequestInv
<1>11. ASSUME NEW d \in Drives, AskInput(d) PROVE RequestInv'
  <2>1. /\ driveOf[d] \in Runs /\ d \in SessionOf(driveOf[d]) /\ asked[d] = "none"
        /\ asked' = [asked EXCEPT ![d] = "input"] /\ UNCHANGED <<todo, approval, approvalRun>>
        /\ \/ status[driveOf[d]] \in ActiveStatus /\ status' = [status EXCEPT ![driveOf[d]] = "waiting_input"]
           \/ status[driveOf[d]] \notin ActiveStatus /\ UNCHANGED status
    <3>1. driveOf[d] \in Runs
      BY <1>11 DEF AskInput, TakesRequests, Live, DriveInv, MemoryType, DriveType
    <3>2. status[driveOf[d]] \in ActiveStatus <=> Active(driveOf[d])
      BY <3>1, ActiveIsServed DEF Active
    <3>. QED
      BY <1>11, <3>1, <3>2 DEF AskInput, RequestInput, TakesRequests, Unasked, SessionOf, Live, vars, runVars,
         approvalVars
  <2>2. \A q \in Runs : q # driveOf[d] => d \notin SessionOf(q)
    BY DEF SessionOf
  <2>3. PendingHasAsker'
    BY <1>1, <1>2, <1>3, <1>4, IdentityAssumption, RequestAssumption, <2>1, <2>2
    DEF RequestInv, PendingHasAsker, InputHasAsker, DispatchMeetsAllowed, ResumeMeetsInput, RejectMeetsRequest, EndsAreDue, Down
  <2>4. InputHasAsker'
    BY <1>1, <1>2, <1>3, <1>4, IdentityAssumption, RequestAssumption, <2>1, <2>2
    DEF RequestInv, PendingHasAsker, InputHasAsker, DispatchMeetsAllowed, ResumeMeetsInput, RejectMeetsRequest, EndsAreDue, Down
  <2>5. DispatchMeetsAllowed'
    BY <1>1, <1>2, <1>3, <1>4, IdentityAssumption, RequestAssumption, <2>1, <2>2
    DEF RequestInv, PendingHasAsker, InputHasAsker, DispatchMeetsAllowed, ResumeMeetsInput, RejectMeetsRequest, EndsAreDue, Down
  <2>6. ResumeMeetsInput'
    BY <1>1, <1>2, <1>3, <1>4, IdentityAssumption, RequestAssumption, <2>1, <2>2
    DEF RequestInv, PendingHasAsker, InputHasAsker, DispatchMeetsAllowed, ResumeMeetsInput, RejectMeetsRequest, EndsAreDue, Down
  <2>7. RejectMeetsRequest'
    BY <1>1, <1>2, <1>3, <1>4, IdentityAssumption, RequestAssumption, <2>1, <2>2
    DEF RequestInv, PendingHasAsker, InputHasAsker, DispatchMeetsAllowed, ResumeMeetsInput, RejectMeetsRequest, EndsAreDue, Down
  <2>. QED BY <2>3, <2>4, <2>5, <2>6, <2>7 DEF RequestInv
<1>. QED BY <1>5, <1>6, <1>7, <1>8, <1>9, <1>10, <1>11 DEF Asks, Resolve

LEMMA RequestStep ==
  ASSUME StoreInv, StoreInv', RunMoves, DecisionStands, DriveInv, DriveInv', DriveMoves,
         EndsAreDue, EndsAreDue', RequestInv, DriverNext
  PROVE  RequestInv'
BY QuietStep, QuietRequests, AnsweredRequests

-----------------------------------------------------------------------------
(* What is accepted, loaded and left behind                                *)

\* Only the application of a decision accepts anything.
AcceptedInv == accepted \subseteq Approvals /\ AcceptedIsAllowed

LEMMA AcceptedStep ==
  ASSUME DecisionStands, RequestInv, AcceptedInv, DriverNext
  PROVE  AcceptedInv'
<1>1. ASSUME NEW r \in Runs, DispatchTool(r) PROVE AcceptedInv'
  <2>1. Due("dispatch_tool", r)
    BY <1>1 DEF DispatchTool, Applied, Due
  <2>2. \A d \in SessionOf(r) : asked[d] \in Approvals => approval[asked[d]] = "allowed"
    BY <2>1 DEF RequestInv, DispatchMeetsAllowed
  <2>3. accepted' = accepted \cup {a \in Approvals : \E d \in SessionOf(r) : asked[d] = a}
    BY <1>1 DEF DispatchTool
  <2>. QED BY <2>2, <2>3 DEF AcceptedInv, AcceptedIsAllowed, DecisionStands
<1>2. CASE UNCHANGED accepted
  BY <1>2 DEF AcceptedInv, AcceptedIsAllowed, DecisionStands
<1>3. UNCHANGED accepted \/ \E r \in Runs : DispatchTool(r)
  BY DEF DriverNext, Command, ApplyEffect, Proceed, Provider, Submit, Replay, Load, Resolve, Answer,
     Cancel, Stop, RejectTool, ResumeInput, InterruptProvider, InterruptAll, BriefFails,
     SpawnRefused, Spawn, SpawnFails, RequestFails, Rejected, ThreadStarts, HistoryLoaded,
     TurnStarts, AskApproval, AskTooMuch, AskInput, TurnCompletes, TurnInterrupted, TurnIsOver, ProviderFails,
     SweepAndInterrupt, Restart, Time, driverVars
<1>. QED BY <1>1, <1>2, <1>3

\* One handler begins at a time, and a retry is not forgotten.
OneBegins ==
  /\ replayed \subseteq replayed'
  /\ \A d, e \in Drives :
       stage[d] = "idle" /\ stage'[d] # "idle" /\ stage[e] = "idle" /\ stage'[e] # "idle"
         => d = e

LEMMA BeginsAlone ==
  ASSUME MemoryType, DriverNext
  PROVE  OneBegins
<1> USE DEF MemoryType, DriveType
<1>1. ASSUME NEW d \in Drives, stage' = [stage EXCEPT ![d] = "checking"], replayed \subseteq replayed'
      PROVE  OneBegins
  BY <1>1 DEF OneBegins
<1>2. ASSUME UNCHANGED replayed,
             \/ UNCHANGED stage
             \/ \E S : DropSessions(S)
             \/ \E d \in Drives : End(d)
             \/ \E d \in Drives, s \in Stage : stage[d] # "idle" /\ stage' = [stage EXCEPT ![d] = s]
             \/ stage' = [d \in Drives |-> "idle"]
      PROVE  OneBegins
  <2>1. \A d \in Drives : stage[d] = "idle" => stage'[d] = "idle"
    BY <1>2 DEF DropSessions, End, Live
  <2>. QED BY <1>2, <2>1 DEF OneBegins
<1>3. CASE Command
  BY <1>1, <1>2, <1>3 DEF Command, Submit, Replay, Load, Begin, Resolve, Answer, Cancel, Stop
<1>4. CASE ApplyEffect
  BY <1>2, <1>4 DEF ApplyEffect, DispatchTool, RejectTool, ResumeInput, InterruptProvider, InterruptAll
<1>5. ASSUME NEW d \in Drives, Proceed(d) PROVE OneBegins
  BY <1>2, <1>5 DEF Proceed, BriefFails, SpawnRefused, Spawn, SpawnFails, RequestFails, Rejected, Stage
<1>6. ASSUME NEW d \in Drives, Provider(d) PROVE OneBegins
  BY <1>2, <1>6 DEF Provider, ThreadStarts, HistoryLoaded, TurnStarts, AskApproval, AskTooMuch,
     AskInput, TurnCompletes, TurnInterrupted, TurnIsOver, ProviderFails, Stage
<1>7. CASE SweepAndInterrupt \/ Restart \/ Time
  BY <1>2, <1>7 DEF SweepAndInterrupt, Restart, Time, driverVars
<1>. QED BY <1>3, <1>4, <1>5, <1>6, <1>7 DEF DriverNext

\* Two launches of a run need a retried submission.
TwoNeedReplay ==
  \A d, e \in Drives :
    d # e /\ kind[d] = "launch" /\ kind[e] = "launch" /\ stage[d] # "idle" /\ stage[e] # "idle"
      /\ driveOf[d] = driveOf[e] => driveOf[d] \in replayed

LEMMA TwoStep ==
  ASSUME DriveInv, DriveMoves, TwoNeedReplay, DriverNext
  PROVE  TwoNeedReplay'
<1> SUFFICES ASSUME NEW d \in Drives, NEW e \in Drives, d # e, kind'[d] = "launch", kind'[e] = "launch",
                    stage'[d] # "idle", stage'[e] # "idle", driveOf'[d] = driveOf'[e]
             PROVE  driveOf'[d] \in replayed'
  BY DEF TwoNeedReplay
<1>1. replayed \subseteq replayed' /\ (stage[d] # "idle" \/ stage[e] # "idle")
  BY BeginsAlone DEF OneBegins, DriveInv
<1>2. ASSUME NEW x \in Drives, stage'[x] # "idle"
      PROVE  Begins(x) \/ (stage[x] # "idle" /\ driveOf'[x] = driveOf[x] /\ kind'[x] = kind[x])
  BY <1>2 DEF DriveMoves, Spawns, Starts, Goes, Ends
<1>3. ASSUME NEW x \in Drives, stage[x] # "idle" PROVE status[driveOf[x]] # "absent" /\ ~Begins(x)
  BY <1>3 DEF DriveInv, BusyWithRun, Begins
<1>4. CASE Begins(d) \/ Begins(e)
  BY <1>1, <1>2, <1>3, <1>4 DEF Begins
<1>5. CASE ~Begins(d) /\ ~Begins(e)
  BY <1>1, <1>2, <1>5 DEF TwoNeedReplay
<1>. QED BY <1>4, <1>5

Loads(d, r) == driveOf[d] = r /\ kind[d] = "load" /\ stage[d] \notin {"idle", "rejected"}

\* Who loads goes on until the load is over or cut short, or the run is failed or canceled.
LEMMA LoadersStay ==
  ASSUME StoreInv, StoreInv', DriveInv, EndsAreDue, DriverNext,
         NEW r \in Runs, loading'[r], status'[r] \in {"succeeded", "interrupted"}
  PROVE  \/ r \in cut' \/ \E d \in Drives : Loads(d, r)'
         \/ /\ loading[r] /\ status'[r] = status[r] /\ r \notin cut
            /\ \A d \in Drives : Loads(d, r) => Loads(d, r)'
<1> DEFINE Kept == \/ r \in cut' \/ \E d \in Drives : Loads(d, r)'
                   \/ /\ loading[r] /\ status'[r] = status[r] /\ r \notin cut
                      /\ \A d \in Drives : Loads(d, r) => Loads(d, r)'
<1> USE DEF Loads, DriveInv, MemoryType, DriveType, TurnIsLaunch, StoreInv, TypeOK, Ended, Live, Stage,
            TakesRequests, ActiveStatus, approvalVars, runVars, taskVars, handoffVars, vars
<1>1. ASSUME NEW x \in Runs, NEW t \in Tasks, NEW b \in Bots, NEW d \in Drives,
    Submit(x, t, b, d) PROVE Kept
  BY <1>1 DEF Submit, SubmitTask, Begin
<1>2. ASSUME NEW x \in Runs, NEW d \in Drives, Replay(x, d) PROVE Kept
  BY <1>2 DEF Replay, Begin, AbsentIsBare
<1>3. ASSUME NEW x \in Runs, NEW d \in Drives, Load(x, d) PROVE Kept
  BY <1>3 DEF Load, LoadSession, Begin, RowsAgree, LaunchIntentMatches
<1>4. ASSUME NEW a \in Approvals, AllowApproval(a), Resolve(a) PROVE Kept
  BY <1>4 DEF Resolve, AllowApproval, Resolvable, Later
<1>5. ASSUME NEW a \in Approvals, DenyApproval(a) \/ ResolveTooLate(a), Resolve(a) PROVE
    Kept
  BY <1>5 DEF Resolve, DenyApproval, ResolveTooLate, ExpireApprovals, FinishRuns,
      Resolvable, Later
<1>6. ASSUME NEW x \in Runs, Answer(x) PROVE Kept
  BY <1>6 DEF Answer, AnswerInput, Later
<1>7. ASSUME NEW x \in Runs, Cancel(x) PROVE Kept
  BY <1>7 DEF Cancel, CancelRun, CancelApprovals, FinishRuns, Later
<1>8. ASSUME Stop PROVE Kept
  BY <1>8 DEF Stop, StopAll, CancelApprovals, FinishRuns, ActiveRuns, Later
<1>9. ASSUME NEW x \in Runs, DispatchTool(x) PROVE Kept
  BY <1>9 DEF DispatchTool, Applied
<1>10. ASSUME NEW x \in Runs, RejectTool(x) PROVE Kept
  BY <1>10, IdentityAssumption DEF RejectTool, Applied, DropSessions, EndsAreDue, Down
<1>11. ASSUME NEW x \in Runs, ResumeInput(x) PROVE Kept
  BY <1>11 DEF ResumeInput, Applied
<1>12. ASSUME NEW x \in Runs, InterruptProvider(x) PROVE Kept
  BY <1>12, IdentityAssumption DEF InterruptProvider, Applied, DropSessions, EndsAreDue,
      Down
<1>13. ASSUME InterruptAll PROVE Kept
  BY <1>13 DEF InterruptAll, Applied, DropSessions, EndsAreDue, StopQuiesces, Busy
<1>14. ASSUME NEW d \in Drives, BriefFails(d) PROVE Kept
  <2>1. driveOf[d] \in Runs /\ stage[d] = "checking"
    BY <1>14 DEF BriefFails
  <2>2. stage' = [stage EXCEPT ![d] = "idle"] /\ UNCHANGED <<driveOf, kind, todo, cut>>
    BY <1>14 DEF BriefFails, End
  <2>3. Harmless(driveOf[d]) /\ (kind[d] = "load" => ~loading'[driveOf[d]])
    BY <1>14, <2>1, EngineFailEffect DEF BriefFails, BusyWithRun
  <2>. QED BY <2>1, <2>2, <2>3 DEF Harmless
<1>15. ASSUME NEW d \in Drives, SpawnRefused(d) PROVE Kept
  BY <1>15 DEF SpawnRefused, End, Permitted, StopQuiesces, Busy, BusyWithRun
<1>16. ASSUME NEW d \in Drives, Spawn(d) PROVE Kept
  BY <1>16 DEF Spawn, Permitted
<1>17. ASSUME NEW d \in Drives, SpawnFails(d) PROVE Kept
  <2>1. driveOf[d] \in Runs /\ stage[d] = "checking"
    BY <1>17 DEF SpawnFails
  <2>2. stage' = [stage EXCEPT ![d] = "idle"] /\ UNCHANGED <<driveOf, kind, cut>>
    BY <1>17 DEF SpawnFails, End
  <2>3. CASE Harmless(driveOf[d]) /\ (kind[d] = "load" => ~loading'[driveOf[d]])
    BY <2>1, <2>2, <2>3 DEF Harmless
  <2>4. CASE kind[d] = "load" /\ SessionOf(driveOf[d]) # {} /\ UNCHANGED vars
    <3>1. PICK e \in Drives : driveOf[e] = driveOf[d] /\ stage[e] \in Live
      BY <2>4 DEF SessionOf
    <3>2. driveOf[d] = r => kind[e] = "load"
      BY <3>1, <2>4 DEF LaunchLives
    <3>. QED BY <2>1, <2>2, <2>4, <3>1, <3>2
  <2>. QED BY <1>17, <2>1, <2>3, <2>4, EngineFailEffect, EndLoadEffect DEF SpawnFails
<1>18. ASSUME NEW d \in Drives, RequestFails(d) PROVE Kept
  <2>1. driveOf[d] \in Runs /\ stage[d] \in {"handshake", "starting"}
    BY <1>18 DEF RequestFails
  <2>2. stage' = [stage EXCEPT ![d] = "idle"] /\ UNCHANGED <<driveOf, kind, todo, cut>>
    BY <1>18 DEF RequestFails, End
  <2>3. Harmless(driveOf[d]) /\ (kind[d] = "load" => ~loading'[driveOf[d]])
    BY <1>18, <2>1, EngineFailEffect, CodexFailEffect DEF RequestFails
  <2>. QED BY <2>1, <2>2, <2>3 DEF Harmless
<1>19. ASSUME NEW d \in Drives, Rejected(d) PROVE Kept
  <2>1. driveOf[d] \in Runs /\ stage[d] = "rejected"
    BY <1>19 DEF Rejected, RejectionDue
  <2>2. stage' = [stage EXCEPT ![d] = "idle"] /\ UNCHANGED <<driveOf, kind, todo, cut>>
    BY <1>19 DEF Rejected, End
  <2>3. Harmless(driveOf[d]) \/ UNCHANGED vars
    BY <1>19, <2>1, EngineFailEffect DEF Rejected, RejectionDue
  <2>. QED BY <2>1, <2>2, <2>3 DEF Harmless
<1>20. ASSUME NEW d \in Drives, ThreadStarts(d) PROVE Kept
  BY <1>20 DEF ThreadStarts, MarkRunning, End
<1>21. ASSUME NEW d \in Drives, HistoryLoaded(d) PROVE Kept
  <2>1. driveOf[d] \in Runs /\ stage[d] = "handshake"
    BY <1>21 DEF HistoryLoaded
  <2>2. stage' = [stage EXCEPT ![d] = "idle"] /\ UNCHANGED <<driveOf, kind, todo, cut>>
    BY <1>21 DEF HistoryLoaded, End
  <2>3. Harmless(driveOf[d]) /\ ~loading'[driveOf[d]]
    BY <1>21, <2>1, EndLoadEffect DEF HistoryLoaded
  <2>. QED BY <2>1, <2>2, <2>3 DEF Harmless
<1>22. ASSUME NEW d \in Drives, TurnStarts(d) PROVE Kept
  BY <1>22 DEF TurnStarts
<1>23. ASSUME NEW d \in Drives, NEW a \in Approvals, AskApproval(d, a) PROVE Kept
  BY <1>23 DEF AskApproval, RequestApproval, TakesRequests, Unasked
<1>24. ASSUME NEW d \in Drives, AskTooMuch(d) PROVE Kept
  <2>1. driveOf[d] \in Runs /\ stage[d] \in Live
    BY <1>24 DEF AskTooMuch
  <2>2. /\ \A e \in Drives : e # d /\ driveOf[e] = driveOf[d] => stage[e] \notin Live
        /\ UNCHANGED <<driveOf, kind, todo, cut>>
        /\ stage'[d] \notin Live /\ \A e \in Drives : e # d => stage'[e] = stage[e]
    BY <1>24, <2>1 DEF AskTooMuch, DropSessions, OneSession
  <2>3. Harmless(driveOf[d]) /\ kind[d] = "launch"
    BY <1>24, <2>1, FailIfActiveEffect DEF AskTooMuch
  <2>. QED BY <2>1, <2>2, <2>3 DEF Harmless
<1>25. ASSUME NEW d \in Drives, AskInput(d) PROVE Kept
  BY <1>25 DEF AskInput, RequestInput, TakesRequests, Unasked
<1>26. ASSUME NEW d \in Drives, TurnCompletes(d) PROVE Kept
  <2>1. driveOf[d] \in Runs /\ stage[d] \in Live
    BY <1>26 DEF TurnCompletes
  <2>2. /\ \A e \in Drives : e # d /\ driveOf[e] = driveOf[d] => stage[e] \notin Live
        /\ UNCHANGED <<driveOf, kind, todo>>
        /\ stage'[d] \notin Live /\ \A e \in Drives : e # d => stage'[e] = stage[e]
    BY <1>26, <2>1 DEF TurnCompletes, TurnIsOver, DropSessions, OneSession
  <2>3. /\ UNCHANGED loading
        /\ \/ UNCHANGED status
           \/ Active(driveOf[d]) /\ status' = [status EXCEPT ![driveOf[d]] = "succeeded"]
    BY <1>26, <2>1 DEF TurnCompletes, Complete, FinishRuns
  <2>4. loading[driveOf[d]] => ~Active(driveOf[d])
    BY <2>1 DEF LoadingIsOver, Active
  <2>5. cut' = cut \cup {x \in {driveOf[d]} : kind[d] = "load" /\ loading[x]}
    BY <1>26 DEF TurnCompletes, TurnIsOver
  <2>. QED BY <2>1, <2>2, <2>3, <2>4, <2>5
<1>27. ASSUME NEW d \in Drives, ProviderFails(d) PROVE Kept
  <2>1. driveOf[d] \in Runs /\ stage[d] \in Live
    BY <1>27 DEF ProviderFails
  <2>2. /\ \A e \in Drives : e # d /\ driveOf[e] = driveOf[d] => stage[e] \notin Live
        /\ UNCHANGED <<driveOf, kind, todo, cut>>
        /\ stage'[d] \notin Live /\ \A e \in Drives : e # d => stage'[e] = stage[e]
    BY <1>27, <2>1 DEF ProviderFails, DropSessions, OneSession
  <2>3. Harmless(driveOf[d]) /\ (kind[d] = "load" => ~loading'[driveOf[d]])
    BY <1>27, <2>1, CodexFailEffect DEF ProviderFails
  <2>. QED BY <2>1, <2>2, <2>3 DEF Harmless
<1>32. ASSUME NEW d \in Drives, TurnInterrupted(d) PROVE Kept
  <2>1. driveOf[d] \in Runs /\ stage[d] \in Live
    BY <1>32 DEF TurnInterrupted
  <2>2. /\ \A e \in Drives : e # d /\ driveOf[e] = driveOf[d] => stage[e] \notin Live
        /\ UNCHANGED <<driveOf, kind, todo>>
        /\ stage'[d] \notin Live /\ \A e \in Drives : e # d => stage'[e] = stage[e]
    BY <1>32, <2>1 DEF TurnInterrupted, TurnIsOver, DropSessions, OneSession
  <2>3. Harmless(driveOf[d])
    BY <1>32, <2>1, FailIfActiveEffect DEF TurnInterrupted
  <2>4. cut' = cut \cup {x \in {driveOf[d]} : kind[d] = "load" /\ loading[x]}
    BY <1>32 DEF TurnInterrupted, TurnIsOver
  <2>. QED BY <2>1, <2>2, <2>3, <2>4 DEF Harmless
<1>28. ASSUME SweepAndInterrupt PROVE Kept
  BY <1>28, SweepEffect DEF SweepAndInterrupt, DropSessions
<1>29. ASSUME Restart PROVE Kept
  BY <1>29 DEF Restart, InterruptActive, ActiveRuns
<1>30. ASSUME Time PROVE Kept
  BY <1>30 DEF Time, Tick, driverVars
<1>31. ASSUME UNCHANGED allVars PROVE Kept
  BY <1>31 DEF allVars, driverVars, vars
<1>. QED BY <1>1, <1>2, <1>3, <1>4, <1>5, <1>6, <1>7, <1>8, <1>9, <1>10, <1>11, <1>12,
    <1>13, <1>14, <1>15, <1>16, <1>17, <1>18, <1>19, <1>20, <1>21, <1>22, <1>23, <1>24,
    <1>25, <1>26, <1>27, <1>28, <1>29, <1>30, <1>31, <1>32 DEF DriverNext, Command,
    ApplyEffect, Proceed, Provider, Resolve

\* An end of a run that leaves a session of its launch behind is the failure of another
\* launch of it, or else an interrupt or a refusal is due.
LEMMA OrphanStep ==
  ASSUME StoreInv, DriveInv, RequestInv, DriverNext,
         NEW o \in Drives, kind[o] = "launch", stage[o] \in Live, stage'[o] \in Live,
         ~Active(driveOf[o])', ~EndIsDue(driveOf[o])'
  PROVE  \/ ~Active(driveOf[o]) /\ ~EndIsDue(driveOf[o])
         \/ \E e \in Drives : e # o /\ kind[e] = "launch" /\ stage[e] # "idle" /\ driveOf[e] = driveOf[o]
<1> DEFINE Kept == \/ ~Active(driveOf[o]) /\ ~EndIsDue(driveOf[o])
                   \/ \E e \in Drives :
                        e # o /\ kind[e] = "launch" /\ stage[e] # "idle" /\ driveOf[e] = driveOf[o]
<1> USE DEF EndIsDue, Active, DriveInv, MemoryType, DriveType, TurnIsLaunch, StoreInv, TypeOK, Ended, Live,
            Stage, TakesRequests, ActiveStatus, approvalVars, runVars, taskVars, handoffVars, vars
<1>1. ASSUME NEW r \in Runs, NEW t \in Tasks, NEW b \in Bots, NEW d \in Drives,
    Submit(r, t, b, d) PROVE Kept
  BY <1>1 DEF Submit, SubmitTask, Begin
<1>2. ASSUME NEW r \in Runs, NEW d \in Drives, Replay(r, d) PROVE Kept
  BY <1>2 DEF Replay, Begin, AbsentIsBare
<1>3. ASSUME NEW r \in Runs, NEW d \in Drives, Load(r, d) PROVE Kept
  BY <1>3 DEF Load, LoadSession, Begin, RowsAgree, LaunchIntentMatches
<1>4. ASSUME NEW a \in Approvals, AllowApproval(a), Resolve(a) PROVE Kept
  BY <1>4 DEF Resolve, AllowApproval, Resolvable, Later
<1>5. ASSUME NEW a \in Approvals, DenyApproval(a) \/ ResolveTooLate(a), Resolve(a) PROVE
    Kept
  <2>1. approvalRun[a] \in Runs /\ latched' = latched
        /\ status' = [status EXCEPT ![approvalRun[a]] = "failed"]
    BY <1>5 DEF DenyApproval, ResolveTooLate, Resolvable, FinishRuns, References, ApprovalsWellFormed
  <2>2. \E e \in {"reject_tool", "interrupt_provider"} :
          todo' = todo \cup {[effect |-> e, run |-> approvalRun[a]]}
    BY <1>5 DEF Resolve, Later, AllowApproval, DenyApproval, ResolveTooLate, Expired
  <2>3. driveOf' = driveOf
    BY <1>5 DEF Resolve
  <2>4. driveOf[o] # approvalRun[a]
    <3>1. SUFFICES ASSUME driveOf[o] = approvalRun[a] PROVE FALSE
      OBVIOUS
    <3>2. PICK e \in {"reject_tool", "interrupt_provider"} : [effect |-> e, run |-> driveOf[o]] \in todo'
      BY <2>2, <3>1
    <3>. QED BY <2>3, <3>2
  <2>5. \A e : e \in todo => e \in todo'
    BY <2>2
  <2>. QED BY <2>1, <2>3, <2>4, <2>5
<1>6. ASSUME NEW r \in Runs, Answer(r) PROVE Kept
  BY <1>6 DEF Answer, AnswerInput, Later
<1>7. ASSUME NEW r \in Runs, Cancel(r) PROVE Kept
  <2>1. /\ status' = [status EXCEPT ![r] = "canceled"] /\ latched' = latched
        /\ todo' = todo \cup {[effect |-> "interrupt_provider", run |-> r]} /\ driveOf' = driveOf
    BY <1>7 DEF Cancel, CancelRun, FinishRuns, Later
  <2>2. driveOf[o] # r
    <3>1. SUFFICES ASSUME driveOf[o] = r PROVE FALSE
      OBVIOUS
    <3>2. [effect |-> "interrupt_provider", run |-> driveOf[o]] \in todo'
      BY <2>1, <3>1
    <3>. QED BY <2>1, <3>2
  <2>3. \A e : e \in todo => e \in todo'
    BY <2>1
  <2>. QED BY <2>1, <2>2, <2>3
<1>8. ASSUME Stop PROVE Kept
  <2>1. [effect |-> "interrupt_provider", run |-> NoRun] \in todo'
    BY <1>8 DEF Stop, Later
  <2>. QED BY <2>1
<1>9. ASSUME NEW r \in Runs, DispatchTool(r) PROVE Kept
  BY <1>9 DEF DispatchTool, Applied
<1>10. ASSUME NEW r \in Runs, RejectTool(r) PROVE Kept
  <2>1. /\ UNCHANGED <<vars, driveOf>> /\ Due("reject_tool", r)
        /\ todo' = todo \ {[effect |-> "reject_tool", run |-> r]}
    BY <1>10 DEF RejectTool, Applied, Due
  <2>2. driveOf[o] # r
    <3>1. SUFFICES ASSUME driveOf[o] = r PROVE FALSE
      OBVIOUS
    <3>2. o \in SessionOf(r) /\ asked[o] # "none"
      BY <2>1, <3>1 DEF RequestInv, RejectMeetsRequest, SessionOf
    <3>. QED BY <1>10, <3>1, <3>2 DEF RejectTool, DropSessions
  <2>3. \A e : e \in todo /\ e.run \in {driveOf[o], NoRun} => e \in todo'
    BY <2>1, <2>2, IdentityAssumption
  <2>. QED BY <2>1, <2>3
<1>11. ASSUME NEW r \in Runs, ResumeInput(r) PROVE Kept
  BY <1>11 DEF ResumeInput, Applied
<1>12. ASSUME NEW r \in Runs, InterruptProvider(r) PROVE Kept
  <2>1. /\ UNCHANGED <<vars, driveOf>>
        /\ todo' = todo \ {[effect |-> "interrupt_provider", run |-> r]}
    BY <1>12 DEF InterruptProvider, Applied
  <2>2. driveOf[o] # r
    BY <1>12 DEF InterruptProvider, DropSessions
  <2>3. \A e : e \in todo /\ e.run \in {driveOf[o], NoRun} => e \in todo'
    BY <2>1, <2>2, IdentityAssumption
  <2>. QED BY <2>1, <2>3
<1>13. ASSUME InterruptAll PROVE Kept
  BY <1>13 DEF InterruptAll, Applied, DropSessions
<1>14. ASSUME NEW d \in Drives, BriefFails(d) PROVE Kept
  BY <1>14, EngineFailEffect DEF BriefFails, End, Harmless, BusyWithRun
<1>15. ASSUME NEW d \in Drives, SpawnRefused(d) PROVE Kept
  BY <1>15 DEF SpawnRefused, End, Permitted, StopQuiesces, Busy, BusyWithRun
<1>16. ASSUME NEW d \in Drives, Spawn(d) PROVE Kept
  BY <1>16 DEF Spawn, Permitted
<1>17. ASSUME NEW d \in Drives, SpawnFails(d) PROVE Kept
  BY <1>17, EngineFailEffect, EndLoadEffect DEF SpawnFails, End, Harmless
<1>18. ASSUME NEW d \in Drives, RequestFails(d) PROVE Kept
  <2>1. driveOf[d] \in Runs /\ stage[d] \in {"handshake", "starting"}
    BY <1>18 DEF RequestFails
  <2>2. stage' = [stage EXCEPT ![d] = "idle"] /\ UNCHANGED <<driveOf, kind, todo>>
    BY <1>18 DEF RequestFails, End
  <2>3. Harmless(driveOf[d]) /\ (kind[d] = "load" => status'[driveOf[d]] = status[driveOf[d]])
    BY <1>18, <2>1, EngineFailEffect, CodexFailEffect DEF RequestFails, BusyWithRun
  <2>. QED BY <2>1, <2>2, <2>3 DEF Harmless
<1>19. ASSUME NEW d \in Drives, Rejected(d) PROVE Kept
  BY <1>19, EngineFailEffect DEF Rejected, RejectionDue, End, Harmless
<1>20. ASSUME NEW d \in Drives, ThreadStarts(d) PROVE Kept
  BY <1>20 DEF ThreadStarts, MarkRunning, End
<1>21. ASSUME NEW d \in Drives, HistoryLoaded(d) PROVE Kept
  BY <1>21, EndLoadEffect DEF HistoryLoaded, End, Harmless
<1>22. ASSUME NEW d \in Drives, TurnStarts(d) PROVE Kept
  BY <1>22 DEF TurnStarts
<1>23. ASSUME NEW d \in Drives, NEW a \in Approvals, AskApproval(d, a) PROVE Kept
  BY <1>23 DEF AskApproval, RequestApproval, TakesRequests, Unasked
<1>24. ASSUME NEW d \in Drives, AskTooMuch(d) PROVE Kept
  BY <1>24, FailIfActiveEffect DEF AskTooMuch, TakesRequests, DropSessions, Harmless
<1>25. ASSUME NEW d \in Drives, AskInput(d) PROVE Kept
  BY <1>25 DEF AskInput, RequestInput, TakesRequests, Unasked
<1>26. ASSUME NEW d \in Drives, TurnCompletes(d) PROVE Kept
  BY <1>26 DEF TurnCompletes, TurnIsOver, Complete, FinishRuns, TakesRequests, DropSessions
<1>27. ASSUME NEW d \in Drives, ProviderFails(d) PROVE Kept
  <2>1. driveOf[d] \in Runs /\ stage[d] \in Live
    BY <1>27 DEF ProviderFails
  <2>2. /\ \A e \in Drives : e # d /\ driveOf[e] = driveOf[d] => stage[e] \notin Live
        /\ UNCHANGED <<driveOf, kind, todo>>
        /\ stage'[d] \notin Live /\ \A e \in Drives : e # d => stage'[e] = stage[e]
    BY <1>27, <2>1 DEF ProviderFails, DropSessions, OneSession
  <2>3. Harmless(driveOf[d])
    BY <1>27, <2>1, CodexFailEffect DEF ProviderFails
  <2>. QED BY <2>1, <2>2, <2>3 DEF Harmless
<1>32. ASSUME NEW d \in Drives, TurnInterrupted(d) PROVE Kept
  <2>1. driveOf[d] \in Runs /\ stage[d] \in Live
    BY <1>32 DEF TurnInterrupted
  <2>2. /\ \A e \in Drives : e # d /\ driveOf[e] = driveOf[d] => stage[e] \notin Live
        /\ UNCHANGED <<driveOf, kind, todo>>
        /\ stage'[d] \notin Live /\ \A e \in Drives : e # d => stage'[e] = stage[e]
    BY <1>32, <2>1 DEF TurnInterrupted, TurnIsOver, DropSessions, OneSession
  <2>3. Harmless(driveOf[d])
    BY <1>32, <2>1, FailIfActiveEffect DEF TurnInterrupted
  <2>. QED BY <2>1, <2>2, <2>3 DEF Harmless
<1>28. ASSUME SweepAndInterrupt PROVE Kept
  BY <1>28, SweepEffect DEF SweepAndInterrupt, DropSessions
<1>29. ASSUME Restart PROVE Kept
  BY <1>29 DEF Restart, InterruptActive, ActiveRuns
<1>30. ASSUME Time PROVE Kept
  BY <1>30 DEF Time, Tick, driverVars
<1>31. ASSUME UNCHANGED allVars PROVE Kept
  BY <1>31 DEF allVars, driverVars, vars
<1>. QED BY <1>1, <1>2, <1>3, <1>4, <1>5, <1>6, <1>7, <1>8, <1>9, <1>10, <1>11, <1>12,
    <1>13, <1>14, <1>15, <1>16, <1>17, <1>18, <1>19, <1>20, <1>21, <1>22, <1>23, <1>24,
    <1>25, <1>26, <1>27, <1>28, <1>29, <1>30, <1>31, <1>32 DEF DriverNext, Command,
    ApplyEffect, Proceed, Provider, Resolve

-----------------------------------------------------------------------------
(* The invariant of the driver, and what follows from it                   *)

LEMMA LoadingStays ==
  ASSUME StoreInv, StoreInv', DriveInv, EndsAreDue, LoadingHasLoader, DriverNext
  PROVE  LoadingHasLoader'
<1>1. SUFFICES ASSUME NEW r \in Runs, loading'[r], status'[r] \in {"succeeded", "interrupted"}
               PROVE  r \in cut' \/ \E d \in Drives : Loads(d, r)'
  BY DEF LoadingHasLoader, Loads
<1>2. CASE /\ loading[r] /\ status'[r] = status[r] /\ r \notin cut
           /\ \A d \in Drives : Loads(d, r) => Loads(d, r)'
  <2>1. PICK d \in Drives : Loads(d, r)
    BY <1>1, <1>2 DEF LoadingHasLoader, Loads
  <2>. QED BY <1>2, <2>1
<1>. QED BY <1>1, <1>2, LoadersStay

LEMMA OrphansStay ==
  ASSUME StoreInv, DriveInv, RequestInv, DriveMoves, TwoNeedReplay, OrphanNeedsReplay, DriverNext
  PROVE  OrphanNeedsReplay'
<1>1. SUFFICES ASSUME NEW d \in Drives, Orphan(d)' PROVE driveOf'[d] \in replayed'
  BY DEF OrphanNeedsReplay
<1>2. /\ kind[d] = "launch" /\ driveOf'[d] = driveOf[d] /\ replayed \subseteq replayed'
      /\ stage[d] \in Live \/ Spawns(d)
  BY <1>1, BeginsAlone DEF Orphan, Live, DriveMoves, Begins, Spawns, Starts, Goes, Ends, OneBegins, DriveInv
<1>3. ~Active(driveOf[d])' /\ ~EndIsDue(driveOf[d])' /\ stage'[d] \in Live
  BY <1>1, <1>2 DEF Orphan, Active, EndIsDue
<1>4. ~Spawns(d)
  BY <1>2, <1>3 DEF Spawns, Active, vars, runVars
<1>5. CASE ~Active(driveOf[d]) /\ ~EndIsDue(driveOf[d])
  BY <1>2, <1>4, <1>5 DEF OrphanNeedsReplay, Orphan
<1>6. CASE \E e \in Drives : e # d /\ kind[e] = "launch" /\ stage[e] # "idle" /\ driveOf[e] = driveOf[d]
  BY <1>2, <1>4, <1>6 DEF TwoNeedReplay, Live
<1>. QED BY <1>2, <1>3, <1>4, <1>5, <1>6, OrphanStep

DriverInv ==
  DriveInv /\ EndsAreDue /\ RequestInv /\ TwoNeedReplay /\ AcceptedInv /\ LoadingHasLoader
    /\ OrphanNeedsReplay

LEMMA DriverInvStep ==
  ASSUME StoreInv, StoreInv', DriverInv, [DriverNext]_allVars
  PROVE  DriverInv'
<1>1. DriveType /\ DriveInv /\ EndsAreDue /\ RequestInv /\ TwoNeedReplay /\ AcceptedInv
        /\ LoadingHasLoader /\ OrphanNeedsReplay
  BY DEF DriverInv, DriveInv, MemoryType
<1>2. RunMoves /\ DecisionStands /\ DriveType'
  BY <1>1, StoreStep, StoreMoves, DriveTypeStep
<1>3. EndsAreDue'
  BY <1>1, <1>2, EndsAreDueStep
<1>4. CASE DriverNext
  <2>1. DriveMoves
    BY <1>1, <1>2, <1>4, DriveMovesStep
  <2>2. DriveInv'
    BY <1>1, <1>2, <2>1, DriveInvStep
  <2>3. RequestInv'
    BY <1>1, <1>2, <1>3, <1>4, <2>1, <2>2, RequestStep
  <2>4. TwoNeedReplay' /\ AcceptedInv' /\ LoadingHasLoader' /\ OrphanNeedsReplay'
    BY <1>1, <1>2, <1>4, <2>1, TwoStep, AcceptedStep, LoadingStays, OrphansStay
  <2>. QED BY <1>3, <2>2, <2>3, <2>4 DEF DriverInv
<1>5. CASE UNCHANGED allVars
  <2> USE <1>1, <1>5 DEF allVars, driverVars, vars, runVars, approvalVars
  <2>1. DriveInv'
    BY DEF DriveInv, MemoryType, DriveType, OneSession, BusyWithRun, Ended, LaunchLives, TurnIsLaunch,
       TakesRequests
  <2>2. RequestInv'
    BY DEF RequestInv, PendingHasAsker, InputHasAsker, DispatchMeetsAllowed, ResumeMeetsInput,
       RejectMeetsRequest, Due, SessionOf
  <2>3. TwoNeedReplay' /\ AcceptedInv' /\ LoadingHasLoader' /\ OrphanNeedsReplay'
    BY DEF TwoNeedReplay, AcceptedInv, AcceptedIsAllowed, LoadingHasLoader, OrphanNeedsReplay, Orphan,
       Active, EndIsDue
  <2>. QED BY <1>3, <2>1, <2>2, <2>3 DEF DriverInv
<1>. QED BY <1>4, <1>5

LEMMA DriverInvInit == DriverInit => DriverInv
<1> SUFFICES ASSUME DriverInit PROVE DriverInv
  OBVIOUS
<1> USE DEF DriverInit, Init, Live, Stage, SessionOf, TakesRequests
<1>1. DriveInv
  BY DEF DriveInv, MemoryType, DriveType, OneSession, BusyWithRun, LaunchLives, TurnIsLaunch
<1>2. EndsAreDue /\ TwoNeedReplay /\ AcceptedInv /\ LoadingHasLoader /\ OrphanNeedsReplay
  BY DEF EndsAreDue, TwoNeedReplay, AcceptedInv, AcceptedIsAllowed, LoadingHasLoader,
     OrphanNeedsReplay, Orphan
<1>3. RequestInv
  BY DEF RequestInv, PendingHasAsker, InputHasAsker, DispatchMeetsAllowed, ResumeMeetsInput,
     RejectMeetsRequest, Due, ActiveStatus
<1>. QED BY <1>1, <1>2, <1>3 DEF DriverInv

LEMMA DriverHolds == DriverSpec => [](StoreInv /\ DriverInv)
<1>1. DriverSpec => []StoreInv
  BY DriverImplementsStore, StoreHolds, PTL
<1>2. StoreInv /\ StoreInv' /\ DriverInv /\ [DriverNext]_allVars => DriverInv'
  BY DriverInvStep
<1>. QED BY <1>1, <1>2, DriverInvInit, PTL DEF DriverSpec

\* No provider goes ahead with anything but what the owner allowed, in whatever order
\* decisions, requests, restarts and retries interleave (codex.ts:549-563,
\* engine.ts:199-209).
THEOREM AcceptsWhatIsAllowed == DriverSpec => []AcceptedIsAllowed
<1>1. DriverInv => AcceptedIsAllowed
  BY DEF DriverInv, AcceptedInv
<1>. QED BY <1>1, DriverHolds, PTL

\* Every end of a run takes its provider down, now or by an effect that is already due,
\* unless a retried submission has driven the run twice (codex.ts:135-148,
\* http.ts:118-126).
THEOREM OrphansNeedReplays == DriverSpec => []OrphanNeedsReplay
<1>1. DriverInv => OrphanNeedsReplay
  BY DEF DriverInv
<1>. QED BY <1>1, DriverHolds, PTL

\* A run that waits, loads or is in a turn has the handler and the session that this
\* takes, but for the loads that LoadingHasLoader names (codex.ts:398-532, 549-577).
THEOREM RunsHaveServants == DriverSpec => []RunsAreServed
<1>1. ASSUME StoreInv, DriverInv PROVE RunsAreServed
  <2>1. WaitingHasAsker
    <3> SUFFICES ASSUME NEW r \in Runs, status[r] \in {"waiting_approval", "waiting_input"}
                 PROVE  \E d \in SessionOf(r) : asked[d] # "none"
      BY DEF WaitingHasAsker
    <3>1. CASE status[r] = "waiting_input"
      BY <1>1, <3>1 DEF DriverInv, RequestInv, InputHasAsker
    <3>2. CASE status[r] = "waiting_approval"
      <4>1. PICK a \in Approvals : approvalRun[a] = r /\ approval[a] = "pending"
        BY <1>1, <3>2 DEF StoreInv, RowsAgree, WaitingHasRequest
      <4>2. PICK d \in SessionOf(r) : asked[d] = a
        BY <1>1, <3>2, <4>1 DEF DriverInv, RequestInv, PendingHasAsker, ActiveStatus
      <4>. QED BY <4>2, RequestAssumption
    <3>. QED BY <3>1, <3>2
  <2>2. LoadingHasLoader
    BY <1>1 DEF DriverInv
  <2>3. TurnHasSession
    BY <1>1 DEF DriverInv, DriveInv, TurnIsLaunch, TurnHasSession, TakesRequests
  <2>. QED BY <2>1, <2>2, <2>3 DEF RunsAreServed
<1>. QED BY <1>1, DriverHolds, PTL
=============================================================================
