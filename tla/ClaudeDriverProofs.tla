------------------------ MODULE ClaudeDriverProofs ------------------------
(***************************************************************************)
(* The Claude driver implements the store's specification: whatever it     *)
(* does to the store's variables, in its handlers, its detached bodies and *)
(* its permission bridge, is one of the store's own transactions.          *)
(*                                                                         *)
(* Then what the driver adds to the store: its bodies and their turns, the *)
(* tool uses they hold and the effects that wait fit the rows              *)
(* (`DriverInv').                                                          *)
(***************************************************************************)
EXTENDS ClaudeDriver, RunStoreProofs

\* The part of the driver's type that says which run a busy drive works for.
DriveType ==
  /\ stage \in [Drives -> Stage]
  /\ driveOf \in [Drives -> Runs \cup {NoRun}]
  /\ \A d \in Drives : stage[d] # "idle" => driveOf[d] \in Runs

\* The busy drives keep their run.
LEMMA DriveTypeStep ==
  ASSUME DriveType, [DriverNext]_allVars
  PROVE  DriveType'
<1>1. CASE UNCHANGED allVars
  BY <1>1 DEF allVars, driverVars, DriveType
<1>2. ASSUME NEW r \in Runs, NEW d \in Drives, NEW k, Begin(d, r, k) PROVE DriveType'
  BY <1>2 DEF DriveType, Begin, Stage
<1>3. ASSUME NEW S, NEW D, Interrupt(S, D), UNCHANGED driveOf PROVE DriveType'
  BY <1>3 DEF DriveType, Interrupt, Stage, Live
<1>4. ASSUME UNCHANGED <<stage, driveOf>> PROVE DriveType'
  BY <1>4 DEF DriveType
<1>5. ASSUME NEW d \in Drives, NEW s \in Stage, stage[d] # "idle",
             stage' = [stage EXCEPT ![d] = s], UNCHANGED driveOf
      PROVE  DriveType'
  BY <1>5 DEF DriveType
<1>6. ASSUME NEW d \in Drives, Close(d), UNCHANGED driveOf PROVE DriveType'
  BY <1>6, <1>3 DEF Close
<1>7. CASE Command
  <2>1. ASSUME NEW r \in Runs, NEW d \in Drives, NEW t \in Tasks, NEW b \in Bots, Submit(r, t, b, d)
        PROVE  DriveType'
    <3>1. CASE b = "ivo"
      BY <2>1, <3>1, <1>2 DEF Submit
    <3>2. CASE b # "ivo"
      BY <2>1, <3>2, <1>4 DEF Submit
    <3>. QED BY <3>1, <3>2
  <2>2. ASSUME NEW s \in Runs, NEW t \in Tasks, NEW x \in Runs, NEW d \in Drives, Propose(s, t, x, d)
        PROVE  DriveType'
    BY <2>2, <1>2 DEF Propose
  <2>3. ASSUME NEW r \in Runs, NEW d \in Drives, Replay(r, d) PROVE DriveType'
    BY <2>3, <1>2 DEF Replay
  <2>4. ASSUME NEW r \in Runs, NEW d \in Drives, Load(r, d) PROVE DriveType'
    <3>1. CASE frozen[r].bot = "ivo"
      BY <2>4, <3>1, <1>2 DEF Load
    <3>2. CASE frozen[r].bot # "ivo"
      BY <2>4, <3>2, <1>4 DEF Load
    <3>. QED BY <3>1, <3>2
  <2>5. ASSUME NEW a \in Approvals, Resolve(a) PROVE DriveType'
    BY <2>5, <1>4 DEF Resolve
  <2>6. ASSUME NEW r \in Runs, Answer(r) \/ Cancel(r) PROVE DriveType'
    BY <2>6, <1>4 DEF Answer, Cancel
  <2>7. ASSUME Stop PROVE DriveType'
    BY <2>7, <1>4 DEF Stop
  <2>. QED BY <1>7, <2>1, <2>2, <2>3, <2>4, <2>5, <2>6, <2>7 DEF Command
<1>8. CASE ApplyEffect
  <2>1. ASSUME NEW r \in Runs, DispatchTool(r) \/ ResumeInput(r) PROVE DriveType'
    BY <2>1, <1>4 DEF DispatchTool, ResumeInput
  <2>2. ASSUME NEW r \in Runs, RejectTool(r) PROVE DriveType'
    BY <2>2, <1>3 DEF RejectTool
  <2>3. ASSUME NEW r \in Runs, InterruptProvider(r) PROVE DriveType'
    BY <2>3, <1>3 DEF InterruptProvider
  <2>4. ASSUME InterruptAll PROVE DriveType'
    BY <2>4, <1>3 DEF InterruptAll
  <2>. QED BY <1>8, <2>1, <2>2, <2>3, <2>4 DEF ApplyEffect
<1>9. ASSUME NEW d \in Drives, Proceed(d) PROVE DriveType'
  <2>1. CASE BriefFails(d) \/ LoadRefused(d) \/ SpawnFails(d)
    BY <2>1, <1>3 DEF BriefFails, LoadRefused, SpawnFails
  <2>2. CASE ReadSnapshot(d)
    BY <2>2, <1>5 DEF ReadSnapshot, Stage
  <2>3. CASE Spawn(d)
    <3>1. stage' = [stage EXCEPT ![d] = "starting"] \/ Interrupt({}, {d})
      BY <2>3 DEF Spawn
    <3>. QED BY <2>3, <3>1, <1>3, <1>5 DEF Spawn, Stage
  <2>4. CASE TimerFires(d)
    BY <2>4, <1>6 DEF TimerFires
  <2>5. CASE Claims(d)
    <3>1. \/ stage' = [stage EXCEPT ![d] = "starting"]
          \/ Interrupt({}, {d})
      BY <2>5 DEF Claims
    <3>. QED BY <2>5, <3>1, <1>3, <1>5 DEF Claims, Stage
  <2>. QED BY <1>9, <2>1, <2>2, <2>3, <2>4, <2>5 DEF Proceed
<1>10. ASSUME NEW d \in Drives, Provider(d) PROVE DriveType'
  <2>1. CASE NativeInit(d)
    <3>1. stage' = [stage EXCEPT ![d] = "prompting"] \/ Close(d)
      BY <2>1 DEF NativeInit
    <3>. QED BY <2>1, <3>1, <1>5, <1>6 DEF NativeInit, Stage
  <2>2. ASSUME NEW n \in {"Bash", "AskUserQuestion"}, CanUseTool(d, n) PROVE DriveType'
    BY <2>2, <1>4 DEF CanUseTool
  <2>3. CASE AbortTool(d) \/ PermissionDenied(d) \/ AskInput(d)
    BY <2>3, <1>4 DEF AbortTool, PermissionDenied, AskInput
  <2>4. ASSUME NEW a \in Approvals, AskApproval(d, a) PROVE DriveType'
    BY <2>4, <1>4 DEF AskApproval
  <2>5. CASE PermissionTooMuch(d) \/ ProviderFails(d) \/ HistoryLoaded(d) \/ Completes(d) \/ Declines(d)
    BY <2>5, <1>6 DEF PermissionTooMuch, ProviderFails, HistoryLoaded, Completes, Declines
  <2>6. CASE Accepts(d)
    BY <2>6, <1>5 DEF Accepts, Stage
  <2>. QED BY <1>10, <2>1, <2>2, <2>3, <2>4, <2>5, <2>6 DEF Provider
<1>11. ASSUME NEW r \in Runs, MaraStep(r) PROVE DriveType'
  BY <1>11, <1>4 DEF MaraStep, driverVars
<1>12. CASE SweepAndInterrupt
  BY <1>12, <1>3 DEF SweepAndInterrupt
<1>13. CASE Restart
  BY <1>13 DEF Restart, DriveType, Stage
<1>14. CASE Time
  BY <1>14, <1>4 DEF Time, driverVars
<1>. QED
  BY <1>1, <1>7, <1>8, <1>9, <1>10, <1>11, <1>12, <1>13, <1>14 DEF DriverNext

-----------------------------------------------------------------------------
(* What the parts of the handlers do to the store                          *)

\* A failure of an existing run, or the end of its load, is a step of the store.
LEMMA FailureIsStoreStep ==
  ASSUME NEW r \in Runs,
         \/ FailIfActive(r) \/ EndLoadIfLoading(r) \/ EngineFail(r)
  PROVE  [Next]_vars
<1>1. FailRun(r) \/ FailRecipient(r) \/ EndLoad(r) \/ UNCHANGED vars
  BY DEF FailIfActive, EndLoadIfLoading, EngineFail
<1>2. FailRun(r) \/ FailRecipient(r) \/ EndLoad(r) => DriverCall
  BY DEF DriverCall
<1>. QED BY <1>1, <1>2 DEF Next

LEMMA ClaudeFailIsStoreStep ==
  ASSUME NEW d \in Drives, driveOf[d] \in Runs, ClaudeFail(d)
  PROVE  [Next]_vars
<1>1. FailIfActive(driveOf[d]) \/ EndLoadIfLoading(driveOf[d])
  BY DEF ClaudeFail
<1>. QED BY <1>1, FailureIsStoreStep

\* Every step of the driver is a step of the store or leaves the store alone.
LEMMA StoreStep ==
  ASSUME DriveType, [DriverNext]_allVars
  PROVE  [Next]_vars
<1>1. CASE UNCHANGED allVars
  BY <1>1 DEF allVars
<1>2. CASE Command
  <2>1. ASSUME NEW r \in Runs, NEW d \in Drives, NEW t \in Tasks, NEW b \in Bots, Submit(r, t, b, d)
        PROVE  [Next]_vars
    <3>1. SubmitTask(r, t, b, "native") /\ "native" \in Providers
      BY <2>1, DriveAssumption DEF Submit
    <3>2. OwnerCommand
      BY <3>1 DEF OwnerCommand
    <3>. QED BY <3>2 DEF Next
  <2>2. ASSUME NEW s \in Runs, NEW t \in Tasks, NEW x \in Runs, NEW d \in Drives, Propose(s, t, x, d)
        PROVE  [Next]_vars
    <3>1. OwnerCommand
      BY <2>2 DEF Propose, OwnerCommand
    <3>. QED BY <3>1 DEF Next
  <2>3. ASSUME NEW r \in Runs, NEW d \in Drives, Replay(r, d) PROVE [Next]_vars
    BY <2>3 DEF Replay
  <2>4. ASSUME NEW r \in Runs, NEW d \in Drives, Load(r, d) PROVE [Next]_vars
    <3>1. OwnerCommand
      BY <2>4 DEF Load, OwnerCommand
    <3>. QED BY <3>1 DEF Next
  <2>5. ASSUME NEW a \in Approvals, Resolve(a) PROVE [Next]_vars
    <3>1. OwnerCommand
      BY <2>5 DEF Resolve, OwnerCommand
    <3>. QED BY <3>1 DEF Next
  <2>6. ASSUME NEW r \in Runs, Answer(r) \/ Cancel(r) PROVE [Next]_vars
    <3>1. OwnerCommand
      BY <2>6 DEF Answer, Cancel, OwnerCommand
    <3>. QED BY <3>1 DEF Next
  <2>7. ASSUME Stop PROVE [Next]_vars
    BY <2>7 DEF Stop, OwnerCommand, Next
  <2>. QED BY <1>2, <2>1, <2>2, <2>3, <2>4, <2>5, <2>6, <2>7 DEF Command
<1>3. CASE ApplyEffect
  BY <1>3 DEF ApplyEffect, DispatchTool, RejectTool, ResumeInput, InterruptProvider, InterruptAll
<1>4. ASSUME NEW d \in Drives, Proceed(d) PROVE [Next]_vars
  <2>1. driveOf[d] \in Runs
    BY <1>4 DEF Proceed, BriefFails, ReadSnapshot, LoadRefused, Spawn, SpawnFails, TimerFires,
                Claims, Live, DriveType
  <2>2. CASE ReadSnapshot(d) \/ LoadRefused(d)
    BY <2>2 DEF ReadSnapshot, LoadRefused
  <2>3. CASE BriefFails(d) \/ SpawnFails(d) \/ TimerFires(d)
    <3>1. \/ EngineFail(driveOf[d]) \/ EndLoadIfLoading(driveOf[d])
          \/ ClaudeFail(d) \/ FailIfActive(driveOf[d])
      BY <2>3 DEF BriefFails, SpawnFails, TimerFires
    <3>. QED BY <3>1, <2>1, FailureIsStoreStep, ClaudeFailIsStoreStep
  <2>4. CASE Spawn(d) \/ Claims(d)
    <3>1. \/ BumpAction(driveOf[d]) \/ ClaimDraft(driveOf[d])
          \/ FailIfActive(driveOf[d]) \/ UNCHANGED vars
      BY <2>4 DEF Spawn, Claims
    <3>2. BumpAction(driveOf[d]) \/ ClaimDraft(driveOf[d]) => DriverCall
      BY <2>1 DEF DriverCall
    <3>. QED BY <3>1, <3>2, <2>1, FailureIsStoreStep DEF Next
  <2>. QED BY <1>4, <2>2, <2>3, <2>4 DEF Proceed
<1>5. ASSUME NEW d \in Drives, Provider(d) PROVE [Next]_vars
  <2>1. CASE \/ AbortTool(d) \/ PermissionDenied(d)
             \/ \E n \in {"Bash", "AskUserQuestion"} : CanUseTool(d, n)
    BY <2>1 DEF AbortTool, PermissionDenied, CanUseTool
  <2>2. CASE PermissionTooMuch(d) \/ ProviderFails(d) \/ HistoryLoaded(d)
    <3>1. driveOf[d] \in Runs
      BY <2>2 DEF PermissionTooMuch, ProviderFails, HistoryLoaded, Live, DriveType
    <3>2. EndLoadIfLoading(driveOf[d]) \/ FailIfActive(driveOf[d]) \/ ClaudeFail(d)
      BY <2>2 DEF HistoryLoaded, PermissionTooMuch, ProviderFails
    <3>. QED BY <3>1, <3>2, FailureIsStoreStep, ClaudeFailIsStoreStep
  <2>3. CASE \/ NativeInit(d) \/ AskInput(d) \/ Completes(d)
             \/ \E a \in Approvals : AskApproval(d, a)
    <3>1. driveOf[d] \in Runs
      BY <2>3 DEF NativeInit, AskInput, Completes, AskApproval, Received, DriveType
    <3>2. \/ MarkRunning(driveOf[d]) \/ AskQuestion(driveOf[d]) \/ Complete(driveOf[d])
          \/ \E a \in Approvals : RequestApproval(driveOf[d], a)
          \/ UNCHANGED vars
      BY <2>3 DEF NativeInit, AskInput, Completes, AskApproval
    <3>3. DriverCall \/ UNCHANGED vars
      BY <3>1, <3>2 DEF DriverCall
    <3>. QED BY <3>3 DEF Next
  <2>4. CASE Accepts(d) \/ Declines(d)
    <3>1. driveOf[d] \in Runs
      BY <2>4 DEF Accepts, Declines, DriveType
    <3>2. \/ AcceptOffer(driveOf[d]) \/ RejectOffer(driveOf[d]) \/ DecideTooLate(driveOf[d])
          \/ UNCHANGED vars
      BY <2>4 DEF Accepts, Declines
    <3>3. DriverCall \/ UNCHANGED vars
      BY <3>1, <3>2 DEF DriverCall
    <3>. QED BY <3>3 DEF Next
  <2>. QED BY <1>5, <2>1, <2>2, <2>3, <2>4 DEF Provider
<1>6. ASSUME NEW r \in Runs, MaraStep(r) PROVE [Next]_vars
  <2>1. DriverCall
    BY <1>6 DEF MaraStep, DriverCall
  <2>. QED BY <2>1 DEF Next
<1>7. CASE SweepAndInterrupt \/ Restart \/ Time
  BY <1>7 DEF SweepAndInterrupt, Restart, Time, Next
<1>. QED BY <1>1, <1>2, <1>3, <1>4, <1>5, <1>6, <1>7 DEF DriverNext

LEMMA DriveTypeAlways == DriverSpec => []DriveType
<1>1. DriverInit => DriveType
  BY DEF DriverInit, DriveType, Stage
<1>. QED BY <1>1, DriveTypeStep, PTL DEF DriverSpec

\* The Claude driver and the engine implement the store: they never write a row in
\* a way that is not a transaction of the store (claude.ts, engine.ts).
THEOREM ClaudeImplementsStore == DriverSpec => Spec
<1>1. DriverInit => Init
  BY DEF DriverInit
<1>. QED BY <1>1, StoreStep, DriveTypeAlways, PTL DEF DriverSpec, Spec

\* The admission limits hold while launches, handoffs, loads and retries race.
THEOREM ClaudeKeepsAdmission == DriverSpec => []ConcurrencyBound
  BY ClaudeImplementsStore, Admission, PTL

\* Stop-all stays quiet whatever bodies and bridges do that outlive it.
THEOREM ClaudeKeepsQuiet == DriverSpec => []StopQuiesces
  BY ClaudeImplementsStore, StopAllQuiesces, PTL

\* Approvals are decided once, and a task changes hands only by a timely acceptance,
\* however the two turns of a handoff race with interrupts, the sweep and restarts
\* (claude.ts:361-382).
THEOREM ClaudeKeepsOwnership == DriverSpec => DecisionsHold
  BY ClaudeImplementsStore, DecisionsStandForEver, PTL

\* No body that outlives its run brings it back.
THEOREM ClaudeKeepsCancellation == DriverSpec => EndingsHold
  BY ClaudeImplementsStore, EndingsStand, PTL

\* The recipient of a handoff never has an approval: the bridge offers it no tool
\* and the host refuses what it asks for (claude.ts:165-168).
THEOREM ClaudeKeepsHandoffsToolless == DriverSpec => []ApprovalsWellFormed
  BY ClaudeImplementsStore, ApprovalsHaveRuns, PTL

-----------------------------------------------------------------------------
(* What the driver keeps in memory fits the rows of the store              *)

\* The fields of the drives that matter to the rows
MemoryType ==
  /\ DriveType
  /\ turn \in [Drives -> {"only", "decision", "draft", "load"}]
  /\ asked \in [Drives -> Approvals \cup {"none", "input"}]

\* A run has one session at a time: its network's name is taken.
OneSession ==
  \A d, e \in Drives :
    stage[d] \in Live /\ stage[e] \in Live /\ driveOf[d] = driveOf[e] => d = e

\* A busy drive has a run of ivo, and a load has one that is over.
BusyWithRun ==
  \A d \in Drives : stage[d] # "idle" =>
    /\ status[driveOf[d]] # "absent" /\ frozen[driveOf[d]].bot = "ivo"
    /\ turn[d] = "load" => Ended(driveOf[d])

\* Only the turn of a task asks; only the decision of a handoff yields, and it is lost
\* only with its run.
TurnsFit ==
  \A d \in Drives :
    /\ asked[d] # "none" => stage[d] = "prompting" /\ turn[d] = "only"
    /\ stage[d] \in {"yielding", "lost"} => turn[d] = "decision"
    /\ stage[d] = "lost" => ~Active(driveOf[d])
    /\ stage[d] = "prompting" => turn[d] # "load"
    /\ stage[d] \in {"checking", "spawning"} => turn[d] # "draft"

\* A draft is prompted by the run that owns the task and has claimed the intent.
DraftClaimed ==
  \A d \in Drives : turn[d] = "draft" /\ stage[d] \in Live =>
    /\ draft[driveOf[d]] = "claimed"
    /\ \E t \in Tasks : handoff[t] = "accepted" /\ offer[t].recipient = driveOf[d]

DriveInv == MemoryType /\ OneSession /\ BusyWithRun /\ TurnsFit /\ DraftClaimed

\* The effects of receipts that wait
EndsAreDue ==
  \A e \in todo :
    /\ e.effect \in Effect /\ e.run \in Runs \cup {NoRun}
    /\ e.run # NoRun => status[e.run] # "absent"
    /\ e.run = NoRun => e.effect = "interrupt_provider" /\ latched
    /\ e.effect \in {"interrupt_provider", "reject_tool"} /\ e.run # NoRun => Down(e.run)

-----------------------------------------------------------------------------
(* What the parts of the handlers do                                       *)

\* A failure ends the run, or else the load that it shows, and touches nothing else.
Harmless(r) ==
  /\ UNCHANGED <<latched, frozen, approval, approvalRun>>
  /\ \A q \in Runs :
       /\ status'[q] # status[q] => q = r /\ status'[q] = "failed"
       /\ loading'[q] => loading[q]

LEMMA FailEffect ==
  ASSUME NEW r \in Runs, StoreInv, FailRun(r) \/ FailRecipient(r)
  PROVE  Harmless(r) /\ status'[r] \notin ActiveStatus /\ ~Ended(r)
<1>1. /\ UNCHANGED <<latched, frozen, loading, approval, approvalRun>>
      /\ status' = [q \in Runs |-> IF q = r THEN "failed" ELSE status[q]]
      /\ status[r] \in ActiveStatus
  BY DEF FailRun, FailRecipient, CloseOfferOf, FinishRuns, Active, approvalVars
<1>. QED BY <1>1 DEF Harmless, ActiveStatus, Ended

LEMMA EndLoadEffect ==
  ASSUME NEW r \in Runs, StoreInv, EndLoadIfLoading(r)
  PROVE  Harmless(r) /\ ~loading'[r] /\ status' = status
BY DEF EndLoadIfLoading, EndLoad, Harmless, StoreInv, TypeOK, vars, runVars, approvalVars

LEMMA FailIfActiveEffect ==
  ASSUME NEW r \in Runs, StoreInv, FailIfActive(r)
  PROVE  Harmless(r) /\ status'[r] \notin ActiveStatus
<1>1. CASE FailRun(r) \/ FailRecipient(r)
  BY <1>1, FailEffect
<1>2. CASE UNCHANGED vars /\ ~Active(r)
  BY <1>2, ActiveIsServed DEF Harmless, vars, runVars, approvalVars
<1>. QED BY <1>1, <1>2 DEF FailIfActive

LEMMA EngineFailEffect ==
  ASSUME NEW r \in Runs, StoreInv, EngineFail(r)
  PROVE  Harmless(r) /\ status'[r] \notin ActiveStatus /\ (Ended(r) => ~loading'[r])
<1>1. CASE FailRun(r) \/ FailRecipient(r)
  BY <1>1, FailEffect
<1>2. CASE EndLoadIfLoading(r) /\ ~Active(r)
  BY <1>2, EndLoadEffect, ActiveIsServed
<1>. QED BY <1>1, <1>2 DEF EngineFail

\* fail of spawnClaude ends a launch's run, or the load that the run shows.
LEMMA ClaudeFailEffect ==
  ASSUME NEW d \in Drives, driveOf[d] \in Runs, StoreInv, turn[d] = "load" => Ended(driveOf[d]),
         ClaudeFail(d)
  PROVE  /\ Harmless(driveOf[d]) /\ status'[driveOf[d]] \notin ActiveStatus
         /\ turn[d] = "load" => ~loading'[driveOf[d]]
BY EndLoadEffect, FailIfActiveEffect DEF ClaudeFail, Ended

\* Who closes a session ends it, and no other.
LEMMA CloseEffect ==
  ASSUME MemoryType, OneSession, NEW d \in Drives, stage[d] \in Live, Close(d)
  PROVE  /\ stage' = [stage EXCEPT ![d] = IF stage[d] = "yielding" THEN "lost" ELSE "idle"]
         /\ asked' = [asked EXCEPT ![d] = "none"]
<1>1. \A e \in Drives : driveOf[e] \in {driveOf[d]} /\ stage[e] \in Live <=> e = d
  BY DEF OneSession
<1>. QED BY <1>1 DEF Close, Interrupt, Hush, MemoryType, DriveType

\* A handler that returns without a session drops none.
LEMMA ReturnEffect ==
  ASSUME MemoryType, NEW d \in Drives, Interrupt({}, {d})
  PROVE  stage' = [stage EXCEPT ![d] = "idle"] /\ asked' = asked
BY DEF Interrupt, Hush, MemoryType, DriveType

\* The sweep fails the runs that its interrupts are for.
LEMMA SweepEffect ==
  ASSUME SweepAndInterrupt
  PROVE  /\ status' = [r \in Runs |-> IF r \in SweptRuns THEN "failed" ELSE status[r]]
         /\ \A a \in Approvals : approval'[a] # approval[a] => approval'[a] = "expired"
         /\ UNCHANGED <<latched, frozen, loading, approvalRun>>
BY DEF SweepAndInterrupt, Sweep, SweptRuns, FinishRuns, ExpireApprovals

\* Whatever is to be interrupted or refused has ended for good, before and after the
\* effect is applied.
LEMMA EndsAreDueStep ==
  ASSUME StoreInv, RunMoves, DriveInv, EndsAreDue, [DriverNext]_allVars
  PROVE  EndsAreDue'
<1>0. MemoryType /\ OneSession
  BY DEF DriveInv
<1>t. CASE todo' = todo \/ todo' \subseteq todo
  BY <1>t DEF EndsAreDue, StoreInv, TypeOK, RunMoves, Down
<1>1. ASSUME NEW r \in Runs, NEW t \in Tasks, NEW b \in Bots, NEW d \in Drives, Submit(r, t, b,
    d) PROVE EndsAreDue'
  BY <1>1, <1>t DEF Submit
<1>2. ASSUME NEW s \in Runs, NEW t \in Tasks, NEW r \in Runs, NEW d \in Drives, Propose(s, t, r,
    d) PROVE EndsAreDue'
  BY <1>2, <1>t DEF Propose
<1>3. ASSUME NEW r \in Runs, NEW d \in Drives, Replay(r, d) PROVE EndsAreDue'
  BY <1>3, <1>t DEF Replay
<1>4. ASSUME NEW r \in Runs, NEW d \in Drives, Load(r, d) PROVE EndsAreDue'
  BY <1>4, <1>t DEF Load
<1>5. ASSUME NEW a \in Approvals, AllowApproval(a), Resolve(a) PROVE EndsAreDue'
  <2>1. approvalRun[a] \in Runs
    BY <1>5 DEF StoreInv, References, ApprovalsWellFormed, AllowApproval, Resolvable, ApprovalState
  <2>2. /\ latched' = latched
        /\ status' = [status EXCEPT ![approvalRun[a]] = "running"]
        /\ status[approvalRun[a]] = "waiting_approval"
        /\ todo' = todo \cup {[effect |-> "dispatch_tool", run |-> approvalRun[a]]}
    BY <1>5 DEF AllowApproval, Resolvable, Resolve, Later, DenyApproval, ResolveTooLate, Expired, StoreInv, TypeOK
  <2>. QED BY <2>1, <2>2, IdentityAssumption DEF EndsAreDue, StoreInv, TypeOK, RunMoves, Down, Effect
<1>6. ASSUME NEW a \in Approvals, DenyApproval(a) \/ ResolveTooLate(a), Resolve(a) PROVE
    EndsAreDue'
  BY <1>6, IdentityAssumption DEF StoreInv, References, ApprovalsWellFormed, Resolve, DenyApproval,
      ResolveTooLate, ExpireApprovals, FinishRuns, Resolvable, Later, ApprovalState, EndsAreDue,
      StoreInv, TypeOK, RunMoves, Down, Effect
<1>7. ASSUME NEW r \in Runs, Answer(r) PROVE EndsAreDue'
  BY <1>7, IdentityAssumption DEF Answer, AnswerInput, Later, EndsAreDue, StoreInv, TypeOK,
      RunMoves, Down, Effect
<1>8. ASSUME NEW r \in Runs, Cancel(r) PROVE EndsAreDue'
  BY <1>8, IdentityAssumption DEF Cancel, CancelRun, FinishRuns, Later, EndsAreDue, StoreInv,
      TypeOK, RunMoves, Down, Effect
<1>9. ASSUME Stop PROVE EndsAreDue'
  BY <1>9, IdentityAssumption DEF Stop, StopAll, Later, EndsAreDue, StoreInv, TypeOK, RunMoves,
      Down, Effect
<1>10. ASSUME NEW r \in Runs, DispatchTool(r) PROVE EndsAreDue'
  BY <1>10, <1>t DEF DispatchTool, Applied
<1>11. ASSUME NEW r \in Runs, RejectTool(r) PROVE EndsAreDue'
  BY <1>11, <1>t DEF RejectTool, Applied
<1>12. ASSUME NEW r \in Runs, ResumeInput(r) PROVE EndsAreDue'
  BY <1>12, <1>t DEF ResumeInput, Applied
<1>13. ASSUME NEW r \in Runs, InterruptProvider(r) PROVE EndsAreDue'
  BY <1>13, <1>t DEF InterruptProvider, Applied
<1>14. ASSUME InterruptAll PROVE EndsAreDue'
  BY <1>14, <1>t DEF InterruptAll, Applied
<1>15. ASSUME NEW d \in Drives, BriefFails(d) PROVE EndsAreDue'
  BY <1>15, <1>t DEF BriefFails
<1>16. ASSUME NEW d \in Drives, ReadSnapshot(d) PROVE EndsAreDue'
  BY <1>16, <1>t DEF ReadSnapshot
<1>17. ASSUME NEW d \in Drives, LoadRefused(d) PROVE EndsAreDue'
  BY <1>17, <1>t DEF LoadRefused
<1>18. ASSUME NEW d \in Drives, Spawn(d) PROVE EndsAreDue'
  BY <1>18, <1>t DEF Spawn
<1>19. ASSUME NEW d \in Drives, SpawnFails(d) PROVE EndsAreDue'
  BY <1>19, <1>t DEF SpawnFails
<1>20. ASSUME NEW d \in Drives, TimerFires(d) PROVE EndsAreDue'
  BY <1>20, <1>t DEF TimerFires
<1>21. ASSUME NEW d \in Drives, Claims(d) PROVE EndsAreDue'
  BY <1>21, <1>t DEF Claims
<1>22. ASSUME NEW d \in Drives, NativeInit(d) PROVE EndsAreDue'
  BY <1>22, <1>t DEF NativeInit
<1>23. ASSUME NEW d \in Drives, AbortTool(d) \/ PermissionDenied(d) \/ \E n \in {"Bash",
    "AskUserQuestion"} : CanUseTool(d, n) PROVE EndsAreDue'
  BY <1>23, <1>t DEF AbortTool, PermissionDenied, CanUseTool
<1>24. ASSUME NEW d \in Drives, PermissionTooMuch(d) PROVE EndsAreDue'
  BY <1>24, <1>t DEF PermissionTooMuch
<1>25. ASSUME NEW d \in Drives, NEW a \in Approvals, AskApproval(d, a) PROVE EndsAreDue'
  BY <1>25, <1>t DEF AskApproval
<1>26. ASSUME NEW d \in Drives, AskInput(d) PROVE EndsAreDue'
  BY <1>26, <1>t DEF AskInput
<1>27. ASSUME NEW d \in Drives, ProviderFails(d) PROVE EndsAreDue'
  BY <1>27, <1>t DEF ProviderFails
<1>28. ASSUME NEW d \in Drives, HistoryLoaded(d) PROVE EndsAreDue'
  BY <1>28, <1>t DEF HistoryLoaded
<1>29. ASSUME NEW d \in Drives, Completes(d) PROVE EndsAreDue'
  BY <1>29, <1>t DEF Completes
<1>30. ASSUME NEW d \in Drives, Accepts(d) PROVE EndsAreDue'
  BY <1>30, <1>t DEF Accepts
<1>31. ASSUME NEW d \in Drives, Declines(d) PROVE EndsAreDue'
  BY <1>31, <1>t DEF Declines
<1>32. ASSUME NEW r \in Runs, MaraStep(r) PROVE EndsAreDue'
  BY <1>32, <1>t DEF MaraStep, driverVars
<1>33. ASSUME SweepAndInterrupt PROVE EndsAreDue'
  BY <1>33, <1>t DEF SweepAndInterrupt
<1>34. ASSUME Restart PROVE EndsAreDue'
  BY <1>34, <1>t DEF Restart
<1>35. ASSUME Time PROVE EndsAreDue'
  BY <1>35, <1>t DEF Time, driverVars
<1>36. ASSUME UNCHANGED allVars PROVE EndsAreDue'
  BY <1>36, <1>t DEF allVars, driverVars
<1>. QED BY <1>1, <1>2, <1>3, <1>4, <1>5, <1>6, <1>7, <1>8, <1>9, <1>10, <1>11, <1>12, <1>13,
    <1>14, <1>15, <1>16, <1>17, <1>18, <1>19, <1>20, <1>21, <1>22, <1>23, <1>24, <1>25, <1>26,
    <1>27, <1>28, <1>29, <1>30, <1>31, <1>32, <1>33, <1>34, <1>35, <1>36 DEF DriverNext,
    Command, ApplyEffect, Proceed, Provider, Resolve

-----------------------------------------------------------------------------
(* How a drive moves                                                       *)

Enters(d) ==
  /\ stage[d] = "idle" /\ stage'[d] = "checking"
  /\ driveOf'[d] \in Runs /\ turn'[d] \in {"only", "decision", "load"}
  /\ status'[driveOf'[d]] # "absent" /\ frozen'[driveOf'[d]].bot = "ivo"
  /\ turn'[d] = "load" => status'[driveOf'[d]] \notin ActiveStatus
  /\ turn'[d] # "load" => status[driveOf'[d]] = "absent" \/ driveOf'[d] \in replayed'

Reads(d) == stage[d] = "checking" /\ stage'[d] = "spawning"

Spawns(d) ==
  /\ stage[d] = "spawning" /\ stage' = [stage EXCEPT ![d] = "starting"]
  /\ SessionOf(driveOf[d]) = {}

Reports(d) ==
  /\ stage[d] = "starting" /\ stage'[d] = "prompting" /\ turn[d] # "load"
  /\ turn[d] # "draft" => Active(driveOf[d])'

Yields(d) == stage[d] = "prompting" /\ stage'[d] = "yielding" /\ turn[d] = "decision"

Redrafts(d) ==
  /\ stage[d] \in {"yielding", "lost"} /\ stage'[d] = "starting" /\ turn'[d] = "draft"
  /\ Active(driveOf[d]) /\ Active(driveOf[d])' /\ draft'[driveOf[d]] = "claimed"
  /\ \E t \in Tasks : handoff'[t] = "accepted" /\ offer'[t].recipient = driveOf[d]

Loses(d) == stage[d] = "yielding" /\ stage'[d] = "lost" /\ ~Active(driveOf[d])'

Ends(d) == stage[d] # "idle" /\ stage'[d] = "idle"

\* Each drive makes one of these moves, or stays, and keeps its run; a session that
\* waits for the owner is closed only with its run.
DriveMoves ==
  /\ turn' \in [Drives -> {"only", "decision", "draft", "load"}]
  /\ asked' \in [Drives -> Approvals \cup {"none", "input"}]
  /\ \A d \in Drives :
       /\ \/ Enters(d) \/ Reads(d) \/ Spawns(d) \/ Reports(d) \/ Yields(d) \/ Redrafts(d)
          \/ Loses(d) \/ Ends(d) \/ stage'[d] = stage[d]
       /\ ~Enters(d) => driveOf'[d] = driveOf[d] /\ (turn'[d] = turn[d] \/ Redrafts(d))
       /\ asked'[d] # "none" => stage'[d] = "prompting" /\ turn'[d] = "only"
       /\ asked[d] # "none" /\ stage'[d] # "prompting" => status'[driveOf[d]] \notin ActiveStatus

LEMMA DriveMovesStep ==
  ASSUME StoreInv, RunMoves, DriveInv, EndsAreDue, DriverNext
  PROVE  DriveMoves
<1>0. MemoryType /\ OneSession
  BY DEF DriveInv
<1>s. \A r \in Runs : status[r] \in ActiveStatus <=> Active(r)
  BY ActiveIsServed DEF Active
<1> USE DEF DriveInv, MemoryType, DriveType, TurnsFit, DriveMoves, Enters, Reads, Spawns, Reports,
            Yields, Redrafts, Loses, Ends, StoreInv, TypeOK, Live, Stage, ActiveStatus, approvalVars,
            runVars, taskVars, handoffVars, vars
<1>1. ASSUME NEW r \in Runs, NEW t \in Tasks, NEW b \in Bots, NEW d \in Drives, Submit(r, t, b,
    d) PROVE DriveMoves
  BY <1>1, <1>0, <1>s, RequestAssumption DEF Submit, SubmitTask, Begin
<1>2. ASSUME NEW s \in Runs, NEW t \in Tasks, NEW r \in Runs, NEW d \in Drives, Propose(s, t, r,
    d) PROVE DriveMoves
  BY <1>2, <1>0, <1>s, RequestAssumption DEF Propose, ProposeHandoff, Begin
<1>3. ASSUME NEW r \in Runs, NEW d \in Drives, Replay(r, d) PROVE DriveMoves
  BY <1>3, <1>0, <1>s, RequestAssumption DEF Replay, Begin, AbsentIsBare
<1>4. ASSUME NEW r \in Runs, NEW d \in Drives, Load(r, d) PROVE DriveMoves
  BY <1>4, <1>0, <1>s, RequestAssumption DEF Load, LoadSession, Begin, RowsAgree,
      LaunchIntentMatches
<1>5. ASSUME NEW a \in Approvals, AllowApproval(a), Resolve(a) PROVE DriveMoves
  BY <1>5, <1>0, <1>s, RequestAssumption DEF Resolve, AllowApproval, Resolvable, Later
<1>6. ASSUME NEW a \in Approvals, DenyApproval(a) \/ ResolveTooLate(a), Resolve(a) PROVE
    DriveMoves
  BY <1>6, <1>0, <1>s, RequestAssumption DEF Resolve, DenyApproval, ResolveTooLate,
      ExpireApprovals, FinishRuns, Resolvable, Later
<1>7. ASSUME NEW r \in Runs, Answer(r) PROVE DriveMoves
  BY <1>7, <1>0, <1>s, RequestAssumption DEF Answer, AnswerInput, Later
<1>8. ASSUME NEW r \in Runs, Cancel(r) PROVE DriveMoves
  BY <1>8, <1>0, <1>s, RequestAssumption DEF Cancel, CancelRun, CancelApprovals, FinishRuns,
      Later
<1>9. ASSUME Stop PROVE DriveMoves
  BY <1>9, <1>0, <1>s, RequestAssumption DEF Stop, StopAll, CancelApprovals, FinishRuns,
      ActiveRuns, Later
<1>10. ASSUME NEW r \in Runs, DispatchTool(r) PROVE DriveMoves
  BY <1>10, <1>0, <1>s, RequestAssumption DEF DispatchTool, Applied, Answered
<1>11. ASSUME NEW r \in Runs, RejectTool(r) PROVE DriveMoves
  <2>1. /\ stage' = [e \in Drives |-> IF driveOf[e] = r /\ stage[e] \in Live
                                     THEN IF stage[e] = "yielding" THEN "lost" ELSE "idle"
                                     ELSE stage[e]]
        /\ asked' = [e \in Drives |-> IF driveOf[e] = r /\ stage[e] \in Live THEN "none" ELSE asked[e]]
        /\ UNCHANGED <<driveOf, turn, ran, replayed>>
    BY <1>11 DEF RejectTool, Interrupt, Hush
  <2>2. /\ UNCHANGED <<latched, status, frozen, loading, approval, approvalRun>>
        /\ [effect |-> "reject_tool", run |-> r] \in todo
        /\ todo' = todo \ {[effect |-> "reject_tool", run |-> r]}
    BY <1>11 DEF RejectTool, Applied, vars, runVars, approvalVars
  <2>. QED BY <2>1, <2>2, <1>0, <1>s, RequestAssumption, IdentityAssumption DEF EndsAreDue,
      Down, Active
<1>12. ASSUME NEW r \in Runs, ResumeInput(r) PROVE DriveMoves
  BY <1>12, <1>0, <1>s, RequestAssumption DEF ResumeInput, Applied, Answered
<1>13. ASSUME NEW r \in Runs, InterruptProvider(r) PROVE DriveMoves
  <2>1. /\ stage' = [e \in Drives |-> IF driveOf[e] = r /\ stage[e] \in Live
                                     THEN IF stage[e] = "yielding" THEN "lost" ELSE "idle"
                                     ELSE stage[e]]
        /\ asked' = [e \in Drives |-> IF driveOf[e] = r /\ stage[e] \in Live THEN "none" ELSE asked[e]]
        /\ UNCHANGED <<driveOf, turn, ran, replayed>>
    BY <1>13 DEF InterruptProvider, Interrupt, Hush
  <2>2. /\ UNCHANGED <<latched, status, frozen, loading, approval, approvalRun>>
        /\ [effect |-> "interrupt_provider", run |-> r] \in todo
        /\ todo' = todo \ {[effect |-> "interrupt_provider", run |-> r]}
    BY <1>13 DEF InterruptProvider, Applied, vars, runVars, approvalVars
  <2>. QED BY <2>1, <2>2, <1>0, <1>s, RequestAssumption, IdentityAssumption DEF EndsAreDue,
      Down, Active
<1>14. ASSUME InterruptAll PROVE DriveMoves
  <2>1. /\ stage' = [e \in Drives |-> IF driveOf[e] \in Runs /\ stage[e] \in Live
                                     THEN IF stage[e] = "yielding" THEN "lost" ELSE "idle"
                                     ELSE stage[e]]
        /\ asked' = [e \in Drives |-> IF driveOf[e] \in Runs /\ stage[e] \in Live THEN "none" ELSE asked[e]]
        /\ UNCHANGED <<driveOf, turn, ran, replayed>>
    BY <1>14 DEF InterruptAll, Interrupt, Hush
  <2>2. /\ UNCHANGED <<latched, status, frozen, loading, approval, approvalRun>>
        /\ [effect |-> "interrupt_provider", run |-> NoRun] \in todo
        /\ todo' = todo \ {[effect |-> "interrupt_provider", run |-> NoRun]}
    BY <1>14 DEF InterruptAll, Applied, vars, runVars, approvalVars
  <2>. QED BY <2>1, <2>2, <1>0, <1>s, RequestAssumption DEF EndsAreDue, Active
<1>15. ASSUME NEW d \in Drives, BriefFails(d) PROVE DriveMoves
  <2>1. driveOf[d] \in Runs /\ stage[d] = "checking"
    BY <1>15 DEF BriefFails
  <2>2. /\ stage' = [stage EXCEPT ![d] = "idle"] /\ asked' = asked
        /\ UNCHANGED <<driveOf, turn, todo, ran, replayed>>
    BY <1>15, <2>1, ReturnEffect DEF BriefFails
  <2>3. Harmless(driveOf[d]) /\ status'[driveOf[d]] \notin ActiveStatus
        /\ (Ended(driveOf[d]) => ~loading'[driveOf[d]])
    BY <1>15, <2>1, EngineFailEffect DEF BriefFails
  <2>. QED BY <2>1, <2>2, <2>3, <1>0, <1>s, RequestAssumption DEF Harmless
<1>16. ASSUME NEW d \in Drives, ReadSnapshot(d) PROVE DriveMoves
  BY <1>16, <1>0, <1>s, RequestAssumption DEF ReadSnapshot
<1>17. ASSUME NEW d \in Drives, LoadRefused(d) PROVE DriveMoves
  <2>1. driveOf[d] \in Runs /\ stage[d] = "spawning" /\ turn[d] = "load"
    BY <1>17 DEF LoadRefused
  <2>2. /\ stage' = [stage EXCEPT ![d] = "idle"] /\ asked' = asked
        /\ UNCHANGED <<driveOf, turn, todo, ran, replayed>>
    BY <1>17, <2>1, ReturnEffect DEF LoadRefused
  <2>3. UNCHANGED vars /\ ~(loading[driveOf[d]] /\ ~latched)
    BY <1>17, <2>1 DEF LoadRefused
  <2>. QED BY <2>1, <2>2, <2>3, <1>0, <1>s, RequestAssumption
<1>18. ASSUME NEW d \in Drives, Spawn(d) PROVE DriveMoves
  <2>1. /\ driveOf[d] \in Runs /\ stage[d] = "spawning" /\ SessionOf(driveOf[d]) = {}
        /\ UNCHANGED <<driveOf, turn, todo, ran, replayed>>
    BY <1>18 DEF Spawn
  <2>2. CASE stage' = [stage EXCEPT ![d] = "starting"]
    <3>1. asked' = asked /\ UNCHANGED <<latched, status, frozen, loading, approval, approvalRun>>
      BY <1>18, <2>1, <2>2 DEF Spawn, BumpAction, Interrupt, vars, runVars, approvalVars
    <3>2. stage'[d] = "starting" /\ \A e \in Drives : e # d => stage'[e] = stage[e]
      BY <2>2
    <3>3. asked[d] = "none" /\ \A e \in Drives : asked[e] # "none" => stage'[e] = "prompting"
      BY <2>1, <3>2, <1>0, <1>s, RequestAssumption DEF Harmless
    <3>. QED BY <2>1, <2>2, <3>1, <3>2, <3>3, <1>0, <1>s, RequestAssumption DEF Harmless
  <2>3. CASE Interrupt({}, {d}) /\ FailIfActive(driveOf[d]) /\ turn[d] = "decision"
    <3>1. stage' = [stage EXCEPT ![d] = "idle"] /\ asked' = asked
      BY <2>1, <2>3, ReturnEffect
    <3>2. Harmless(driveOf[d])
      BY <2>1, <2>3, FailIfActiveEffect
    <3>. QED BY <2>1, <2>3, <3>1, <3>2, <1>0, <1>s, RequestAssumption DEF Harmless
  <2>. QED BY <1>18, <2>2, <2>3 DEF Spawn
<1>19. ASSUME NEW d \in Drives, SpawnFails(d) PROVE DriveMoves
  <2>1. driveOf[d] \in Runs /\ stage[d] = "spawning"
    BY <1>19 DEF SpawnFails
  <2>2. /\ stage' = [e \in Drives |-> IF e = d THEN "idle"
                                     ELSE IF driveOf[e] = driveOf[d] /\ stage[e] \in Live
                                     THEN IF stage[e] = "yielding" THEN "lost" ELSE "idle"
                                     ELSE stage[e]]
        /\ asked' = [e \in Drives |-> IF driveOf[e] = driveOf[d] /\ stage[e] \in Live THEN "none"
                                     ELSE asked[e]]
        /\ UNCHANGED <<driveOf, turn, todo, ran, replayed>>
    BY <1>19 DEF SpawnFails, Interrupt, Hush
  <2>3. Harmless(driveOf[d]) /\ status'[driveOf[d]] \notin ActiveStatus
        /\ (Ended(driveOf[d]) => ~loading'[driveOf[d]])
    BY <1>19, <2>1, EngineFailEffect, EndLoadEffect DEF SpawnFails, BusyWithRun, Ended
  <2>. QED BY <2>1, <2>2, <2>3, <1>0, <1>s, RequestAssumption DEF Active, Harmless
<1>20. ASSUME NEW d \in Drives, TimerFires(d) PROVE DriveMoves
  <2>1. driveOf[d] \in Runs /\ stage[d] \in Live /\ TRUE
    BY <1>20 DEF TimerFires
  <2>2. /\ stage' = [stage EXCEPT ![d] = IF stage[d] = "yielding" THEN "lost" ELSE "idle"]
        /\ asked' = [asked EXCEPT ![d] = "none"]
        /\ UNCHANGED <<driveOf, turn, todo, ran, replayed>>
    BY <1>20, <2>1, CloseEffect DEF TimerFires
  <2>3. Harmless(driveOf[d]) /\ status'[driveOf[d]] \notin ActiveStatus
        /\ (turn[d] = "load" => ~loading'[driveOf[d]])
    BY <1>20, <2>1, ClaudeFailEffect DEF TimerFires, DriveInv, BusyWithRun
  <2>. QED BY <2>1, <2>2, <2>3, <1>0, <1>s, RequestAssumption DEF Active, Harmless
<1>21. ASSUME NEW d \in Drives, Claims(d) PROVE DriveMoves
  <2>1. /\ driveOf[d] \in Runs /\ stage[d] \in {"yielding", "lost"}
        /\ UNCHANGED <<driveOf, todo, ran, replayed>>
    BY <1>21 DEF Claims
  <2>2. CASE DraftClaimable(driveOf[d])
    <3>1. /\ stage' = [stage EXCEPT ![d] = "starting"] /\ turn' = [turn EXCEPT ![d] = "draft"]
          /\ UNCHANGED asked /\ UNCHANGED <<latched, status, frozen, loading, approval, approvalRun>>
          /\ draft' = [draft EXCEPT ![driveOf[d]] = "claimed"] /\ UNCHANGED <<handoff, offer>>
      BY <1>21, <2>2 DEF Claims, ClaimDraft, approvalVars, handoffVars
    <3>. QED BY <2>1, <2>2, <3>1, <1>0, <1>s, RequestAssumption DEF DraftClaimable, Active
  <2>3. CASE ~DraftClaimable(driveOf[d])
    <3>1. /\ stage' = [stage EXCEPT ![d] = "idle"] /\ UNCHANGED <<turn, asked>> /\ UNCHANGED <<latched, status, frozen, loading, approval, approvalRun>>
      BY <1>21, <2>1, <2>3, ReturnEffect DEF Claims, vars, runVars, approvalVars
    <3>. QED BY <2>1, <2>3, <3>1, <1>0, <1>s, RequestAssumption DEF Active
  <2>. QED BY <2>2, <2>3
<1>22. ASSUME NEW d \in Drives, NativeInit(d) PROVE DriveMoves
  <2>1. /\ driveOf[d] \in Runs /\ stage[d] = "starting" /\ turn[d] # "load"
        /\ UNCHANGED <<driveOf, turn, todo, ran, replayed>>
    BY <1>22 DEF NativeInit
  <2>2. CASE turn[d] = "draft"
    <3>1. UNCHANGED <<latched, status, frozen, loading, approval, approvalRun, asked>>
          /\ stage' = [stage EXCEPT ![d] = "prompting"]
      BY <1>22, <2>2 DEF NativeInit, vars, runVars, approvalVars
    <3>. QED BY <2>1, <2>2, <3>1, <1>0, <1>s, RequestAssumption DEF Active
  <2>3. CASE turn[d] # "draft" /\ Active(driveOf[d])
    <3>1. /\ UNCHANGED <<latched, frozen, loading, approval, approvalRun, asked>>
          /\ status' = [status EXCEPT ![driveOf[d]] = "running"]
          /\ stage' = [stage EXCEPT ![d] = "prompting"]
      BY <1>22, <2>3 DEF NativeInit, MarkRunning, approvalVars
    <3>. QED BY <2>1, <2>3, <3>1, <1>0, <1>s, RequestAssumption DEF Active
  <2>4. CASE turn[d] # "draft" /\ ~Active(driveOf[d])
    <3>1. /\ stage' = [stage EXCEPT ![d] = "idle"]
          /\ asked' = [asked EXCEPT ![d] = "none"]
          /\ UNCHANGED <<latched, status, frozen, loading, approval, approvalRun>>
      BY <1>22, <2>1, <2>4, CloseEffect DEF NativeInit, vars, runVars, approvalVars
    <3>. QED BY <2>1, <2>4, <3>1, <1>0, <1>s, RequestAssumption DEF Active
  <2>. QED BY <2>2, <2>3, <2>4
<1>23. ASSUME NEW d \in Drives, AbortTool(d) \/ PermissionDenied(d) \/ \E n \in {"Bash",
    "AskUserQuestion"} : CanUseTool(d, n) PROVE DriveMoves
  BY <1>23, <1>0, <1>s, RequestAssumption DEF AbortTool, PermissionDenied, CanUseTool
<1>24. ASSUME NEW d \in Drives, PermissionTooMuch(d) PROVE DriveMoves
  <2>1. driveOf[d] \in Runs /\ stage[d] \in Live /\ stage[d] = "prompting" /\ turn[d] = "only"
    BY <1>24 DEF PermissionTooMuch, Grantable
  <2>2. /\ stage' = [stage EXCEPT ![d] = IF stage[d] = "yielding" THEN "lost" ELSE "idle"]
        /\ asked' = [asked EXCEPT ![d] = "none"]
        /\ UNCHANGED <<driveOf, turn, todo, ran, replayed>>
    BY <1>24, <2>1, CloseEffect DEF PermissionTooMuch
  <2>3. Harmless(driveOf[d]) /\ status'[driveOf[d]] \notin ActiveStatus
    BY <1>24, <2>1, FailIfActiveEffect DEF PermissionTooMuch
  <2>. QED BY <2>1, <2>2, <2>3, <1>0, <1>s, RequestAssumption DEF Harmless
<1>25. ASSUME NEW d \in Drives, NEW a \in Approvals, AskApproval(d, a) PROVE DriveMoves
  BY <1>25, <1>0, <1>s, RequestAssumption DEF AskApproval, RequestApproval, Received, Grantable
<1>26. ASSUME NEW d \in Drives, AskInput(d) PROVE DriveMoves
  BY <1>26, <1>0, <1>s, RequestAssumption DEF AskInput, AskQuestion, Received, Grantable
<1>27. ASSUME NEW d \in Drives, ProviderFails(d) PROVE DriveMoves
  <2>1. driveOf[d] \in Runs /\ stage[d] \in Live /\ TRUE
    BY <1>27 DEF ProviderFails
  <2>2. /\ stage' = [stage EXCEPT ![d] = IF stage[d] = "yielding" THEN "lost" ELSE "idle"]
        /\ asked' = [asked EXCEPT ![d] = "none"]
        /\ UNCHANGED <<driveOf, turn, todo, ran, replayed>>
    BY <1>27, <2>1, CloseEffect DEF ProviderFails
  <2>3. Harmless(driveOf[d]) /\ status'[driveOf[d]] \notin ActiveStatus
        /\ (turn[d] = "load" => ~loading'[driveOf[d]])
    BY <1>27, <2>1, ClaudeFailEffect DEF ProviderFails, DriveInv, BusyWithRun
  <2>. QED BY <2>1, <2>2, <2>3, <1>0, <1>s, RequestAssumption DEF Active, Harmless
<1>28. ASSUME NEW d \in Drives, HistoryLoaded(d) PROVE DriveMoves
  <2>1. driveOf[d] \in Runs /\ stage[d] \in Live /\ stage[d] = "starting" /\ turn[d] = "load"
    BY <1>28 DEF HistoryLoaded
  <2>2. /\ stage' = [stage EXCEPT ![d] = IF stage[d] = "yielding" THEN "lost" ELSE "idle"]
        /\ asked' = [asked EXCEPT ![d] = "none"]
        /\ UNCHANGED <<driveOf, turn, todo, ran, replayed>>
    BY <1>28, <2>1, CloseEffect DEF HistoryLoaded
  <2>3. Harmless(driveOf[d]) /\ ~loading'[driveOf[d]] /\ status' = status
    BY <1>28, <2>1, EndLoadEffect DEF HistoryLoaded
  <2>. QED BY <2>1, <2>2, <2>3, <1>0, <1>s, RequestAssumption DEF Harmless
<1>29. ASSUME NEW d \in Drives, Completes(d) PROVE DriveMoves
  <2>1. driveOf[d] \in Runs /\ stage[d] \in Live /\ stage[d] = "prompting" /\ turn[d] # "load"
    BY <1>29 DEF Completes
  <2>2. /\ stage' = [stage EXCEPT ![d] = IF stage[d] = "yielding" THEN "lost" ELSE "idle"]
        /\ asked' = [asked EXCEPT ![d] = "none"]
        /\ UNCHANGED <<driveOf, turn, todo, ran, replayed>>
    BY <1>29, <2>1, CloseEffect DEF Completes
  <2>3. /\ UNCHANGED <<latched, frozen, loading, approval, approvalRun>>
        /\ \/ ~Active(driveOf[d]) /\ UNCHANGED status
           \/ Active(driveOf[d]) /\ status' = [status EXCEPT ![driveOf[d]] = "succeeded"]
    BY <1>29, <2>1 DEF Completes, Complete, FinishRuns, vars, runVars, approvalVars
  <2>. QED BY <2>1, <2>2, <2>3, <1>0, <1>s, RequestAssumption
<1>30. ASSUME NEW d \in Drives, Accepts(d) PROVE DriveMoves
  <2>1. /\ driveOf[d] \in Runs /\ stage[d] = "prompting" /\ turn[d] = "decision"
        /\ stage' = [stage EXCEPT ![d] = "yielding"]
        /\ UNCHANGED <<driveOf, turn, asked, todo, ran, replayed>> /\ UNCHANGED <<latched, status, frozen, loading, approval, approvalRun>>
    BY <1>30 DEF Accepts, AcceptOffer, approvalVars
  <2>. QED BY <2>1, <1>0, <1>s, RequestAssumption
<1>31. ASSUME NEW d \in Drives, Declines(d) PROVE DriveMoves
  <2>1. driveOf[d] \in Runs /\ stage[d] \in Live /\ stage[d] = "prompting" /\ turn[d] = "decision"
    BY <1>31 DEF Declines
  <2>2. /\ stage' = [stage EXCEPT ![d] = IF stage[d] = "yielding" THEN "lost" ELSE "idle"]
        /\ asked' = [asked EXCEPT ![d] = "none"]
        /\ UNCHANGED <<driveOf, turn, todo, ran, replayed>>
    BY <1>31, <2>1, CloseEffect DEF Declines
  <2>3. Harmless(driveOf[d])
    BY <1>31, <2>1 DEF Declines, RejectOffer, DecideTooLate, CloseOfferOf, FinishRuns, Harmless, vars, runVars, approvalVars
  <2>. QED BY <2>1, <2>2, <2>3, <1>0, <1>s, RequestAssumption DEF Harmless
<1>32. ASSUME NEW r \in Runs, MaraStep(r) PROVE DriveMoves
  <2>1. /\ frozen[r].bot = "mara" /\ UNCHANGED driverVars
        /\ UNCHANGED <<latched, frozen, approval, approvalRun>>
        /\ \A q \in Runs :
             /\ status'[q] # status[q] => q = r /\ Active(r) /\ status'[q] \in {"running", "succeeded", "failed"}
             /\ loading'[q] => loading[q]
    BY <1>32 DEF MaraStep, MarkRunning, Complete, FailRun, EndLoad, FinishRuns, approvalVars
  <2>. QED BY <2>1, <1>0, <1>s, RequestAssumption DEF driverVars
<1>33. ASSUME SweepAndInterrupt PROVE DriveMoves
  <2>1. /\ stage' = [e \in Drives |-> IF driveOf[e] \in SweptRuns /\ stage[e] \in Live
                                     THEN IF stage[e] = "yielding" THEN "lost" ELSE "idle"
                                     ELSE stage[e]]
        /\ asked' = [e \in Drives |-> IF driveOf[e] \in SweptRuns /\ stage[e] \in Live THEN "none" ELSE asked[e]]
        /\ UNCHANGED <<driveOf, turn, ran, replayed>>
    BY <1>33 DEF SweepAndInterrupt, Interrupt, Hush
  <2>2. /\ status' = [r \in Runs |-> IF r \in SweptRuns THEN "failed" ELSE status[r]]
        /\ \A a \in Approvals : approval'[a] # approval[a] => approval'[a] = "expired"
        /\ UNCHANGED <<latched, frozen, loading, approvalRun, todo>>
    BY <1>33, SweepEffect DEF SweepAndInterrupt
  <2>. QED BY <2>1, <2>2, <1>0, <1>s, RequestAssumption DEF Active
<1>34. ASSUME Restart PROVE DriveMoves
  BY <1>34, <1>0, <1>s, RequestAssumption DEF Restart, InterruptActive, ActiveRuns, Hush
<1>35. ASSUME Time PROVE DriveMoves
  BY <1>35, <1>0, <1>s, RequestAssumption DEF Time, Tick, driverVars
<1>. QED BY <1>1, <1>2, <1>3, <1>4, <1>5, <1>6, <1>7, <1>8, <1>9, <1>10, <1>11, <1>12, <1>13,
    <1>14, <1>15, <1>16, <1>17, <1>18, <1>19, <1>20, <1>21, <1>22, <1>23, <1>24, <1>25, <1>26,
    <1>27, <1>28, <1>29, <1>30, <1>31, <1>32, <1>33, <1>34, <1>35 DEF DriverNext, Command,
    ApplyEffect, Proceed, Provider, Resolve

\* The moves keep the invariant of the drives: a session starts only while the run has
\* none, and what a draft rests on stands.
LEMMA DriveInvStep ==
  ASSUME StoreInv, RunMoves, RecordsStand, DriveInv, DriveType', DriveMoves
  PROVE  DriveInv'
<1> USE DEF DriveInv, MemoryType, DriveType, TurnsFit, Enters, Reads, Spawns, Reports, Yields, Redrafts,
            Loses, Ends, Live, Stage
<1>1. MemoryType'
  BY DEF DriveMoves
<1>s. \A r \in Runs : status[r] \in ActiveStatus <=> Active(r)
  BY ActiveIsServed DEF Active
<1>2. OneSession'
  <2> SUFFICES ASSUME NEW d \in Drives, NEW e \in Drives, stage'[d] \in Live, stage'[e] \in Live,
                      driveOf'[d] = driveOf'[e], d # e
               PROVE  FALSE
    BY DEF OneSession
  <2>1. ASSUME NEW x \in Drives, stage'[x] \in Live
        PROVE  (stage[x] \in Live \/ Spawns(x)) /\ driveOf'[x] = driveOf[x]
    BY <2>1, <1>s DEF DriveMoves
  <2>. QED BY <2>1 DEF OneSession, SessionOf
<1>3. BusyWithRun'
  <2> SUFFICES ASSUME NEW d \in Drives, stage'[d] # "idle"
               PROVE  /\ status'[driveOf'[d]] # "absent" /\ frozen'[driveOf'[d]].bot = "ivo"
                      /\ turn'[d] = "load" => status'[driveOf'[d]] \notin ActiveStatus
    BY DEF BusyWithRun, Ended
  <2>1. CASE Enters(d)
    BY <2>1
  <2>2. CASE ~Enters(d)
    <3>1. /\ driveOf'[d] = driveOf[d] /\ stage[d] # "idle" /\ driveOf[d] \in Runs
          /\ turn'[d] = "load" => turn[d] = "load"
      BY <2>2 DEF DriveMoves
    <3>. QED BY <3>1 DEF BusyWithRun, Ended, RunMoves, RecordsStand
  <2>. QED BY <2>1, <2>2
<1>4. TurnsFit'
  <2> SUFFICES ASSUME NEW d \in Drives
               PROVE  /\ stage'[d] \in {"yielding", "lost"} => turn'[d] = "decision"
                      /\ stage'[d] = "lost" => ~Active(driveOf[d])' /\ driveOf'[d] = driveOf[d]
                      /\ stage'[d] = "prompting" => turn'[d] # "load"
                      /\ stage'[d] \in {"checking", "spawning"} => turn'[d] # "draft"
    BY DEF DriveMoves
  <2>1. /\ stage'[d] \in {"yielding", "lost"} => turn'[d] = "decision"
        /\ stage'[d] = "prompting" => turn'[d] # "load"
        /\ stage'[d] \in {"checking", "spawning"} => turn'[d] # "draft"
    BY DEF DriveMoves
  <2>2. ASSUME stage'[d] = "lost" PROVE ~Active(driveOf[d])' /\ driveOf'[d] = driveOf[d]
    <3>1. driveOf'[d] = driveOf[d] /\ (Loses(d) \/ stage[d] = "lost")
      BY <2>2 DEF DriveMoves
    <3>2. ASSUME stage[d] = "lost" PROVE ~Active(driveOf[d])'
      <4>1. driveOf[d] \in Runs /\ status[driveOf[d]] # "absent" /\ ~Active(driveOf[d])
        BY <3>2 DEF BusyWithRun
      <4>2. status'[driveOf[d]] \notin ActiveStatus
        BY <4>1, <1>s DEF RunMoves, Ended
      <4>. QED BY <3>1, <4>2 DEF Active
    <3>. QED BY <3>1, <3>2
  <2>. QED BY <2>1, <2>2
<1>5. DraftClaimed'
  <2> SUFFICES ASSUME NEW d \in Drives, turn'[d] = "draft", stage'[d] \in Live
               PROVE  /\ draft'[driveOf'[d]] = "claimed"
                      /\ \E t \in Tasks : handoff'[t] = "accepted" /\ offer'[t].recipient = driveOf'[d]
    BY DEF DraftClaimed
  <2>1. driveOf'[d] = driveOf[d] /\ (Redrafts(d) \/ (turn[d] = "draft" /\ stage[d] \in Live))
    BY DEF DriveMoves
  <2>2. CASE turn[d] = "draft" /\ stage[d] \in Live
    BY <2>1, <2>2 DEF DraftClaimed, RecordsStand
  <2>. QED BY <2>1, <2>2
<1>. QED BY <1>1, <1>2, <1>3, <1>4, <1>5

-----------------------------------------------------------------------------
(* Who holds the requests that wait for the owner                          *)

Due(e, r) == [effect |-> e, run |-> r] \in todo

\* The session of an active run holds its pending approval, or the input it waits for.
PendingHasAsker ==
  \A a \in Approvals : approval[a] = "pending" /\ status[approvalRun[a]] \in ActiveStatus =>
    \E d \in SessionOf(approvalRun[a]) : asked[d] = a

InputHasAsker ==
  \A r \in Runs : status[r] = "waiting_input" => \E d \in SessionOf(r) : asked[d] = "input"

\* The answer to an approval will meet the approval that was allowed, and it alone.
DispatchMeetsAllowed ==
  \A r \in Runs : Due("dispatch_tool", r) =>
    /\ status[r] \in ActiveStatus => \E d \in SessionOf(r) : asked[d] \in Approvals
    /\ \A d \in SessionOf(r) : asked[d] \in Approvals => approval[asked[d]] = "allowed"

\* The owner's input will meet the request for it.
ResumeMeetsInput ==
  \A r \in Runs : Due("resume_input", r) /\ status[r] \in ActiveStatus =>
    /\ status[r] # "waiting_input"
    /\ \E d \in SessionOf(r) : asked[d] = "input"

RequestInv ==
  PendingHasAsker /\ InputHasAsker /\ DispatchMeetsAllowed /\ ResumeMeetsInput

\* Steps that make, answer or decide no request
Quiet ==
  /\ \A a \in Approvals : approval'[a] = "pending" =>
       approval[a] = "pending" /\ approvalRun'[a] = approvalRun[a]
  /\ \A r \in Runs : status'[r] = "waiting_input" => status[r] = "waiting_input"
  /\ \A e \in todo' : e \in todo \/ e.effect = "interrupt_provider"
  /\ \A d \in Drives : stage'[d] \in Live => asked'[d] = asked[d]

Asks ==
  \/ \E a \in Approvals : Resolve(a)
  \/ \E r \in Runs : Answer(r) \/ DispatchTool(r) \/ ResumeInput(r)
  \/ \E d \in Drives : AskInput(d) \/ \E a \in Approvals : AskApproval(d, a)

\* All others are quiet.
LEMMA QuietStep ==
  ASSUME StoreInv, DriveInv, EndsAreDue, DriverNext
  PROVE  Quiet \/ Asks
<1>0. MemoryType /\ OneSession
  BY DEF DriveInv
<1> USE DEF DriveInv, MemoryType, DriveType, TurnsFit, StoreInv, TypeOK, Live, Stage, Quiet, Asks,
            approvalVars, runVars, taskVars, handoffVars, vars
<1>1. ASSUME NEW r \in Runs, NEW t \in Tasks, NEW b \in Bots, NEW d \in Drives, Submit(r, t, b,
    d) PROVE Quiet \/ Asks
  BY <1>1, <1>0 DEF Submit, SubmitTask, Begin
<1>2. ASSUME NEW s \in Runs, NEW t \in Tasks, NEW r \in Runs, NEW d \in Drives, Propose(s, t, r,
    d) PROVE Quiet \/ Asks
  BY <1>2, <1>0 DEF Propose, ProposeHandoff, Begin
<1>3. ASSUME NEW r \in Runs, NEW d \in Drives, Replay(r, d) PROVE Quiet \/ Asks
  BY <1>3, <1>0 DEF Replay, Begin
<1>4. ASSUME NEW r \in Runs, NEW d \in Drives, Load(r, d) PROVE Quiet \/ Asks
  BY <1>4, <1>0 DEF Load, LoadSession, Begin
<1>5. ASSUME NEW a \in Approvals, AllowApproval(a), Resolve(a) PROVE Quiet \/ Asks
  BY <1>5 DEF Resolve
<1>6. ASSUME NEW a \in Approvals, DenyApproval(a) \/ ResolveTooLate(a), Resolve(a) PROVE Quiet
    \/ Asks
  BY <1>6 DEF Resolve
<1>7. ASSUME NEW r \in Runs, Answer(r) PROVE Quiet \/ Asks
  BY <1>7
<1>8. ASSUME NEW r \in Runs, Cancel(r) PROVE Quiet \/ Asks
  BY <1>8, <1>0 DEF Cancel, CancelRun, CancelApprovals, FinishRuns, Later
<1>9. ASSUME Stop PROVE Quiet \/ Asks
  BY <1>9, <1>0 DEF Stop, StopAll, CancelApprovals, FinishRuns, ActiveRuns, Later
<1>10. ASSUME NEW r \in Runs, DispatchTool(r) PROVE Quiet \/ Asks
  BY <1>10
<1>11. ASSUME NEW r \in Runs, RejectTool(r) PROVE Quiet \/ Asks
  <2>1. /\ stage' = [e \in Drives |-> IF driveOf[e] = r /\ stage[e] \in Live
                                     THEN IF stage[e] = "yielding" THEN "lost" ELSE "idle"
                                     ELSE stage[e]]
        /\ asked' = [e \in Drives |-> IF driveOf[e] = r /\ stage[e] \in Live THEN "none" ELSE asked[e]]
        /\ UNCHANGED <<driveOf, turn, ran, replayed>>
    BY <1>11 DEF RejectTool, Interrupt, Hush
  <2>2. /\ UNCHANGED <<latched, status, frozen, loading, approval, approvalRun>>
        /\ [effect |-> "reject_tool", run |-> r] \in todo
        /\ todo' = todo \ {[effect |-> "reject_tool", run |-> r]}
    BY <1>11 DEF RejectTool, Applied, vars, runVars, approvalVars
  <2>. QED BY <2>1, <2>2, <1>0
<1>12. ASSUME NEW r \in Runs, ResumeInput(r) PROVE Quiet \/ Asks
  BY <1>12
<1>13. ASSUME NEW r \in Runs, InterruptProvider(r) PROVE Quiet \/ Asks
  <2>1. /\ stage' = [e \in Drives |-> IF driveOf[e] = r /\ stage[e] \in Live
                                     THEN IF stage[e] = "yielding" THEN "lost" ELSE "idle"
                                     ELSE stage[e]]
        /\ asked' = [e \in Drives |-> IF driveOf[e] = r /\ stage[e] \in Live THEN "none" ELSE asked[e]]
        /\ UNCHANGED <<driveOf, turn, ran, replayed>>
    BY <1>13 DEF InterruptProvider, Interrupt, Hush
  <2>2. /\ UNCHANGED <<latched, status, frozen, loading, approval, approvalRun>>
        /\ [effect |-> "interrupt_provider", run |-> r] \in todo
        /\ todo' = todo \ {[effect |-> "interrupt_provider", run |-> r]}
    BY <1>13 DEF InterruptProvider, Applied, vars, runVars, approvalVars
  <2>. QED BY <2>1, <2>2, <1>0
<1>14. ASSUME InterruptAll PROVE Quiet \/ Asks
  <2>1. /\ stage' = [e \in Drives |-> IF driveOf[e] \in Runs /\ stage[e] \in Live
                                     THEN IF stage[e] = "yielding" THEN "lost" ELSE "idle"
                                     ELSE stage[e]]
        /\ asked' = [e \in Drives |-> IF driveOf[e] \in Runs /\ stage[e] \in Live THEN "none" ELSE asked[e]]
        /\ UNCHANGED <<driveOf, turn, ran, replayed>>
    BY <1>14 DEF InterruptAll, Interrupt, Hush
  <2>2. /\ UNCHANGED <<latched, status, frozen, loading, approval, approvalRun>>
        /\ [effect |-> "interrupt_provider", run |-> NoRun] \in todo
        /\ todo' = todo \ {[effect |-> "interrupt_provider", run |-> NoRun]}
    BY <1>14 DEF InterruptAll, Applied, vars, runVars, approvalVars
  <2>. QED BY <2>1, <2>2, <1>0
<1>15. ASSUME NEW d \in Drives, BriefFails(d) PROVE Quiet \/ Asks
  <2>1. driveOf[d] \in Runs /\ stage[d] = "checking"
    BY <1>15 DEF BriefFails
  <2>2. /\ stage' = [stage EXCEPT ![d] = "idle"] /\ asked' = asked
        /\ UNCHANGED <<driveOf, turn, todo, ran, replayed>>
    BY <1>15, <2>1, ReturnEffect DEF BriefFails
  <2>3. Harmless(driveOf[d]) /\ status'[driveOf[d]] \notin ActiveStatus
        /\ (Ended(driveOf[d]) => ~loading'[driveOf[d]])
    BY <1>15, <2>1, EngineFailEffect DEF BriefFails
  <2>. QED BY <2>1, <2>2, <2>3, <1>0 DEF Harmless
<1>16. ASSUME NEW d \in Drives, ReadSnapshot(d) PROVE Quiet \/ Asks
  BY <1>16, <1>0 DEF ReadSnapshot
<1>17. ASSUME NEW d \in Drives, LoadRefused(d) PROVE Quiet \/ Asks
  <2>1. driveOf[d] \in Runs /\ stage[d] = "spawning" /\ turn[d] = "load"
    BY <1>17 DEF LoadRefused
  <2>2. /\ stage' = [stage EXCEPT ![d] = "idle"] /\ asked' = asked
        /\ UNCHANGED <<driveOf, turn, todo, ran, replayed>>
    BY <1>17, <2>1, ReturnEffect DEF LoadRefused
  <2>3. UNCHANGED vars /\ ~(loading[driveOf[d]] /\ ~latched)
    BY <1>17, <2>1 DEF LoadRefused
  <2>. QED BY <2>1, <2>2, <2>3, <1>0
<1>18. ASSUME NEW d \in Drives, Spawn(d) PROVE Quiet \/ Asks
  <2>1. /\ driveOf[d] \in Runs /\ stage[d] = "spawning" /\ SessionOf(driveOf[d]) = {}
        /\ UNCHANGED <<driveOf, turn, todo, ran, replayed>>
    BY <1>18 DEF Spawn
  <2>2. CASE stage' = [stage EXCEPT ![d] = "starting"]
    <3>1. asked' = asked /\ UNCHANGED <<latched, status, frozen, loading, approval, approvalRun>>
      BY <1>18, <2>1, <2>2 DEF Spawn, BumpAction, Interrupt, vars, runVars, approvalVars
    <3>2. stage'[d] = "starting" /\ \A e \in Drives : e # d => stage'[e] = stage[e]
      BY <2>2
    <3>3. asked[d] = "none" /\ \A e \in Drives : asked[e] # "none" => stage'[e] = "prompting"
      BY <2>1, <3>2, <1>0 DEF Harmless
    <3>. QED BY <2>1, <2>2, <3>1, <3>2, <3>3, <1>0 DEF Harmless
  <2>3. CASE Interrupt({}, {d}) /\ FailIfActive(driveOf[d]) /\ turn[d] = "decision"
    <3>1. stage' = [stage EXCEPT ![d] = "idle"] /\ asked' = asked
      BY <2>1, <2>3, ReturnEffect
    <3>2. Harmless(driveOf[d])
      BY <2>1, <2>3, FailIfActiveEffect
    <3>. QED BY <2>1, <2>3, <3>1, <3>2, <1>0 DEF Harmless
  <2>. QED BY <1>18, <2>2, <2>3 DEF Spawn
<1>19. ASSUME NEW d \in Drives, SpawnFails(d) PROVE Quiet \/ Asks
  <2>1. driveOf[d] \in Runs /\ stage[d] = "spawning"
    BY <1>19 DEF SpawnFails
  <2>2. /\ stage' = [e \in Drives |-> IF e = d THEN "idle"
                                     ELSE IF driveOf[e] = driveOf[d] /\ stage[e] \in Live
                                     THEN IF stage[e] = "yielding" THEN "lost" ELSE "idle"
                                     ELSE stage[e]]
        /\ asked' = [e \in Drives |-> IF driveOf[e] = driveOf[d] /\ stage[e] \in Live THEN "none"
                                     ELSE asked[e]]
        /\ UNCHANGED <<driveOf, turn, todo, ran, replayed>>
    BY <1>19 DEF SpawnFails, Interrupt, Hush
  <2>3. Harmless(driveOf[d]) /\ status'[driveOf[d]] \notin ActiveStatus
        /\ (Ended(driveOf[d]) => ~loading'[driveOf[d]])
    BY <1>19, <2>1, EngineFailEffect, EndLoadEffect DEF SpawnFails, BusyWithRun, Ended
  <2>. QED BY <2>1, <2>2, <2>3, <1>0 DEF Harmless
<1>20. ASSUME NEW d \in Drives, TimerFires(d) PROVE Quiet \/ Asks
  <2>1. driveOf[d] \in Runs /\ stage[d] \in Live /\ TRUE
    BY <1>20 DEF TimerFires
  <2>2. /\ stage' = [stage EXCEPT ![d] = IF stage[d] = "yielding" THEN "lost" ELSE "idle"]
        /\ asked' = [asked EXCEPT ![d] = "none"]
        /\ UNCHANGED <<driveOf, turn, todo, ran, replayed>>
    BY <1>20, <2>1, CloseEffect DEF TimerFires
  <2>3. Harmless(driveOf[d]) /\ status'[driveOf[d]] \notin ActiveStatus
        /\ (turn[d] = "load" => ~loading'[driveOf[d]])
    BY <1>20, <2>1, ClaudeFailEffect DEF TimerFires, DriveInv, BusyWithRun
  <2>. QED BY <2>1, <2>2, <2>3, <1>0 DEF Harmless
<1>21. ASSUME NEW d \in Drives, Claims(d) PROVE Quiet \/ Asks
  <2>1. /\ driveOf[d] \in Runs /\ stage[d] \in {"yielding", "lost"}
        /\ UNCHANGED <<driveOf, todo, ran, replayed>>
    BY <1>21 DEF Claims
  <2>2. CASE DraftClaimable(driveOf[d])
    <3>1. /\ stage' = [stage EXCEPT ![d] = "starting"] /\ turn' = [turn EXCEPT ![d] = "draft"]
          /\ UNCHANGED asked /\ UNCHANGED <<latched, status, frozen, loading, approval, approvalRun>>
          /\ draft' = [draft EXCEPT ![driveOf[d]] = "claimed"] /\ UNCHANGED <<handoff, offer>>
      BY <1>21, <2>2 DEF Claims, ClaimDraft, approvalVars, handoffVars
    <3>. QED BY <2>1, <2>2, <3>1, <1>0 DEF DraftClaimable
  <2>3. CASE ~DraftClaimable(driveOf[d])
    <3>1. /\ stage' = [stage EXCEPT ![d] = "idle"] /\ UNCHANGED <<turn, asked>> /\ UNCHANGED <<latched, status, frozen, loading, approval, approvalRun>>
      BY <1>21, <2>1, <2>3, ReturnEffect DEF Claims, vars, runVars, approvalVars
    <3>. QED BY <2>1, <2>3, <3>1, <1>0
  <2>. QED BY <2>2, <2>3
<1>22. ASSUME NEW d \in Drives, NativeInit(d) PROVE Quiet \/ Asks
  <2>1. /\ driveOf[d] \in Runs /\ stage[d] = "starting" /\ turn[d] # "load"
        /\ UNCHANGED <<driveOf, turn, todo, ran, replayed>>
    BY <1>22 DEF NativeInit
  <2>2. CASE turn[d] = "draft"
    <3>1. UNCHANGED <<latched, status, frozen, loading, approval, approvalRun, asked>>
          /\ stage' = [stage EXCEPT ![d] = "prompting"]
      BY <1>22, <2>2 DEF NativeInit, vars, runVars, approvalVars
    <3>. QED BY <2>1, <2>2, <3>1, <1>0
  <2>3. CASE turn[d] # "draft" /\ Active(driveOf[d])
    <3>1. /\ UNCHANGED <<latched, frozen, loading, approval, approvalRun, asked>>
          /\ status' = [status EXCEPT ![driveOf[d]] = "running"]
          /\ stage' = [stage EXCEPT ![d] = "prompting"]
      BY <1>22, <2>3 DEF NativeInit, MarkRunning, approvalVars
    <3>. QED BY <2>1, <2>3, <3>1, <1>0
  <2>4. CASE turn[d] # "draft" /\ ~Active(driveOf[d])
    <3>1. /\ stage' = [stage EXCEPT ![d] = "idle"]
          /\ asked' = [asked EXCEPT ![d] = "none"]
          /\ UNCHANGED <<latched, status, frozen, loading, approval, approvalRun>>
      BY <1>22, <2>1, <2>4, CloseEffect DEF NativeInit, vars, runVars, approvalVars
    <3>. QED BY <2>1, <2>4, <3>1, <1>0
  <2>. QED BY <2>2, <2>3, <2>4
<1>23. ASSUME NEW d \in Drives, AbortTool(d) \/ PermissionDenied(d) \/ \E n \in {"Bash",
    "AskUserQuestion"} : CanUseTool(d, n) PROVE Quiet \/ Asks
  BY <1>23, <1>0 DEF AbortTool, PermissionDenied, CanUseTool
<1>24. ASSUME NEW d \in Drives, PermissionTooMuch(d) PROVE Quiet \/ Asks
  <2>1. driveOf[d] \in Runs /\ stage[d] \in Live /\ stage[d] = "prompting" /\ turn[d] = "only"
    BY <1>24 DEF PermissionTooMuch, Grantable
  <2>2. /\ stage' = [stage EXCEPT ![d] = IF stage[d] = "yielding" THEN "lost" ELSE "idle"]
        /\ asked' = [asked EXCEPT ![d] = "none"]
        /\ UNCHANGED <<driveOf, turn, todo, ran, replayed>>
    BY <1>24, <2>1, CloseEffect DEF PermissionTooMuch
  <2>3. Harmless(driveOf[d]) /\ status'[driveOf[d]] \notin ActiveStatus
    BY <1>24, <2>1, FailIfActiveEffect DEF PermissionTooMuch
  <2>. QED BY <2>1, <2>2, <2>3, <1>0 DEF Harmless
<1>25. ASSUME NEW d \in Drives, NEW a \in Approvals, AskApproval(d, a) PROVE Quiet \/ Asks
  BY <1>25
<1>26. ASSUME NEW d \in Drives, AskInput(d) PROVE Quiet \/ Asks
  BY <1>26
<1>27. ASSUME NEW d \in Drives, ProviderFails(d) PROVE Quiet \/ Asks
  <2>1. driveOf[d] \in Runs /\ stage[d] \in Live /\ TRUE
    BY <1>27 DEF ProviderFails
  <2>2. /\ stage' = [stage EXCEPT ![d] = IF stage[d] = "yielding" THEN "lost" ELSE "idle"]
        /\ asked' = [asked EXCEPT ![d] = "none"]
        /\ UNCHANGED <<driveOf, turn, todo, ran, replayed>>
    BY <1>27, <2>1, CloseEffect DEF ProviderFails
  <2>3. Harmless(driveOf[d]) /\ status'[driveOf[d]] \notin ActiveStatus
        /\ (turn[d] = "load" => ~loading'[driveOf[d]])
    BY <1>27, <2>1, ClaudeFailEffect DEF ProviderFails, DriveInv, BusyWithRun
  <2>. QED BY <2>1, <2>2, <2>3, <1>0 DEF Harmless
<1>28. ASSUME NEW d \in Drives, HistoryLoaded(d) PROVE Quiet \/ Asks
  <2>1. driveOf[d] \in Runs /\ stage[d] \in Live /\ stage[d] = "starting" /\ turn[d] = "load"
    BY <1>28 DEF HistoryLoaded
  <2>2. /\ stage' = [stage EXCEPT ![d] = IF stage[d] = "yielding" THEN "lost" ELSE "idle"]
        /\ asked' = [asked EXCEPT ![d] = "none"]
        /\ UNCHANGED <<driveOf, turn, todo, ran, replayed>>
    BY <1>28, <2>1, CloseEffect DEF HistoryLoaded
  <2>3. Harmless(driveOf[d]) /\ ~loading'[driveOf[d]] /\ status' = status
    BY <1>28, <2>1, EndLoadEffect DEF HistoryLoaded
  <2>. QED BY <2>1, <2>2, <2>3, <1>0 DEF Harmless
<1>29. ASSUME NEW d \in Drives, Completes(d) PROVE Quiet \/ Asks
  <2>1. driveOf[d] \in Runs /\ stage[d] \in Live /\ stage[d] = "prompting" /\ turn[d] # "load"
    BY <1>29 DEF Completes
  <2>2. /\ stage' = [stage EXCEPT ![d] = IF stage[d] = "yielding" THEN "lost" ELSE "idle"]
        /\ asked' = [asked EXCEPT ![d] = "none"]
        /\ UNCHANGED <<driveOf, turn, todo, ran, replayed>>
    BY <1>29, <2>1, CloseEffect DEF Completes
  <2>3. /\ UNCHANGED <<latched, frozen, loading, approval, approvalRun>>
        /\ \/ ~Active(driveOf[d]) /\ UNCHANGED status
           \/ Active(driveOf[d]) /\ status' = [status EXCEPT ![driveOf[d]] = "succeeded"]
    BY <1>29, <2>1 DEF Completes, Complete, FinishRuns, vars, runVars, approvalVars
  <2>. QED BY <2>1, <2>2, <2>3, <1>0
<1>30. ASSUME NEW d \in Drives, Accepts(d) PROVE Quiet \/ Asks
  <2>1. /\ driveOf[d] \in Runs /\ stage[d] = "prompting" /\ turn[d] = "decision"
        /\ stage' = [stage EXCEPT ![d] = "yielding"]
        /\ UNCHANGED <<driveOf, turn, asked, todo, ran, replayed>> /\ UNCHANGED <<latched, status, frozen, loading, approval, approvalRun>>
    BY <1>30 DEF Accepts, AcceptOffer, approvalVars
  <2>. QED BY <2>1, <1>0
<1>31. ASSUME NEW d \in Drives, Declines(d) PROVE Quiet \/ Asks
  <2>1. driveOf[d] \in Runs /\ stage[d] \in Live /\ stage[d] = "prompting" /\ turn[d] = "decision"
    BY <1>31 DEF Declines
  <2>2. /\ stage' = [stage EXCEPT ![d] = IF stage[d] = "yielding" THEN "lost" ELSE "idle"]
        /\ asked' = [asked EXCEPT ![d] = "none"]
        /\ UNCHANGED <<driveOf, turn, todo, ran, replayed>>
    BY <1>31, <2>1, CloseEffect DEF Declines
  <2>3. Harmless(driveOf[d])
    BY <1>31, <2>1 DEF Declines, RejectOffer, DecideTooLate, CloseOfferOf, FinishRuns, Harmless, vars, runVars, approvalVars
  <2>. QED BY <2>1, <2>2, <2>3, <1>0 DEF Harmless
<1>32. ASSUME NEW r \in Runs, MaraStep(r) PROVE Quiet \/ Asks
  <2>1. /\ frozen[r].bot = "mara" /\ UNCHANGED driverVars
        /\ UNCHANGED <<latched, frozen, approval, approvalRun>>
        /\ \A q \in Runs :
             /\ status'[q] # status[q] => q = r /\ Active(r) /\ status'[q] \in {"running", "succeeded", "failed"}
             /\ loading'[q] => loading[q]
    BY <1>32 DEF MaraStep, MarkRunning, Complete, FailRun, EndLoad, FinishRuns, approvalVars
  <2>. QED BY <2>1, <1>0 DEF driverVars
<1>33. ASSUME SweepAndInterrupt PROVE Quiet \/ Asks
  <2>1. /\ stage' = [e \in Drives |-> IF driveOf[e] \in SweptRuns /\ stage[e] \in Live
                                     THEN IF stage[e] = "yielding" THEN "lost" ELSE "idle"
                                     ELSE stage[e]]
        /\ asked' = [e \in Drives |-> IF driveOf[e] \in SweptRuns /\ stage[e] \in Live THEN "none" ELSE asked[e]]
        /\ UNCHANGED <<driveOf, turn, ran, replayed>>
    BY <1>33 DEF SweepAndInterrupt, Interrupt, Hush
  <2>2. /\ status' = [r \in Runs |-> IF r \in SweptRuns THEN "failed" ELSE status[r]]
        /\ \A a \in Approvals : approval'[a] # approval[a] => approval'[a] = "expired"
        /\ UNCHANGED <<latched, frozen, loading, approvalRun, todo>>
    BY <1>33, SweepEffect DEF SweepAndInterrupt
  <2>. QED BY <2>1, <2>2, <1>0
<1>34. ASSUME Restart PROVE Quiet \/ Asks
  BY <1>34, <1>0 DEF Restart, InterruptActive, ActiveRuns, Hush
<1>35. ASSUME Time PROVE Quiet \/ Asks
  BY <1>35, <1>0 DEF Time, Tick, driverVars
<1>. QED BY <1>1, <1>2, <1>3, <1>4, <1>5, <1>6, <1>7, <1>8, <1>9, <1>10, <1>11, <1>12, <1>13,
    <1>14, <1>15, <1>16, <1>17, <1>18, <1>19, <1>20, <1>21, <1>22, <1>23, <1>24, <1>25, <1>26,
    <1>27, <1>28, <1>29, <1>30, <1>31, <1>32, <1>33, <1>34, <1>35 DEF DriverNext, Command,
    ApplyEffect, Proceed, Provider, Resolve

\* A quiet step keeps every request with its holder until the run ends.
LEMMA QuietRequests ==
  ASSUME StoreInv, StoreInv', RunMoves, DecisionStands, DriveInv, DriveInv', DriveMoves,
         EndsAreDue, EndsAreDue', RequestInv, Quiet
  PROVE  RequestInv'
<1>1. ASSUME NEW d \in Drives, asked[d] # "none", status'[driveOf[d]] \in ActiveStatus
      PROVE  /\ stage'[d] \in Live /\ driveOf'[d] = driveOf[d] /\ asked'[d] = asked[d]
  <2>1. stage[d] = "prompting" /\ stage'[d] = "prompting"
    BY <1>1 DEF DriveMoves, DriveInv, TurnsFit
  <2>. QED BY <2>1 DEF DriveMoves, Enters, Quiet, Live
<1>2. ASSUME NEW d \in Drives, stage'[d] \in Live
      PROVE  /\ driveOf'[d] = driveOf[d] /\ asked'[d] = asked[d]
             /\ asked[d] # "none" => stage[d] \in Live
  BY <1>2 DEF DriveMoves, Enters, Quiet, DriveInv, TurnsFit, Live
<1>3. ASSUME NEW r \in Runs, status'[r] \in ActiveStatus
      PROVE  status[r] \in ActiveStatus \cup {"absent"}
  BY <1>3 DEF RunMoves, Ended
<1>4. ASSUME NEW r \in Runs, NEW e \in {"dispatch_tool", "resume_input"}, Due(e, r)'
      PROVE  Due(e, r)
  BY <1>4 DEF Due, Quiet
<1>5. PendingHasAsker'
  <2> SUFFICES ASSUME NEW a \in Approvals, approval'[a] = "pending",
                      status'[approvalRun'[a]] \in ActiveStatus
               PROVE  \E d \in SessionOf(approvalRun[a])' : asked'[d] = a
    BY DEF PendingHasAsker, Quiet
  <2>1. approval[a] = "pending" /\ approvalRun'[a] = approvalRun[a] /\ approvalRun[a] \in Runs
        /\ status[approvalRun[a]] # "absent"
    BY DEF Quiet, StoreInv, References, ApprovalsWellFormed
  <2>2. PICK d \in SessionOf(approvalRun[a]) : asked[d] = a
    BY <2>1, <1>3 DEF RequestInv, PendingHasAsker
  <2>. QED BY <2>1, <2>2, <1>1, RequestAssumption DEF SessionOf
<1>6. InputHasAsker'
  <2> SUFFICES ASSUME NEW r \in Runs, status'[r] = "waiting_input"
               PROVE  \E d \in SessionOf(r)' : asked'[d] = "input"
    BY DEF InputHasAsker
  <2>1. PICK d \in SessionOf(r) : asked[d] = "input"
    BY DEF Quiet, RequestInv, InputHasAsker
  <2>. QED BY <2>1, <1>1 DEF SessionOf, ActiveStatus
<1>7. DispatchMeetsAllowed'
  <2> SUFFICES ASSUME NEW r \in Runs, Due("dispatch_tool", r)'
               PROVE  /\ status'[r] \in ActiveStatus => \E d \in SessionOf(r)' : asked'[d] \in Approvals
                      /\ \A d \in SessionOf(r)' : asked'[d] \in Approvals => approval'[asked'[d]] = "allowed"
    BY DEF DispatchMeetsAllowed
  <2>1. Due("dispatch_tool", r)
    BY <1>4
  <2>2. ASSUME status'[r] \in ActiveStatus PROVE \E d \in SessionOf(r)' : asked'[d] \in Approvals
    <3>1. status[r] \in ActiveStatus
      BY <2>1, <2>2, <1>3, IdentityAssumption DEF EndsAreDue, Due
    <3>2. PICK d \in SessionOf(r) : asked[d] \in Approvals
      BY <2>1, <3>1 DEF RequestInv, DispatchMeetsAllowed
    <3>. QED BY <3>2, <2>2, <1>1, RequestAssumption DEF SessionOf
  <2>3. ASSUME NEW d \in SessionOf(r)', asked'[d] \in Approvals PROVE approval'[asked'[d]] = "allowed"
    <3>1. d \in SessionOf(r) /\ asked'[d] = asked[d]
      BY <2>3, <1>2, RequestAssumption DEF SessionOf
    <3>2. approval[asked[d]] = "allowed"
      BY <2>1, <2>3, <3>1 DEF RequestInv, DispatchMeetsAllowed
    <3>. QED BY <2>3, <3>1, <3>2 DEF DecisionStands
  <2>. QED BY <2>2, <2>3
<1>8. ResumeMeetsInput'
  <2> SUFFICES ASSUME NEW r \in Runs, Due("resume_input", r)', status'[r] \in ActiveStatus
               PROVE  status'[r] # "waiting_input" /\ \E d \in SessionOf(r)' : asked'[d] = "input"
    BY DEF ResumeMeetsInput
  <2>1. Due("resume_input", r)
    BY <1>4
  <2>2. status[r] \in ActiveStatus
    BY <2>1, <1>3, IdentityAssumption DEF EndsAreDue, Due
  <2>3. PICK d \in SessionOf(r) : asked[d] = "input"
    BY <2>1, <2>2 DEF RequestInv, ResumeMeetsInput
  <2>4. status'[r] # "waiting_input"
    BY <2>1, <2>2 DEF RequestInv, ResumeMeetsInput, Quiet
  <2>. QED BY <2>3, <2>4, <1>1 DEF SessionOf
<1>. QED BY <1>5, <1>6, <1>7, <1>8 DEF RequestInv

\* So do the steps that make, decide and answer requests.
LEMMA AnsweredRequests ==
  ASSUME StoreInv, StoreInv', DecisionStands, DriveInv, DriveInv', EndsAreDue, RequestInv, Asks
  PROVE  RequestInv'
<1>1. /\ UNCHANGED <<stage, driveOf, turn>>
      /\ \A r : SessionOf(r)' = SessionOf(r)
  <2>1. UNCHANGED <<stage, driveOf, turn>>
    BY DEF Asks, Resolve, Answer, DispatchTool, ResumeInput, AskInput, AskApproval
  <2>. QED BY <2>1 DEF SessionOf
<1>2. \A r : \A d, e \in SessionOf(r) : d = e
  BY DEF DriveInv, OneSession, SessionOf
<1>3. \A a \in Approvals : approval[a] # "absent" => approvalRun[a] \in Runs
  BY DEF StoreInv, References, ApprovalsWellFormed
<1>4. /\ asked \in [Drives -> Approvals \cup {"none", "input"}]
      /\ status \in [Runs -> RunStatus] /\ approval \in [Approvals -> ApprovalState]
      /\ \A r : SessionOf(r) \subseteq Drives
  BY DEF DriveInv, MemoryType, StoreInv, TypeOK, SessionOf
<1> USE DEF Due, ActiveStatus, Effect
<1>5. ASSUME NEW a \in Approvals, AllowApproval(a), Resolve(a) PROVE RequestInv'
  <2>1. /\ approval[a] = "pending" /\ status[approvalRun[a]] = "waiting_approval"
        /\ approval' = [approval EXCEPT ![a] = "allowed"]
        /\ status' = [status EXCEPT ![approvalRun[a]] = "running"]
        /\ todo' = todo \cup {[effect |-> "dispatch_tool", run |-> approvalRun[a]]}
        /\ UNCHANGED <<approvalRun, asked>>
    BY <1>4, <1>5 DEF AllowApproval, Resolvable, Resolve, Later, DenyApproval, ResolveTooLate, Expired
  <2>2. PICK d \in SessionOf(approvalRun[a]) : asked[d] = a
    BY <2>1 DEF RequestInv, PendingHasAsker
  <2>3. PendingHasAsker'
    BY <1>1, <1>2, <1>3, <1>4, IdentityAssumption, RequestAssumption, <2>1, <2>2
    DEF RequestInv, PendingHasAsker, InputHasAsker, DispatchMeetsAllowed, ResumeMeetsInput, EndsAreDue, Down
  <2>4. InputHasAsker'
    BY <1>1, <1>2, <1>3, <1>4, IdentityAssumption, RequestAssumption, <2>1, <2>2
    DEF RequestInv, PendingHasAsker, InputHasAsker, DispatchMeetsAllowed, ResumeMeetsInput, EndsAreDue, Down
  <2>5. DispatchMeetsAllowed'
    BY <1>1, <1>2, <1>3, <1>4, IdentityAssumption, RequestAssumption, <2>1, <2>2
    DEF RequestInv, PendingHasAsker, InputHasAsker, DispatchMeetsAllowed, ResumeMeetsInput, EndsAreDue, Down
  <2>6. ResumeMeetsInput'
    BY <1>1, <1>2, <1>3, <1>4, IdentityAssumption, RequestAssumption, <2>1, <2>2
    DEF RequestInv, PendingHasAsker, InputHasAsker, DispatchMeetsAllowed, ResumeMeetsInput, EndsAreDue, Down
  <2>. QED BY <2>3, <2>4, <2>5, <2>6 DEF RequestInv
<1>6. ASSUME NEW a \in Approvals, DenyApproval(a) \/ ResolveTooLate(a), Resolve(a) PROVE RequestInv'
  <2>1. /\ approval[a] = "pending" /\ status[approvalRun[a]] = "waiting_approval"
        /\ approval'[a] # "pending"
        /\ \A b \in Approvals : b # a => approval'[b] = approval[b]
        /\ status' = [status EXCEPT ![approvalRun[a]] = "failed"]
        /\ \E e \in {"reject_tool", "interrupt_provider"} :
             todo' = todo \cup {[effect |-> e, run |-> approvalRun[a]]}
        /\ UNCHANGED <<approvalRun, asked>>
    BY <1>4, <1>6 DEF AllowApproval, Resolvable, Resolve, Later, DenyApproval, ResolveTooLate, Expired,
       FinishRuns, ExpireApprovals
  <2>2. PICK d \in SessionOf(approvalRun[a]) : asked[d] = a
    BY <2>1 DEF RequestInv, PendingHasAsker
  <2>3. PendingHasAsker'
    BY <1>1, <1>2, <1>3, <1>4, IdentityAssumption, RequestAssumption, <2>1, <2>2
    DEF RequestInv, PendingHasAsker, InputHasAsker, DispatchMeetsAllowed, ResumeMeetsInput, EndsAreDue, Down
  <2>4. InputHasAsker'
    BY <1>1, <1>2, <1>3, <1>4, IdentityAssumption, RequestAssumption, <2>1, <2>2
    DEF RequestInv, PendingHasAsker, InputHasAsker, DispatchMeetsAllowed, ResumeMeetsInput, EndsAreDue, Down
  <2>5. DispatchMeetsAllowed'
    BY <1>1, <1>2, <1>3, <1>4, IdentityAssumption, RequestAssumption, <2>1, <2>2
    DEF RequestInv, PendingHasAsker, InputHasAsker, DispatchMeetsAllowed, ResumeMeetsInput, EndsAreDue, Down
  <2>6. ResumeMeetsInput'
    BY <1>1, <1>2, <1>3, <1>4, IdentityAssumption, RequestAssumption, <2>1, <2>2
    DEF RequestInv, PendingHasAsker, InputHasAsker, DispatchMeetsAllowed, ResumeMeetsInput, EndsAreDue, Down
  <2>. QED BY <2>3, <2>4, <2>5, <2>6 DEF RequestInv
<1>7. ASSUME NEW r \in Runs, Answer(r) PROVE RequestInv'
  <2>1. /\ status[r] = "waiting_input" /\ status' = [status EXCEPT ![r] = "running"]
        /\ todo' = todo \cup {[effect |-> "resume_input", run |-> r]}
        /\ UNCHANGED <<approval, approvalRun, asked>>
    BY <1>7 DEF Answer, AnswerInput, Later, approvalVars
  <2>2. PICK d \in SessionOf(r) : asked[d] = "input"
    BY <2>1 DEF RequestInv, InputHasAsker
  <2>3. PendingHasAsker'
    BY <1>1, <1>2, <1>3, <1>4, IdentityAssumption, RequestAssumption, <2>1, <2>2
    DEF RequestInv, PendingHasAsker, InputHasAsker, DispatchMeetsAllowed, ResumeMeetsInput, EndsAreDue, Down
  <2>4. InputHasAsker'
    BY <1>1, <1>2, <1>3, <1>4, IdentityAssumption, RequestAssumption, <2>1, <2>2
    DEF RequestInv, PendingHasAsker, InputHasAsker, DispatchMeetsAllowed, ResumeMeetsInput, EndsAreDue, Down
  <2>5. DispatchMeetsAllowed'
    BY <1>1, <1>2, <1>3, <1>4, IdentityAssumption, RequestAssumption, <2>1, <2>2
    DEF RequestInv, PendingHasAsker, InputHasAsker, DispatchMeetsAllowed, ResumeMeetsInput, EndsAreDue, Down
  <2>6. ResumeMeetsInput'
    BY <1>1, <1>2, <1>3, <1>4, IdentityAssumption, RequestAssumption, <2>1, <2>2
    DEF RequestInv, PendingHasAsker, InputHasAsker, DispatchMeetsAllowed, ResumeMeetsInput, EndsAreDue, Down
  <2>. QED BY <2>3, <2>4, <2>5, <2>6 DEF RequestInv
<1>8. ASSUME NEW r \in Runs, DispatchTool(r) PROVE RequestInv'
  <2>1. /\ Due("dispatch_tool", r) /\ todo' = todo \ {[effect |-> "dispatch_tool", run |-> r]}
        /\ UNCHANGED <<status, approval, approvalRun>>
        /\ asked' = [d \in Drives |-> IF d \in SessionOf(r) /\ asked[d] \in Approvals THEN "none"
                                      ELSE asked[d]]
    BY <1>8 DEF DispatchTool, Applied, Answered, vars, runVars, approvalVars
  <2>2. /\ status[r] \in ActiveStatus => \E d \in SessionOf(r) : asked[d] \in Approvals
        /\ \A d \in SessionOf(r) : asked[d] \in Approvals => approval[asked[d]] = "allowed"
        /\ \A q \in Runs : \A d \in SessionOf(q) : q # r => d \notin SessionOf(r)
    BY <2>1 DEF RequestInv, DispatchMeetsAllowed, SessionOf
  <2>3. PendingHasAsker'
    BY <1>1, <1>2, <1>3, <1>4, IdentityAssumption, RequestAssumption, <2>1, <2>2
    DEF RequestInv, PendingHasAsker, InputHasAsker, DispatchMeetsAllowed, ResumeMeetsInput, EndsAreDue, Down
  <2>4. InputHasAsker'
    BY <1>1, <1>2, <1>3, <1>4, IdentityAssumption, RequestAssumption, <2>1, <2>2
    DEF RequestInv, PendingHasAsker, InputHasAsker, DispatchMeetsAllowed, ResumeMeetsInput, EndsAreDue, Down
  <2>5. DispatchMeetsAllowed'
    BY <1>1, <1>2, <1>3, <1>4, IdentityAssumption, RequestAssumption, <2>1, <2>2
    DEF RequestInv, PendingHasAsker, InputHasAsker, DispatchMeetsAllowed, ResumeMeetsInput, EndsAreDue, Down
  <2>6. ResumeMeetsInput'
    BY <1>1, <1>2, <1>3, <1>4, IdentityAssumption, RequestAssumption, <2>1, <2>2
    DEF RequestInv, PendingHasAsker, InputHasAsker, DispatchMeetsAllowed, ResumeMeetsInput, EndsAreDue, Down
  <2>. QED BY <2>3, <2>4, <2>5, <2>6 DEF RequestInv
<1>9. ASSUME NEW r \in Runs, ResumeInput(r) PROVE RequestInv'
  <2>1. /\ Due("resume_input", r) /\ todo' = todo \ {[effect |-> "resume_input", run |-> r]}
        /\ UNCHANGED <<status, approval, approvalRun>>
        /\ asked' = [d \in Drives |-> IF d \in SessionOf(r) /\ asked[d] = "input" THEN "none"
                                      ELSE asked[d]]
    BY <1>9 DEF ResumeInput, Applied, Answered, vars, runVars, approvalVars
  <2>2. /\ status[r] \in ActiveStatus =>
             status[r] # "waiting_input" /\ \E d \in SessionOf(r) : asked[d] = "input"
        /\ \A q \in Runs : \A d \in SessionOf(q) : q # r => d \notin SessionOf(r)
    BY <2>1 DEF RequestInv, ResumeMeetsInput, SessionOf
  <2>3. PendingHasAsker'
    BY <1>1, <1>2, <1>3, <1>4, IdentityAssumption, RequestAssumption, <2>1, <2>2
    DEF RequestInv, PendingHasAsker, InputHasAsker, DispatchMeetsAllowed, ResumeMeetsInput, EndsAreDue, Down
  <2>4. InputHasAsker'
    BY <1>1, <1>2, <1>3, <1>4, IdentityAssumption, RequestAssumption, <2>1, <2>2
    DEF RequestInv, PendingHasAsker, InputHasAsker, DispatchMeetsAllowed, ResumeMeetsInput, EndsAreDue, Down
  <2>5. DispatchMeetsAllowed'
    BY <1>1, <1>2, <1>3, <1>4, IdentityAssumption, RequestAssumption, <2>1, <2>2
    DEF RequestInv, PendingHasAsker, InputHasAsker, DispatchMeetsAllowed, ResumeMeetsInput, EndsAreDue, Down
  <2>6. ResumeMeetsInput'
    BY <1>1, <1>2, <1>3, <1>4, IdentityAssumption, RequestAssumption, <2>1, <2>2
    DEF RequestInv, PendingHasAsker, InputHasAsker, DispatchMeetsAllowed, ResumeMeetsInput, EndsAreDue, Down
  <2>. QED BY <2>3, <2>4, <2>5, <2>6 DEF RequestInv
<1>10. ASSUME NEW d \in Drives, NEW a \in Approvals, AskApproval(d, a) PROVE RequestInv'
  <2>1. /\ driveOf[d] \in Runs /\ d \in SessionOf(driveOf[d]) /\ asked[d] = "none"
        /\ status[driveOf[d]] \in ActiveStatus
        /\ approval[a] = "absent" /\ approval' = [approval EXCEPT ![a] = "pending"]
        /\ approvalRun' = [approvalRun EXCEPT ![a] = driveOf[d]]
        /\ status' = [status EXCEPT ![driveOf[d]] = "waiting_approval"]
        /\ asked' = [asked EXCEPT ![d] = a] /\ UNCHANGED todo
    BY <1>10 DEF AskApproval, RequestApproval, Received, Grantable, Active, SessionOf, Live, DriveInv,
       MemoryType, DriveType
  <2>2. \A q \in Runs : q # driveOf[d] => d \notin SessionOf(q)
    BY DEF SessionOf
  <2>3. approvalRun \in [Approvals -> Runs \cup {NoRun}]
    BY DEF StoreInv, TypeOK
  <2>4. PendingHasAsker'
    BY <1>1, <1>2, <1>3, <1>4, IdentityAssumption, RequestAssumption, <2>1, <2>2, <2>3
    DEF RequestInv, PendingHasAsker, InputHasAsker, DispatchMeetsAllowed, ResumeMeetsInput, EndsAreDue, Down
  <2>5. InputHasAsker'
    BY <1>1, <1>2, <1>3, <1>4, IdentityAssumption, RequestAssumption, <2>1, <2>2, <2>3
    DEF RequestInv, PendingHasAsker, InputHasAsker, DispatchMeetsAllowed, ResumeMeetsInput, EndsAreDue, Down
  <2>6. DispatchMeetsAllowed'
    BY <1>1, <1>2, <1>3, <1>4, IdentityAssumption, RequestAssumption, <2>1, <2>2, <2>3
    DEF RequestInv, PendingHasAsker, InputHasAsker, DispatchMeetsAllowed, ResumeMeetsInput, EndsAreDue, Down
  <2>7. ResumeMeetsInput'
    BY <1>1, <1>2, <1>3, <1>4, IdentityAssumption, RequestAssumption, <2>1, <2>2, <2>3
    DEF RequestInv, PendingHasAsker, InputHasAsker, DispatchMeetsAllowed, ResumeMeetsInput, EndsAreDue, Down
  <2>. QED BY <2>4, <2>5, <2>6, <2>7 DEF RequestInv
<1>11. ASSUME NEW d \in Drives, AskInput(d) PROVE RequestInv'
  <2>1. /\ driveOf[d] \in Runs /\ d \in SessionOf(driveOf[d]) /\ asked[d] = "none"
        /\ asked' = [asked EXCEPT ![d] = "input"] /\ UNCHANGED <<todo, approval, approvalRun>>
        /\ status[driveOf[d]] \in ActiveStatus
        /\ status' = [status EXCEPT ![driveOf[d]] = "waiting_input"]
    BY <1>11 DEF AskInput, AskQuestion, Received, Grantable, Active, SessionOf, Live, DriveInv,
       MemoryType, DriveType, approvalVars
  <2>2. \A q \in Runs : q # driveOf[d] => d \notin SessionOf(q)
    BY DEF SessionOf
  <2>3. PendingHasAsker'
    BY <1>1, <1>2, <1>3, <1>4, IdentityAssumption, RequestAssumption, <2>1, <2>2
    DEF RequestInv, PendingHasAsker, InputHasAsker, DispatchMeetsAllowed, ResumeMeetsInput, EndsAreDue, Down
  <2>4. InputHasAsker'
    BY <1>1, <1>2, <1>3, <1>4, IdentityAssumption, RequestAssumption, <2>1, <2>2
    DEF RequestInv, PendingHasAsker, InputHasAsker, DispatchMeetsAllowed, ResumeMeetsInput, EndsAreDue, Down
  <2>5. DispatchMeetsAllowed'
    BY <1>1, <1>2, <1>3, <1>4, IdentityAssumption, RequestAssumption, <2>1, <2>2
    DEF RequestInv, PendingHasAsker, InputHasAsker, DispatchMeetsAllowed, ResumeMeetsInput, EndsAreDue, Down
  <2>6. ResumeMeetsInput'
    BY <1>1, <1>2, <1>3, <1>4, IdentityAssumption, RequestAssumption, <2>1, <2>2
    DEF RequestInv, PendingHasAsker, InputHasAsker, DispatchMeetsAllowed, ResumeMeetsInput, EndsAreDue, Down
  <2>. QED BY <2>3, <2>4, <2>5, <2>6 DEF RequestInv
<1>. QED BY <1>5, <1>6, <1>7, <1>8, <1>9, <1>10, <1>11 DEF Asks, Resolve

LEMMA RequestStep ==
  ASSUME StoreInv, StoreInv', RunMoves, DecisionStands, DriveInv, DriveInv', DriveMoves,
         EndsAreDue, EndsAreDue', RequestInv, DriverNext
  PROVE  RequestInv'
BY QuietStep, QuietRequests, AnsweredRequests

-----------------------------------------------------------------------------
(* What is run, loaded and left behind                                     *)

\* Only the application of a decision lets the bridge run anything.
RanInv == ran \subseteq Approvals /\ RanWasAllowed

LEMMA RanStep ==
  ASSUME DecisionStands, RequestInv, RanInv, DriverNext
  PROVE  RanInv'
<1>1. ASSUME NEW r \in Runs, DispatchTool(r) PROVE RanInv'
  <2>1. Due("dispatch_tool", r)
    BY <1>1 DEF DispatchTool, Applied, Due
  <2>2. \A d \in SessionOf(r) : asked[d] \in Approvals => approval[asked[d]] = "allowed"
    BY <2>1 DEF RequestInv, DispatchMeetsAllowed
  <2>3. \A a \in ran' : a \in ran \/ \E d \in SessionOf(r) : asked[d] \in Approvals /\ a = asked[d]
    BY <1>1 DEF DispatchTool
  <2>. QED BY <2>2, <2>3 DEF RanInv, RanWasAllowed, DecisionStands
<1>2. CASE UNCHANGED ran
  BY <1>2 DEF RanInv, RanWasAllowed, DecisionStands
<1>3. UNCHANGED ran \/ \E r \in Runs : DispatchTool(r)
  <2>1. CASE Command \/ ApplyEffect
    BY <2>1 DEF Command, ApplyEffect, Submit, Propose, Replay, Load, Resolve, Answer, Cancel, Stop,
       RejectTool, ResumeInput, InterruptProvider, InterruptAll
  <2>2. ASSUME NEW d \in Drives, Proceed(d) \/ Provider(d) PROVE UNCHANGED ran
    BY <2>2 DEF Proceed, Provider, BriefFails, ReadSnapshot, LoadRefused, Spawn, SpawnFails, TimerFires,
       Claims, NativeInit, AbortTool, PermissionDenied, PermissionTooMuch, CanUseTool, AskApproval,
       AskInput, ProviderFails, HistoryLoaded, Completes, Accepts, Declines
  <2>3. CASE SweepAndInterrupt \/ Restart \/ Time \/ \E r \in Runs : MaraStep(r)
    BY <2>3 DEF SweepAndInterrupt, Restart, Time, MaraStep, driverVars
  <2>. QED BY <2>1, <2>2, <2>3 DEF DriverNext
<1>. QED BY <1>1, <1>2, <1>3

\* One handler begins at a time, and a retry is not forgotten.
OneBegins ==
  /\ replayed \subseteq replayed'
  /\ \A d, e \in Drives :
       stage[d] = "idle" /\ stage'[d] # "idle" /\ stage[e] = "idle" /\ stage'[e] # "idle"
         => d = e

LEMMA BeginsAlone ==
  ASSUME MemoryType, DriverNext
  PROVE  OneBegins
<1> USE DEF MemoryType, DriveType
<1>1. ASSUME NEW d \in Drives, replayed \subseteq replayed',
             stage' = [stage EXCEPT ![d] = "checking"]
      PROVE  OneBegins
  BY <1>1 DEF OneBegins
<1>2. ASSUME UNCHANGED replayed,
             \/ UNCHANGED stage
             \/ \E S, D : Interrupt(S, D)
             \/ \E d \in Drives, s \in Stage : stage[d] # "idle" /\ stage' = [stage EXCEPT ![d] = s]
             \/ stage' = [d \in Drives |-> "idle"]
      PROVE  OneBegins
  <2>1. \A d \in Drives : stage[d] = "idle" => stage'[d] = "idle"
    BY <1>2 DEF Interrupt, Live
  <2>. QED BY <1>2, <2>1 DEF OneBegins
<1>3. CASE Command
  BY <1>1, <1>2, <1>3 DEF Command, Submit, Propose, Replay, Load, Begin, Resolve, Answer, Cancel, Stop
<1>4. CASE ApplyEffect
  BY <1>2, <1>4 DEF ApplyEffect, DispatchTool, RejectTool, ResumeInput, InterruptProvider, InterruptAll
<1>5. ASSUME NEW d \in Drives, Proceed(d) PROVE OneBegins
  BY <1>2, <1>5 DEF Proceed, BriefFails, ReadSnapshot, LoadRefused, Spawn, SpawnFails, TimerFires,
     Claims, Close, Stage, Live
<1>6. ASSUME NEW d \in Drives, Provider(d) PROVE OneBegins
  BY <1>2, <1>6 DEF Provider, NativeInit, AbortTool, PermissionDenied, PermissionTooMuch, CanUseTool,
     AskApproval, AskInput, ProviderFails, HistoryLoaded, Completes, Accepts, Declines, Close, Stage
<1>7. CASE SweepAndInterrupt \/ Restart \/ Time \/ \E r \in Runs : MaraStep(r)
  BY <1>2, <1>7 DEF SweepAndInterrupt, Restart, Time, MaraStep, driverVars
<1>. QED BY <1>3, <1>4, <1>5, <1>6, <1>7 DEF DriverNext

\* Two handlers that launch the same run need a retried submission.
TwoNeedReplay ==
  \A d, e \in Drives :
    d # e /\ turn[d] # "load" /\ turn[e] # "load" /\ stage[d] # "idle" /\ stage[e] # "idle"
      /\ driveOf[d] = driveOf[e] => driveOf[d] \in replayed

LEMMA TwoStep ==
  ASSUME DriveInv, DriveMoves, TwoNeedReplay, DriverNext
  PROVE  TwoNeedReplay'
<1> SUFFICES ASSUME NEW d \in Drives, NEW e \in Drives, d # e, turn'[d] # "load", turn'[e] # "load",
                    stage'[d] # "idle", stage'[e] # "idle", driveOf'[d] = driveOf'[e]
             PROVE  driveOf'[d] \in replayed'
  BY DEF TwoNeedReplay
<1>1. replayed \subseteq replayed' /\ (stage[d] # "idle" \/ stage[e] # "idle")
  BY BeginsAlone DEF OneBegins, DriveInv
<1>2. ASSUME NEW x \in Drives, stage'[x] # "idle", turn'[x] # "load"
      PROVE  Enters(x) \/ (stage[x] # "idle" /\ driveOf'[x] = driveOf[x] /\ turn[x] # "load")
  BY <1>2 DEF DriveMoves, Reads, Spawns, Reports, Yields, Redrafts, Loses, Ends, DriveInv, TurnsFit
<1>3. ASSUME NEW x \in Drives, stage[x] # "idle" PROVE status[driveOf[x]] # "absent" /\ ~Enters(x)
  BY <1>3 DEF DriveInv, BusyWithRun, Enters
<1>4. CASE Enters(d) \/ Enters(e)
  BY <1>1, <1>2, <1>3, <1>4 DEF Enters
<1>5. CASE ~Enters(d) /\ ~Enters(e)
  BY <1>1, <1>2, <1>5 DEF TwoNeedReplay
<1>. QED BY <1>4, <1>5

Loads(d, r) == driveOf[d] = r /\ turn[d] = "load" /\ stage[d] # "idle"

\* Who loads goes on until the load is over or the run is failed or canceled.
LEMMA LoadersStay ==
  ASSUME StoreInv, RunMoves, RecordsStand, DriveInv, EndsAreDue, DriverNext, NEW r \in Runs,
         loading'[r], status'[r] \in {"succeeded", "interrupted"}, frozen'[r].bot = "ivo"
  PROVE  \/ \E d \in Drives : Loads(d, r)'
         \/ /\ loading[r] /\ status'[r] = status[r] /\ frozen[r].bot = "ivo"
            /\ \A d \in Drives : Loads(d, r) => Loads(d, r)'
<1> DEFINE Kept == \/ \E d \in Drives : Loads(d, r)'
                   \/ /\ loading[r] /\ status'[r] = status[r] /\ frozen[r].bot = "ivo"
                      /\ \A d \in Drives : Loads(d, r) => Loads(d, r)'
<1>0. MemoryType /\ OneSession
  BY DEF DriveInv
<1>l. loading[r] => ~latched /\ status[r] \notin ActiveStatus \cup {"absent"} /\ frozen'[r] = frozen[r]
  BY DEF StoreInv, StopQuiesces, Busy, LoadingIsOver, Ended, RecordsStand
<1> USE DEF Loads, DriveInv, MemoryType, DriveType, TurnsFit, StoreInv, TypeOK, Ended, Live, Stage,
            ActiveStatus, approvalVars, runVars, taskVars, handoffVars, vars
<1>1. ASSUME NEW x \in Runs, NEW t \in Tasks, NEW b \in Bots, NEW d \in Drives, Submit(x, t,
    b, d) PROVE Kept
  BY <1>1, <1>0, <1>l DEF Submit, SubmitTask, Begin
<1>2. ASSUME NEW s \in Runs, NEW t \in Tasks, NEW x \in Runs, NEW d \in Drives, Propose(s, t,
    x, d) PROVE Kept
  BY <1>2, <1>0, <1>l DEF Propose, ProposeHandoff, Begin
<1>3. ASSUME NEW x \in Runs, NEW d \in Drives, Replay(x, d) PROVE Kept
  BY <1>3, <1>0, <1>l DEF Replay, Begin
<1>4. ASSUME NEW x \in Runs, NEW d \in Drives, Load(x, d) PROVE Kept
  BY <1>4, <1>0, <1>l DEF Load, LoadSession, Begin
<1>5. ASSUME NEW a \in Approvals, AllowApproval(a), Resolve(a) PROVE Kept
  BY <1>5, <1>0, <1>l DEF Resolve, AllowApproval, Resolvable, Later
<1>6. ASSUME NEW a \in Approvals, DenyApproval(a) \/ ResolveTooLate(a), Resolve(a) PROVE Kept
  BY <1>6, <1>0, <1>l DEF Resolve, DenyApproval, ResolveTooLate, ExpireApprovals, FinishRuns,
      Resolvable, Later
<1>7. ASSUME NEW x \in Runs, Answer(x) PROVE Kept
  BY <1>7, <1>0, <1>l DEF Answer, AnswerInput, Later
<1>8. ASSUME NEW x \in Runs, Cancel(x) PROVE Kept
  BY <1>8, <1>0, <1>l DEF Cancel, CancelRun, CancelApprovals, FinishRuns, Later
<1>9. ASSUME Stop PROVE Kept
  BY <1>9, <1>0, <1>l DEF Stop, StopAll, CancelApprovals, FinishRuns, ActiveRuns, Later
<1>10. ASSUME NEW x \in Runs, DispatchTool(x) PROVE Kept
  BY <1>10, <1>0, <1>l DEF DispatchTool, Applied, Answered
<1>11. ASSUME NEW x \in Runs, RejectTool(x) PROVE Kept
  <2>1. /\ stage' = [e \in Drives |-> IF driveOf[e] = x /\ stage[e] \in Live
                                     THEN IF stage[e] = "yielding" THEN "lost" ELSE "idle"
                                     ELSE stage[e]]
        /\ asked' = [e \in Drives |-> IF driveOf[e] = x /\ stage[e] \in Live THEN "none" ELSE asked[e]]
        /\ UNCHANGED <<driveOf, turn, ran, replayed>>
    BY <1>11 DEF RejectTool, Interrupt, Hush
  <2>2. /\ UNCHANGED <<latched, status, frozen, loading, approval, approvalRun>>
        /\ [effect |-> "reject_tool", run |-> x] \in todo
        /\ todo' = todo \ {[effect |-> "reject_tool", run |-> x]}
    BY <1>11 DEF RejectTool, Applied, vars, runVars, approvalVars
  <2>3. Down(x)
    BY <2>2, IdentityAssumption DEF EndsAreDue
  <2>4. x # r
    BY <2>2, <2>3 DEF Down
  <2>. QED BY <2>1, <2>2, <2>4, <1>0, <1>l
<1>12. ASSUME NEW x \in Runs, ResumeInput(x) PROVE Kept
  BY <1>12, <1>0, <1>l DEF ResumeInput, Applied, Answered
<1>13. ASSUME NEW x \in Runs, InterruptProvider(x) PROVE Kept
  <2>1. /\ stage' = [e \in Drives |-> IF driveOf[e] = x /\ stage[e] \in Live
                                     THEN IF stage[e] = "yielding" THEN "lost" ELSE "idle"
                                     ELSE stage[e]]
        /\ asked' = [e \in Drives |-> IF driveOf[e] = x /\ stage[e] \in Live THEN "none" ELSE asked[e]]
        /\ UNCHANGED <<driveOf, turn, ran, replayed>>
    BY <1>13 DEF InterruptProvider, Interrupt, Hush
  <2>2. /\ UNCHANGED <<latched, status, frozen, loading, approval, approvalRun>>
        /\ [effect |-> "interrupt_provider", run |-> x] \in todo
        /\ todo' = todo \ {[effect |-> "interrupt_provider", run |-> x]}
    BY <1>13 DEF InterruptProvider, Applied, vars, runVars, approvalVars
  <2>3. Down(x)
    BY <2>2, IdentityAssumption DEF EndsAreDue
  <2>4. x # r
    BY <2>2, <2>3 DEF Down
  <2>. QED BY <2>1, <2>2, <2>4, <1>0, <1>l
<1>14. ASSUME InterruptAll PROVE Kept
  <2>1. /\ stage' = [e \in Drives |-> IF driveOf[e] \in Runs /\ stage[e] \in Live
                                     THEN IF stage[e] = "yielding" THEN "lost" ELSE "idle"
                                     ELSE stage[e]]
        /\ asked' = [e \in Drives |-> IF driveOf[e] \in Runs /\ stage[e] \in Live THEN "none" ELSE asked[e]]
        /\ UNCHANGED <<driveOf, turn, ran, replayed>>
    BY <1>14 DEF InterruptAll, Interrupt, Hush
  <2>2. /\ UNCHANGED <<latched, status, frozen, loading, approval, approvalRun>>
        /\ [effect |-> "interrupt_provider", run |-> NoRun] \in todo
        /\ todo' = todo \ {[effect |-> "interrupt_provider", run |-> NoRun]}
    BY <1>14 DEF InterruptAll, Applied, vars, runVars, approvalVars
  <2>3. latched
    BY <2>2 DEF EndsAreDue
  <2>4. loading[r]
    BY <2>2, Zenon
  <2>. QED BY <2>3, <2>4, <1>l, Zenon
<1>15. ASSUME NEW d \in Drives, BriefFails(d) PROVE Kept
  <2>1. driveOf[d] \in Runs /\ stage[d] = "checking"
    BY <1>15 DEF BriefFails
  <2>2. /\ stage' = [stage EXCEPT ![d] = "idle"] /\ asked' = asked
        /\ UNCHANGED <<driveOf, turn, todo, ran, replayed>>
    BY <1>15, <2>1, ReturnEffect DEF BriefFails
  <2>3. Harmless(driveOf[d]) /\ status'[driveOf[d]] \notin ActiveStatus
        /\ (Ended(driveOf[d]) => ~loading'[driveOf[d]])
    BY <1>15, <2>1, EngineFailEffect DEF BriefFails
  <2>. QED BY <2>1, <2>2, <2>3, <1>0, <1>l DEF BusyWithRun, Harmless
<1>16. ASSUME NEW d \in Drives, ReadSnapshot(d) PROVE Kept
  BY <1>16, <1>0, <1>l DEF ReadSnapshot
<1>17. ASSUME NEW d \in Drives, LoadRefused(d) PROVE Kept
  <2>1. driveOf[d] \in Runs /\ stage[d] = "spawning" /\ turn[d] = "load"
    BY <1>17 DEF LoadRefused
  <2>2. /\ stage' = [stage EXCEPT ![d] = "idle"] /\ asked' = asked
        /\ UNCHANGED <<driveOf, turn, todo, ran, replayed>>
    BY <1>17, <2>1, ReturnEffect DEF LoadRefused
  <2>3. UNCHANGED vars /\ ~(loading[driveOf[d]] /\ ~latched)
    BY <1>17, <2>1 DEF LoadRefused
  <2>4. loading[r]
    BY <2>3, Zenon DEF vars, runVars
  <2>5. driveOf[d] # r
    BY <2>3, <2>4, <1>l, Zenon
  <2>. QED BY <2>1, <2>2, <2>3, <2>4, <2>5, <1>l
<1>18. ASSUME NEW d \in Drives, Spawn(d) PROVE Kept
  <2>1. /\ driveOf[d] \in Runs /\ stage[d] = "spawning" /\ SessionOf(driveOf[d]) = {}
        /\ UNCHANGED <<driveOf, turn, todo, ran, replayed>>
    BY <1>18 DEF Spawn
  <2>2. CASE stage' = [stage EXCEPT ![d] = "starting"]
    <3>1. asked' = asked /\ UNCHANGED <<latched, status, frozen, loading, approval, approvalRun>>
      BY <1>18, <2>1, <2>2 DEF Spawn, BumpAction, Interrupt, vars, runVars, approvalVars
    <3>2. stage'[d] = "starting" /\ \A e \in Drives : e # d => stage'[e] = stage[e]
      BY <2>2
    <3>3. asked[d] = "none" /\ \A e \in Drives : asked[e] # "none" => stage'[e] = "prompting"
      BY <2>1, <3>2, <1>0, <1>l DEF Harmless
    <3>. QED BY <2>1, <2>2, <3>1, <3>2, <3>3, <1>0, <1>l DEF Harmless
  <2>3. CASE Interrupt({}, {d}) /\ FailIfActive(driveOf[d]) /\ turn[d] = "decision"
    <3>1. stage' = [stage EXCEPT ![d] = "idle"] /\ asked' = asked
      BY <2>1, <2>3, ReturnEffect
    <3>2. Harmless(driveOf[d])
      BY <2>1, <2>3, FailIfActiveEffect
    <3>. QED BY <2>1, <2>3, <3>1, <3>2, <1>0, <1>l DEF Harmless
  <2>. QED BY <1>18, <2>2, <2>3 DEF Spawn
<1>19. ASSUME NEW d \in Drives, SpawnFails(d) PROVE Kept
  <2>1. driveOf[d] \in Runs /\ stage[d] = "spawning"
    BY <1>19 DEF SpawnFails
  <2>2. /\ stage' = [e \in Drives |-> IF e = d THEN "idle"
                                     ELSE IF driveOf[e] = driveOf[d] /\ stage[e] \in Live
                                     THEN IF stage[e] = "yielding" THEN "lost" ELSE "idle"
                                     ELSE stage[e]]
        /\ asked' = [e \in Drives |-> IF driveOf[e] = driveOf[d] /\ stage[e] \in Live THEN "none"
                                     ELSE asked[e]]
        /\ UNCHANGED <<driveOf, turn, todo, ran, replayed>>
    BY <1>19 DEF SpawnFails, Interrupt, Hush
  <2>3. Harmless(driveOf[d]) /\ status'[driveOf[d]] \notin ActiveStatus
        /\ (Ended(driveOf[d]) => ~loading'[driveOf[d]])
    BY <1>19, <2>1, EngineFailEffect, EndLoadEffect DEF SpawnFails, BusyWithRun, Ended
  <2>. QED BY <2>1, <2>2, <2>3, <1>0, <1>l DEF BusyWithRun, Harmless
<1>20. ASSUME NEW d \in Drives, TimerFires(d) PROVE Kept
  <2>1. driveOf[d] \in Runs /\ stage[d] \in Live /\ TRUE
    BY <1>20 DEF TimerFires
  <2>2. /\ stage' = [stage EXCEPT ![d] = IF stage[d] = "yielding" THEN "lost" ELSE "idle"]
        /\ asked' = [asked EXCEPT ![d] = "none"]
        /\ UNCHANGED <<driveOf, turn, todo, ran, replayed>>
    BY <1>20, <2>1, CloseEffect DEF TimerFires
  <2>3. Harmless(driveOf[d]) /\ status'[driveOf[d]] \notin ActiveStatus
        /\ (turn[d] = "load" => ~loading'[driveOf[d]])
    BY <1>20, <2>1, ClaudeFailEffect DEF TimerFires, DriveInv, BusyWithRun
  <2>. QED BY <2>1, <2>2, <2>3, <1>0, <1>l DEF Harmless
<1>21. ASSUME NEW d \in Drives, Claims(d) PROVE Kept
  <2>1. /\ driveOf[d] \in Runs /\ stage[d] \in {"yielding", "lost"}
        /\ UNCHANGED <<driveOf, todo, ran, replayed>>
    BY <1>21 DEF Claims
  <2>2. CASE DraftClaimable(driveOf[d])
    <3>1. /\ stage' = [stage EXCEPT ![d] = "starting"] /\ turn' = [turn EXCEPT ![d] = "draft"]
          /\ UNCHANGED asked /\ UNCHANGED <<latched, status, frozen, loading, approval, approvalRun>>
          /\ draft' = [draft EXCEPT ![driveOf[d]] = "claimed"] /\ UNCHANGED <<handoff, offer>>
      BY <1>21, <2>2 DEF Claims, ClaimDraft, approvalVars, handoffVars
    <3>. QED BY <2>1, <2>2, <3>1, <1>0, <1>l DEF DraftClaimable
  <2>3. CASE ~DraftClaimable(driveOf[d])
    <3>1. /\ stage' = [stage EXCEPT ![d] = "idle"] /\ UNCHANGED <<turn, asked>> /\ UNCHANGED <<latched, status, frozen, loading, approval, approvalRun>>
      BY <1>21, <2>1, <2>3, ReturnEffect DEF Claims, vars, runVars, approvalVars
    <3>. QED BY <2>1, <2>3, <3>1, <1>0, <1>l
  <2>. QED BY <2>2, <2>3
<1>22. ASSUME NEW d \in Drives, NativeInit(d) PROVE Kept
  <2>1. /\ driveOf[d] \in Runs /\ stage[d] = "starting" /\ turn[d] # "load"
        /\ UNCHANGED <<driveOf, turn, todo, ran, replayed>>
    BY <1>22 DEF NativeInit
  <2>2. CASE turn[d] = "draft"
    <3>1. UNCHANGED <<latched, status, frozen, loading, approval, approvalRun, asked>>
          /\ stage' = [stage EXCEPT ![d] = "prompting"]
      BY <1>22, <2>2 DEF NativeInit, vars, runVars, approvalVars
    <3>. QED BY <2>1, <2>2, <3>1, <1>0, <1>l
  <2>3. CASE turn[d] # "draft" /\ Active(driveOf[d])
    <3>1. /\ UNCHANGED <<latched, frozen, loading, approval, approvalRun, asked>>
          /\ status' = [status EXCEPT ![driveOf[d]] = "running"]
          /\ stage' = [stage EXCEPT ![d] = "prompting"]
      BY <1>22, <2>3 DEF NativeInit, MarkRunning, approvalVars
    <3>. QED BY <2>1, <2>3, <3>1, <1>0, <1>l
  <2>4. CASE turn[d] # "draft" /\ ~Active(driveOf[d])
    <3>1. /\ stage' = [stage EXCEPT ![d] = "idle"]
          /\ asked' = [asked EXCEPT ![d] = "none"]
          /\ UNCHANGED <<latched, status, frozen, loading, approval, approvalRun>>
      BY <1>22, <2>1, <2>4, CloseEffect DEF NativeInit, vars, runVars, approvalVars
    <3>. QED BY <2>1, <2>4, <3>1, <1>0, <1>l
  <2>. QED BY <2>2, <2>3, <2>4
<1>23. ASSUME NEW d \in Drives, AbortTool(d) \/ PermissionDenied(d) \/ \E n \in {"Bash",
    "AskUserQuestion"} : CanUseTool(d, n) PROVE Kept
  BY <1>23, <1>0, <1>l DEF AbortTool, PermissionDenied, CanUseTool
<1>24. ASSUME NEW d \in Drives, PermissionTooMuch(d) PROVE Kept
  <2>1. driveOf[d] \in Runs /\ stage[d] \in Live /\ stage[d] = "prompting" /\ turn[d] = "only"
    BY <1>24 DEF PermissionTooMuch, Grantable
  <2>2. /\ stage' = [stage EXCEPT ![d] = IF stage[d] = "yielding" THEN "lost" ELSE "idle"]
        /\ asked' = [asked EXCEPT ![d] = "none"]
        /\ UNCHANGED <<driveOf, turn, todo, ran, replayed>>
    BY <1>24, <2>1, CloseEffect DEF PermissionTooMuch
  <2>3. Harmless(driveOf[d]) /\ status'[driveOf[d]] \notin ActiveStatus
    BY <1>24, <2>1, FailIfActiveEffect DEF PermissionTooMuch
  <2>. QED BY <2>1, <2>2, <2>3, <1>0, <1>l DEF Harmless
<1>25. ASSUME NEW d \in Drives, NEW a \in Approvals, AskApproval(d, a) PROVE Kept
  BY <1>25, <1>0, <1>l DEF AskApproval, RequestApproval, Received, Grantable
<1>26. ASSUME NEW d \in Drives, AskInput(d) PROVE Kept
  BY <1>26, <1>0, <1>l DEF AskInput, AskQuestion, Received, Grantable
<1>27. ASSUME NEW d \in Drives, ProviderFails(d) PROVE Kept
  <2>1. driveOf[d] \in Runs /\ stage[d] \in Live /\ TRUE
    BY <1>27 DEF ProviderFails
  <2>2. /\ stage' = [stage EXCEPT ![d] = IF stage[d] = "yielding" THEN "lost" ELSE "idle"]
        /\ asked' = [asked EXCEPT ![d] = "none"]
        /\ UNCHANGED <<driveOf, turn, todo, ran, replayed>>
    BY <1>27, <2>1, CloseEffect DEF ProviderFails
  <2>3. Harmless(driveOf[d]) /\ status'[driveOf[d]] \notin ActiveStatus
        /\ (turn[d] = "load" => ~loading'[driveOf[d]])
    BY <1>27, <2>1, ClaudeFailEffect DEF ProviderFails, DriveInv, BusyWithRun
  <2>. QED BY <2>1, <2>2, <2>3, <1>0, <1>l DEF Harmless
<1>28. ASSUME NEW d \in Drives, HistoryLoaded(d) PROVE Kept
  <2>1. driveOf[d] \in Runs /\ stage[d] \in Live /\ stage[d] = "starting" /\ turn[d] = "load"
    BY <1>28 DEF HistoryLoaded
  <2>2. /\ stage' = [stage EXCEPT ![d] = IF stage[d] = "yielding" THEN "lost" ELSE "idle"]
        /\ asked' = [asked EXCEPT ![d] = "none"]
        /\ UNCHANGED <<driveOf, turn, todo, ran, replayed>>
    BY <1>28, <2>1, CloseEffect DEF HistoryLoaded
  <2>3. Harmless(driveOf[d]) /\ ~loading'[driveOf[d]] /\ status' = status
    BY <1>28, <2>1, EndLoadEffect DEF HistoryLoaded
  <2>. QED BY <2>1, <2>2, <2>3, <1>0, <1>l DEF Harmless
<1>29. ASSUME NEW d \in Drives, Completes(d) PROVE Kept
  <2>1. driveOf[d] \in Runs /\ stage[d] \in Live /\ stage[d] = "prompting" /\ turn[d] # "load"
    BY <1>29 DEF Completes
  <2>2. /\ stage' = [stage EXCEPT ![d] = IF stage[d] = "yielding" THEN "lost" ELSE "idle"]
        /\ asked' = [asked EXCEPT ![d] = "none"]
        /\ UNCHANGED <<driveOf, turn, todo, ran, replayed>>
    BY <1>29, <2>1, CloseEffect DEF Completes
  <2>3. /\ UNCHANGED <<latched, frozen, loading, approval, approvalRun>>
        /\ \/ ~Active(driveOf[d]) /\ UNCHANGED status
           \/ Active(driveOf[d]) /\ status' = [status EXCEPT ![driveOf[d]] = "succeeded"]
    BY <1>29, <2>1 DEF Completes, Complete, FinishRuns, vars, runVars, approvalVars
  <2>4. \A e \in Drives : Loads(e, r) => Loads(e, r)'
    BY <2>1, <2>2
  <2>5. loading[r] /\ status'[r] = status[r] /\ frozen[r].bot = "ivo"
    <3>1. loading[r]
      BY <2>3, Zenon
    <3>2. status'[r] = status[r]
      BY <2>1, <2>3, <3>1, <1>l DEF Active
    <3>. QED BY <2>3, <3>1, <3>2, <1>l
  <2>. QED BY <2>4, <2>5
<1>30. ASSUME NEW d \in Drives, Accepts(d) PROVE Kept
  <2>1. /\ driveOf[d] \in Runs /\ stage[d] = "prompting" /\ turn[d] = "decision"
        /\ stage' = [stage EXCEPT ![d] = "yielding"]
        /\ UNCHANGED <<driveOf, turn, asked, todo, ran, replayed>> /\ UNCHANGED <<latched, status, frozen, loading, approval, approvalRun>>
    BY <1>30 DEF Accepts, AcceptOffer, approvalVars
  <2>. QED BY <2>1, <1>0, <1>l
<1>31. ASSUME NEW d \in Drives, Declines(d) PROVE Kept
  <2>1. driveOf[d] \in Runs /\ stage[d] \in Live /\ stage[d] = "prompting" /\ turn[d] = "decision"
    BY <1>31 DEF Declines
  <2>2. /\ stage' = [stage EXCEPT ![d] = IF stage[d] = "yielding" THEN "lost" ELSE "idle"]
        /\ asked' = [asked EXCEPT ![d] = "none"]
        /\ UNCHANGED <<driveOf, turn, todo, ran, replayed>>
    BY <1>31, <2>1, CloseEffect DEF Declines
  <2>3. Harmless(driveOf[d])
    BY <1>31, <2>1 DEF Declines, RejectOffer, DecideTooLate, CloseOfferOf, FinishRuns, Harmless, vars, runVars, approvalVars
  <2>. QED BY <2>1, <2>2, <2>3, <1>0, <1>l DEF Harmless
<1>32. ASSUME NEW x \in Runs, MaraStep(x) PROVE Kept
  <2>1. /\ frozen[x].bot = "mara" /\ UNCHANGED driverVars
        /\ UNCHANGED <<latched, frozen, approval, approvalRun>>
        /\ \A q \in Runs :
             /\ status'[q] # status[q] => q = x /\ Active(x) /\ status'[q] \in {"running", "succeeded", "failed"}
             /\ loading'[q] => loading[q]
    BY <1>32 DEF MaraStep, MarkRunning, Complete, FailRun, EndLoad, FinishRuns, approvalVars
  <2>. QED BY <2>1, <1>0, <1>l DEF driverVars
<1>33. ASSUME SweepAndInterrupt PROVE Kept
  <2>1. /\ stage' = [e \in Drives |-> IF driveOf[e] \in SweptRuns /\ stage[e] \in Live
                                     THEN IF stage[e] = "yielding" THEN "lost" ELSE "idle"
                                     ELSE stage[e]]
        /\ asked' = [e \in Drives |-> IF driveOf[e] \in SweptRuns /\ stage[e] \in Live THEN "none" ELSE asked[e]]
        /\ UNCHANGED <<driveOf, turn, ran, replayed>>
    BY <1>33 DEF SweepAndInterrupt, Interrupt, Hush
  <2>2. /\ status' = [x \in Runs |-> IF x \in SweptRuns THEN "failed" ELSE status[x]]
        /\ \A a \in Approvals : approval'[a] # approval[a] => approval'[a] = "expired"
        /\ UNCHANGED <<latched, frozen, loading, approvalRun, todo>>
    BY <1>33, SweepEffect DEF SweepAndInterrupt
  <2>. QED BY <2>1, <2>2, <1>0, <1>l
<1>34. ASSUME Restart PROVE Kept
  BY <1>34, <1>0, <1>l DEF Restart, InterruptActive, ActiveRuns, Hush
<1>35. ASSUME Time PROVE Kept
  BY <1>35, <1>0, <1>l DEF Time, Tick, driverVars, driverVars
<1>. QED BY <1>1, <1>2, <1>3, <1>4, <1>5, <1>6, <1>7, <1>8, <1>9, <1>10, <1>11, <1>12, <1>13,
    <1>14, <1>15, <1>16, <1>17, <1>18, <1>19, <1>20, <1>21, <1>22, <1>23, <1>24, <1>25, <1>26,
    <1>27, <1>28, <1>29, <1>30, <1>31, <1>32, <1>33, <1>34, <1>35 DEF DriverNext, Command,
    ApplyEffect, Proceed, Provider, Resolve

\* A provider works on the run's own turn, or is about to.
Serves(d) ==
  turn[d] # "load"
    /\ (stage[d] \in {"prompting", "yielding"} \/ (stage[d] = "starting" /\ turn[d] = "draft"))

\* Whoever works has a run that is not over, or is about to be stopped.  This covers the
\* draft from its claim on, as its container is not stopped when it reports.
TurnServes ==
  \A d \in Drives : Serves(d) =>
    Active(driveOf[d]) \/ EndIsDue(driveOf[d]) \/ driveOf[d] \in replayed

\* An end of a run that leaves its session behind is the failure of another launch of it,
\* or else an interrupt or a refusal is due.
LEMMA EndStep ==
  ASSUME StoreInv, DriveInv, DriverNext, NEW o \in Drives, Serves(o), stage'[o] \in Live,
         ~Active(driveOf[o])', ~EndIsDue(driveOf[o])'
  PROVE  \/ ~Active(driveOf[o]) /\ ~EndIsDue(driveOf[o])
         \/ \E e \in Drives : e # o /\ turn[e] # "load" /\ stage[e] # "idle" /\ driveOf[e] = driveOf[o]
<1> DEFINE Kept == \/ ~Active(driveOf[o]) /\ ~EndIsDue(driveOf[o])
                   \/ \E e \in Drives :
                        e # o /\ turn[e] # "load" /\ stage[e] # "idle" /\ driveOf[e] = driveOf[o]
<1>0. MemoryType /\ OneSession
  BY DEF DriveInv
<1>o. /\ turn[o] # "load" /\ stage[o] \in Live /\ driveOf[o] \in Runs
      /\ frozen[driveOf[o]].bot = "ivo" /\ status[driveOf[o]] # "absent"
  BY DEF Serves, DriveInv, MemoryType, DriveType, BusyWithRun, Live
<1> USE DEF EndIsDue, Active, DriveInv, MemoryType, DriveType, StoreInv, TypeOK, Live, Stage, ActiveStatus,
            approvalVars, runVars, taskVars, handoffVars, vars
<1>1. ASSUME NEW r \in Runs, NEW t \in Tasks, NEW b \in Bots, NEW d \in Drives, Submit(r, t,
    b, d) PROVE Kept
  BY <1>1, <1>0, <1>o DEF Submit, SubmitTask, Begin
<1>2. ASSUME NEW s \in Runs, NEW t \in Tasks, NEW r \in Runs, NEW d \in Drives, Propose(s, t,
    r, d) PROVE Kept
  BY <1>2, <1>0, <1>o DEF Propose, ProposeHandoff, Begin
<1>3. ASSUME NEW r \in Runs, NEW d \in Drives, Replay(r, d) PROVE Kept
  BY <1>3, <1>0, <1>o DEF Replay, Begin
<1>4. ASSUME NEW r \in Runs, NEW d \in Drives, Load(r, d) PROVE Kept
  BY <1>4, <1>0, <1>o DEF Load, LoadSession, Begin
<1>5. ASSUME NEW a \in Approvals, AllowApproval(a), Resolve(a) PROVE Kept
  BY <1>5, <1>0, <1>o DEF Resolve, AllowApproval, Resolvable, Later, References,
      ApprovalsWellFormed, ApprovalState
<1>6. ASSUME NEW a \in Approvals, DenyApproval(a) \/ ResolveTooLate(a), Resolve(a) PROVE Kept
  <2>1. approvalRun[a] \in Runs /\ latched' = latched
        /\ status' = [status EXCEPT ![approvalRun[a]] = "failed"]
    BY <1>6 DEF DenyApproval, ResolveTooLate, Resolvable, FinishRuns, References, ApprovalsWellFormed
  <2>2. \E e \in {"reject_tool", "interrupt_provider"} :
          todo' = todo \cup {[effect |-> e, run |-> approvalRun[a]]}
    BY <1>6 DEF Resolve, Later, AllowApproval, DenyApproval, ResolveTooLate, Expired
  <2>3. driveOf' = driveOf
    BY <1>6 DEF Resolve
  <2>4. driveOf[o] # approvalRun[a]
    <3>1. SUFFICES ASSUME driveOf[o] = approvalRun[a] PROVE FALSE
      OBVIOUS
    <3>2. PICK e \in {"reject_tool", "interrupt_provider"} : [effect |-> e, run |-> driveOf[o]] \in todo'
      BY <2>2, <3>1
    <3>. QED BY <2>3, <3>2
  <2>5. \A e : e \in todo => e \in todo'
    BY <2>2
  <2>. QED BY <2>1, <2>3, <2>4, <2>5
<1>7. ASSUME NEW r \in Runs, Answer(r) PROVE Kept
  BY <1>7, <1>0, <1>o DEF Answer, AnswerInput, Later
<1>8. ASSUME NEW r \in Runs, Cancel(r) PROVE Kept
  <2>1. /\ status' = [status EXCEPT ![r] = "canceled"] /\ latched' = latched
        /\ todo' = todo \cup {[effect |-> "interrupt_provider", run |-> r]} /\ driveOf' = driveOf
    BY <1>8 DEF Cancel, CancelRun, FinishRuns, Later
  <2>2. driveOf[o] # r
    <3>1. SUFFICES ASSUME driveOf[o] = r PROVE FALSE
      OBVIOUS
    <3>2. [effect |-> "interrupt_provider", run |-> driveOf[o]] \in todo'
      BY <2>1, <3>1
    <3>. QED BY <2>1, <3>2
  <2>3. \A e : e \in todo => e \in todo'
    BY <2>1
  <2>. QED BY <2>1, <2>2, <2>3
<1>9. ASSUME Stop PROVE Kept
  <2>1. [effect |-> "interrupt_provider", run |-> NoRun] \in todo'
    BY <1>9 DEF Stop, Later
  <2>. QED BY <2>1
<1>10. ASSUME NEW r \in Runs, DispatchTool(r) PROVE Kept
  BY <1>10, <1>0, <1>o DEF DispatchTool, Applied, Answered
<1>11. ASSUME NEW r \in Runs, RejectTool(r) PROVE Kept
  <2>1. /\ stage' = [e \in Drives |-> IF driveOf[e] = r /\ stage[e] \in Live
                                     THEN IF stage[e] = "yielding" THEN "lost" ELSE "idle"
                                     ELSE stage[e]]
        /\ asked' = [e \in Drives |-> IF driveOf[e] = r /\ stage[e] \in Live THEN "none" ELSE asked[e]]
        /\ UNCHANGED <<driveOf, turn, ran, replayed>>
    BY <1>11 DEF RejectTool, Interrupt, Hush
  <2>2. /\ UNCHANGED <<latched, status, frozen, loading, approval, approvalRun>>
        /\ [effect |-> "reject_tool", run |-> r] \in todo
        /\ todo' = todo \ {[effect |-> "reject_tool", run |-> r]}
    BY <1>11 DEF RejectTool, Applied, vars, runVars, approvalVars
  <2>3. driveOf[o] # r
    BY <2>1, <1>o
  <2>4. \A e : e \in todo /\ e.run \in {driveOf[o], NoRun} => e \in todo'
    BY <2>2, <2>3, <1>o, IdentityAssumption
  <2>. QED BY <2>1, <2>2, <2>4
<1>12. ASSUME NEW r \in Runs, ResumeInput(r) PROVE Kept
  BY <1>12, <1>0, <1>o DEF ResumeInput, Applied, Answered
<1>13. ASSUME NEW r \in Runs, InterruptProvider(r) PROVE Kept
  <2>1. /\ stage' = [e \in Drives |-> IF driveOf[e] = r /\ stage[e] \in Live
                                     THEN IF stage[e] = "yielding" THEN "lost" ELSE "idle"
                                     ELSE stage[e]]
        /\ asked' = [e \in Drives |-> IF driveOf[e] = r /\ stage[e] \in Live THEN "none" ELSE asked[e]]
        /\ UNCHANGED <<driveOf, turn, ran, replayed>>
    BY <1>13 DEF InterruptProvider, Interrupt, Hush
  <2>2. /\ UNCHANGED <<latched, status, frozen, loading, approval, approvalRun>>
        /\ [effect |-> "interrupt_provider", run |-> r] \in todo
        /\ todo' = todo \ {[effect |-> "interrupt_provider", run |-> r]}
    BY <1>13 DEF InterruptProvider, Applied, vars, runVars, approvalVars
  <2>3. driveOf[o] # r
    BY <2>1, <1>o
  <2>4. \A e : e \in todo /\ e.run \in {driveOf[o], NoRun} => e \in todo'
    BY <2>2, <2>3, <1>o, IdentityAssumption
  <2>. QED BY <2>1, <2>2, <2>4
<1>14. ASSUME InterruptAll PROVE Kept
  <2>1. /\ stage' = [e \in Drives |-> IF driveOf[e] \in Runs /\ stage[e] \in Live
                                     THEN IF stage[e] = "yielding" THEN "lost" ELSE "idle"
                                     ELSE stage[e]]
        /\ asked' = [e \in Drives |-> IF driveOf[e] \in Runs /\ stage[e] \in Live THEN "none" ELSE asked[e]]
        /\ UNCHANGED <<driveOf, turn, ran, replayed>>
    BY <1>14 DEF InterruptAll, Interrupt, Hush
  <2>2. /\ UNCHANGED <<latched, status, frozen, loading, approval, approvalRun>>
        /\ [effect |-> "interrupt_provider", run |-> NoRun] \in todo
        /\ todo' = todo \ {[effect |-> "interrupt_provider", run |-> NoRun]}
    BY <1>14 DEF InterruptAll, Applied, vars, runVars, approvalVars
  <2>. QED BY <2>1, <2>2, <1>0, <1>o
<1>15. ASSUME NEW d \in Drives, BriefFails(d) PROVE Kept
  <2>1. driveOf[d] \in Runs /\ stage[d] = "checking"
    BY <1>15 DEF BriefFails
  <2>2. /\ stage' = [stage EXCEPT ![d] = "idle"] /\ asked' = asked
        /\ UNCHANGED <<driveOf, turn, todo, ran, replayed>>
    BY <1>15, <2>1, ReturnEffect DEF BriefFails
  <2>3. Harmless(driveOf[d]) /\ status'[driveOf[d]] \notin ActiveStatus
        /\ (Ended(driveOf[d]) => ~loading'[driveOf[d]])
    BY <1>15, <2>1, EngineFailEffect DEF BriefFails
  <2>. QED BY <2>1, <2>2, <2>3, <1>0, <1>o DEF BusyWithRun, Ended, Harmless
<1>16. ASSUME NEW d \in Drives, ReadSnapshot(d) PROVE Kept
  BY <1>16, <1>0, <1>o DEF ReadSnapshot
<1>17. ASSUME NEW d \in Drives, LoadRefused(d) PROVE Kept
  <2>1. driveOf[d] \in Runs /\ stage[d] = "spawning" /\ turn[d] = "load"
    BY <1>17 DEF LoadRefused
  <2>2. /\ stage' = [stage EXCEPT ![d] = "idle"] /\ asked' = asked
        /\ UNCHANGED <<driveOf, turn, todo, ran, replayed>>
    BY <1>17, <2>1, ReturnEffect DEF LoadRefused
  <2>3. UNCHANGED vars /\ ~(loading[driveOf[d]] /\ ~latched)
    BY <1>17, <2>1 DEF LoadRefused
  <2>. QED BY <2>1, <2>2, <2>3, <1>0, <1>o
<1>18. ASSUME NEW d \in Drives, Spawn(d) PROVE Kept
  <2>1. /\ driveOf[d] \in Runs /\ stage[d] = "spawning" /\ SessionOf(driveOf[d]) = {}
        /\ UNCHANGED <<driveOf, turn, todo, ran, replayed>>
    BY <1>18 DEF Spawn
  <2>2. CASE stage' = [stage EXCEPT ![d] = "starting"]
    <3>1. asked' = asked /\ UNCHANGED <<latched, status, frozen, loading, approval, approvalRun>>
      BY <1>18, <2>1, <2>2 DEF Spawn, BumpAction, Interrupt, vars, runVars, approvalVars
    <3>2. stage'[d] = "starting" /\ \A e \in Drives : e # d => stage'[e] = stage[e]
      BY <2>2
    <3>3. asked[d] = "none" /\ \A e \in Drives : asked[e] # "none" => stage'[e] = "prompting"
      BY <2>1, <3>2, <1>0, <1>o DEF TurnsFit, Harmless
    <3>. QED BY <2>1, <2>2, <3>1, <3>2, <3>3, <1>0, <1>o DEF TurnsFit, Harmless
  <2>3. CASE Interrupt({}, {d}) /\ FailIfActive(driveOf[d]) /\ turn[d] = "decision"
    <3>1. stage' = [stage EXCEPT ![d] = "idle"] /\ asked' = asked
      BY <2>1, <2>3, ReturnEffect
    <3>2. Harmless(driveOf[d])
      BY <2>1, <2>3, FailIfActiveEffect
    <3>. QED BY <2>1, <2>3, <3>1, <3>2, <1>0, <1>o DEF TurnsFit, Harmless
  <2>. QED BY <1>18, <2>2, <2>3 DEF Spawn
<1>19. ASSUME NEW d \in Drives, SpawnFails(d) PROVE Kept
  <2>1. driveOf[d] \in Runs /\ stage[d] = "spawning"
    BY <1>19 DEF SpawnFails
  <2>2. /\ stage' = [e \in Drives |-> IF e = d THEN "idle"
                                     ELSE IF driveOf[e] = driveOf[d] /\ stage[e] \in Live
                                     THEN IF stage[e] = "yielding" THEN "lost" ELSE "idle"
                                     ELSE stage[e]]
        /\ asked' = [e \in Drives |-> IF driveOf[e] = driveOf[d] /\ stage[e] \in Live THEN "none"
                                     ELSE asked[e]]
        /\ UNCHANGED <<driveOf, turn, todo, ran, replayed>>
    BY <1>19 DEF SpawnFails, Interrupt, Hush
  <2>3. Harmless(driveOf[d]) /\ status'[driveOf[d]] \notin ActiveStatus
        /\ (Ended(driveOf[d]) => ~loading'[driveOf[d]])
    BY <1>19, <2>1, EngineFailEffect, EndLoadEffect DEF SpawnFails, BusyWithRun, Ended
  <2>. QED BY <2>1, <2>2, <2>3, <1>0, <1>o DEF Harmless
<1>20. ASSUME NEW d \in Drives, TimerFires(d) PROVE Kept
  <2>1. driveOf[d] \in Runs /\ stage[d] \in Live /\ TRUE
    BY <1>20 DEF TimerFires
  <2>2. /\ stage' = [stage EXCEPT ![d] = IF stage[d] = "yielding" THEN "lost" ELSE "idle"]
        /\ asked' = [asked EXCEPT ![d] = "none"]
        /\ UNCHANGED <<driveOf, turn, todo, ran, replayed>>
    BY <1>20, <2>1, CloseEffect DEF TimerFires
  <2>3. Harmless(driveOf[d]) /\ status'[driveOf[d]] \notin ActiveStatus
        /\ (turn[d] = "load" => ~loading'[driveOf[d]])
    BY <1>20, <2>1, ClaudeFailEffect DEF TimerFires, DriveInv, BusyWithRun
  <2>. QED BY <2>1, <2>2, <2>3, <1>0, <1>o DEF OneSession, Harmless
<1>21. ASSUME NEW d \in Drives, Claims(d) PROVE Kept
  <2>1. /\ driveOf[d] \in Runs /\ stage[d] \in {"yielding", "lost"}
        /\ UNCHANGED <<driveOf, todo, ran, replayed>>
    BY <1>21 DEF Claims
  <2>2. CASE DraftClaimable(driveOf[d])
    <3>1. /\ stage' = [stage EXCEPT ![d] = "starting"] /\ turn' = [turn EXCEPT ![d] = "draft"]
          /\ UNCHANGED asked /\ UNCHANGED <<latched, status, frozen, loading, approval, approvalRun>>
          /\ draft' = [draft EXCEPT ![driveOf[d]] = "claimed"] /\ UNCHANGED <<handoff, offer>>
      BY <1>21, <2>2 DEF Claims, ClaimDraft, approvalVars, handoffVars
    <3>. QED BY <2>1, <2>2, <3>1, <1>0, <1>o DEF DraftClaimable
  <2>3. CASE ~DraftClaimable(driveOf[d])
    <3>1. /\ stage' = [stage EXCEPT ![d] = "idle"] /\ UNCHANGED <<turn, asked>> /\ UNCHANGED <<latched, status, frozen, loading, approval, approvalRun>>
      BY <1>21, <2>1, <2>3, ReturnEffect DEF Claims, vars, runVars, approvalVars
    <3>. QED BY <2>1, <2>3, <3>1, <1>0, <1>o
  <2>. QED BY <2>2, <2>3
<1>22. ASSUME NEW d \in Drives, NativeInit(d) PROVE Kept
  <2>1. /\ driveOf[d] \in Runs /\ stage[d] = "starting" /\ turn[d] # "load"
        /\ UNCHANGED <<driveOf, turn, todo, ran, replayed>>
    BY <1>22 DEF NativeInit
  <2>2. CASE turn[d] = "draft"
    <3>1. UNCHANGED <<latched, status, frozen, loading, approval, approvalRun, asked>>
          /\ stage' = [stage EXCEPT ![d] = "prompting"]
      BY <1>22, <2>2 DEF NativeInit, vars, runVars, approvalVars
    <3>. QED BY <2>1, <2>2, <3>1, <1>0, <1>o
  <2>3. CASE turn[d] # "draft" /\ Active(driveOf[d])
    <3>1. /\ UNCHANGED <<latched, frozen, loading, approval, approvalRun, asked>>
          /\ status' = [status EXCEPT ![driveOf[d]] = "running"]
          /\ stage' = [stage EXCEPT ![d] = "prompting"]
      BY <1>22, <2>3 DEF NativeInit, MarkRunning, approvalVars
    <3>. QED BY <2>1, <2>3, <3>1, <1>0, <1>o
  <2>4. CASE turn[d] # "draft" /\ ~Active(driveOf[d])
    <3>1. /\ stage' = [stage EXCEPT ![d] = "idle"]
          /\ asked' = [asked EXCEPT ![d] = "none"]
          /\ UNCHANGED <<latched, status, frozen, loading, approval, approvalRun>>
      BY <1>22, <2>1, <2>4, CloseEffect DEF NativeInit, vars, runVars, approvalVars
    <3>. QED BY <2>1, <2>4, <3>1, <1>0, <1>o
  <2>. QED BY <2>2, <2>3, <2>4
<1>23. ASSUME NEW d \in Drives, AbortTool(d) \/ PermissionDenied(d) \/ \E n \in {"Bash",
    "AskUserQuestion"} : CanUseTool(d, n) PROVE Kept
  BY <1>23, <1>0, <1>o DEF AbortTool, PermissionDenied, CanUseTool
<1>24. ASSUME NEW d \in Drives, PermissionTooMuch(d) PROVE Kept
  <2>1. driveOf[d] \in Runs /\ stage[d] \in Live /\ stage[d] = "prompting" /\ turn[d] = "only"
    BY <1>24 DEF PermissionTooMuch, Grantable
  <2>2. /\ stage' = [stage EXCEPT ![d] = IF stage[d] = "yielding" THEN "lost" ELSE "idle"]
        /\ asked' = [asked EXCEPT ![d] = "none"]
        /\ UNCHANGED <<driveOf, turn, todo, ran, replayed>>
    BY <1>24, <2>1, CloseEffect DEF PermissionTooMuch
  <2>3. Harmless(driveOf[d]) /\ status'[driveOf[d]] \notin ActiveStatus
    BY <1>24, <2>1, FailIfActiveEffect DEF PermissionTooMuch
  <2>. QED BY <2>1, <2>2, <2>3, <1>0, <1>o DEF Harmless
<1>25. ASSUME NEW d \in Drives, NEW a \in Approvals, AskApproval(d, a) PROVE Kept
  BY <1>25, <1>0, <1>o DEF AskApproval, RequestApproval, Received, Grantable
<1>26. ASSUME NEW d \in Drives, AskInput(d) PROVE Kept
  BY <1>26, <1>0, <1>o DEF AskInput, AskQuestion, Received, Grantable
<1>27. ASSUME NEW d \in Drives, ProviderFails(d) PROVE Kept
  <2>1. driveOf[d] \in Runs /\ stage[d] \in Live /\ TRUE
    BY <1>27 DEF ProviderFails
  <2>2. /\ stage' = [stage EXCEPT ![d] = IF stage[d] = "yielding" THEN "lost" ELSE "idle"]
        /\ asked' = [asked EXCEPT ![d] = "none"]
        /\ UNCHANGED <<driveOf, turn, todo, ran, replayed>>
    BY <1>27, <2>1, CloseEffect DEF ProviderFails
  <2>3. Harmless(driveOf[d]) /\ status'[driveOf[d]] \notin ActiveStatus
        /\ (turn[d] = "load" => ~loading'[driveOf[d]])
    BY <1>27, <2>1, ClaudeFailEffect DEF ProviderFails, DriveInv, BusyWithRun
  <2>. QED BY <2>1, <2>2, <2>3, <1>0, <1>o DEF OneSession, Harmless
<1>28. ASSUME NEW d \in Drives, HistoryLoaded(d) PROVE Kept
  <2>1. driveOf[d] \in Runs /\ stage[d] \in Live /\ stage[d] = "starting" /\ turn[d] = "load"
    BY <1>28 DEF HistoryLoaded
  <2>2. /\ stage' = [stage EXCEPT ![d] = IF stage[d] = "yielding" THEN "lost" ELSE "idle"]
        /\ asked' = [asked EXCEPT ![d] = "none"]
        /\ UNCHANGED <<driveOf, turn, todo, ran, replayed>>
    BY <1>28, <2>1, CloseEffect DEF HistoryLoaded
  <2>3. Harmless(driveOf[d]) /\ ~loading'[driveOf[d]] /\ status' = status
    BY <1>28, <2>1, EndLoadEffect DEF HistoryLoaded
  <2>. QED BY <2>1, <2>2, <2>3, <1>0, <1>o DEF Harmless
<1>29. ASSUME NEW d \in Drives, Completes(d) PROVE Kept
  <2>1. driveOf[d] \in Runs /\ stage[d] \in Live /\ stage[d] = "prompting" /\ turn[d] # "load"
    BY <1>29 DEF Completes
  <2>2. /\ stage' = [stage EXCEPT ![d] = IF stage[d] = "yielding" THEN "lost" ELSE "idle"]
        /\ asked' = [asked EXCEPT ![d] = "none"]
        /\ UNCHANGED <<driveOf, turn, todo, ran, replayed>>
    BY <1>29, <2>1, CloseEffect DEF Completes
  <2>3. /\ UNCHANGED <<latched, frozen, loading, approval, approvalRun>>
        /\ \/ ~Active(driveOf[d]) /\ UNCHANGED status
           \/ Active(driveOf[d]) /\ status' = [status EXCEPT ![driveOf[d]] = "succeeded"]
    BY <1>29, <2>1 DEF Completes, Complete, FinishRuns, vars, runVars, approvalVars
  <2>. QED BY <2>1, <2>2, <2>3, <1>0, <1>o
<1>30. ASSUME NEW d \in Drives, Accepts(d) PROVE Kept
  <2>1. /\ driveOf[d] \in Runs /\ stage[d] = "prompting" /\ turn[d] = "decision"
        /\ stage' = [stage EXCEPT ![d] = "yielding"]
        /\ UNCHANGED <<driveOf, turn, asked, todo, ran, replayed>> /\ UNCHANGED <<latched, status, frozen, loading, approval, approvalRun>>
    BY <1>30 DEF Accepts, AcceptOffer, approvalVars
  <2>. QED BY <2>1, <1>0, <1>o
<1>31. ASSUME NEW d \in Drives, Declines(d) PROVE Kept
  <2>1. driveOf[d] \in Runs /\ stage[d] \in Live /\ stage[d] = "prompting" /\ turn[d] = "decision"
    BY <1>31 DEF Declines
  <2>2. /\ stage' = [stage EXCEPT ![d] = IF stage[d] = "yielding" THEN "lost" ELSE "idle"]
        /\ asked' = [asked EXCEPT ![d] = "none"]
        /\ UNCHANGED <<driveOf, turn, todo, ran, replayed>>
    BY <1>31, <2>1, CloseEffect DEF Declines
  <2>3. Harmless(driveOf[d])
    BY <1>31, <2>1 DEF Declines, RejectOffer, DecideTooLate, CloseOfferOf, FinishRuns, Harmless, vars, runVars, approvalVars
  <2>. QED BY <2>1, <2>2, <2>3, <1>0, <1>o DEF Harmless
<1>32. ASSUME NEW r \in Runs, MaraStep(r) PROVE Kept
  <2>1. /\ frozen[r].bot = "mara" /\ UNCHANGED driverVars
        /\ UNCHANGED <<latched, frozen, approval, approvalRun>>
        /\ \A q \in Runs :
             /\ status'[q] # status[q] => q = r /\ Active(r) /\ status'[q] \in {"running", "succeeded", "failed"}
             /\ loading'[q] => loading[q]
    BY <1>32 DEF MaraStep, MarkRunning, Complete, FailRun, EndLoad, FinishRuns, approvalVars
  <2>. QED BY <2>1, <1>0, <1>o DEF driverVars
<1>33. ASSUME SweepAndInterrupt PROVE Kept
  <2>1. /\ stage' = [e \in Drives |-> IF driveOf[e] \in SweptRuns /\ stage[e] \in Live
                                     THEN IF stage[e] = "yielding" THEN "lost" ELSE "idle"
                                     ELSE stage[e]]
        /\ asked' = [e \in Drives |-> IF driveOf[e] \in SweptRuns /\ stage[e] \in Live THEN "none" ELSE asked[e]]
        /\ UNCHANGED <<driveOf, turn, ran, replayed>>
    BY <1>33 DEF SweepAndInterrupt, Interrupt, Hush
  <2>2. /\ status' = [r \in Runs |-> IF r \in SweptRuns THEN "failed" ELSE status[r]]
        /\ \A a \in Approvals : approval'[a] # approval[a] => approval'[a] = "expired"
        /\ UNCHANGED <<latched, frozen, loading, approvalRun, todo>>
    BY <1>33, SweepEffect DEF SweepAndInterrupt
  <2>. QED BY <2>1, <2>2, <1>0, <1>o
<1>34. ASSUME Restart PROVE Kept
  BY <1>34, <1>0, <1>o DEF Restart, InterruptActive, ActiveRuns, Hush
<1>35. ASSUME Time PROVE Kept
  BY <1>35, <1>0, <1>o DEF Time, Tick, driverVars
<1>. QED BY <1>1, <1>2, <1>3, <1>4, <1>5, <1>6, <1>7, <1>8, <1>9, <1>10, <1>11, <1>12, <1>13,
    <1>14, <1>15, <1>16, <1>17, <1>18, <1>19, <1>20, <1>21, <1>22, <1>23, <1>24, <1>25, <1>26,
    <1>27, <1>28, <1>29, <1>30, <1>31, <1>32, <1>33, <1>34, <1>35 DEF DriverNext, Command,
    ApplyEffect, Proceed, Provider, Resolve

-----------------------------------------------------------------------------
(* The invariant of the driver, and what follows from it                   *)

LEMMA LoadingStays ==
  ASSUME StoreInv, RunMoves, RecordsStand, DriveInv, EndsAreDue, LoadingHasLoader, DriverNext
  PROVE  LoadingHasLoader'
<1>1. SUFFICES ASSUME NEW r \in Runs, frozen'[r].bot = "ivo", loading'[r],
                      status'[r] \in {"succeeded", "interrupted"}
               PROVE  \E d \in Drives : Loads(d, r)'
  BY DEF LoadingHasLoader, Loads
<1>2. CASE /\ loading[r] /\ status'[r] = status[r] /\ frozen[r].bot = "ivo"
           /\ \A d \in Drives : Loads(d, r) => Loads(d, r)'
  <2>1. PICK d \in Drives : Loads(d, r)
    BY <1>1, <1>2 DEF LoadingHasLoader, Loads
  <2>. QED BY <1>2, <2>1
<1>. QED BY <1>1, <1>2, LoadersStay

LEMMA TurnsServe ==
  ASSUME StoreInv, DriveInv, DriveMoves, TwoNeedReplay, TurnServes, DriverNext
  PROVE  TurnServes'
<1>1. SUFFICES ASSUME NEW d \in Drives, Serves(d)', ~Active(driveOf[d])', ~EndIsDue(driveOf[d])'
               PROVE  driveOf'[d] \in replayed'
  BY DEF TurnServes
<1>2. /\ Serves(d) /\ driveOf'[d] = driveOf[d] /\ stage'[d] \in Live
  BY <1>1 DEF Serves, Live, DriveMoves, Enters, Reads, Spawns, Reports, Yields, Redrafts, Loses, Ends,
     DriveInv, TurnsFit, MemoryType, DriveType
<1>3. replayed \subseteq replayed'
  BY BeginsAlone DEF OneBegins, DriveInv
<1>4. CASE ~Active(driveOf[d]) /\ ~EndIsDue(driveOf[d])
  BY <1>2, <1>3, <1>4 DEF TurnServes
<1>5. CASE \E e \in Drives : e # d /\ turn[e] # "load" /\ stage[e] # "idle" /\ driveOf[e] = driveOf[d]
  BY <1>2, <1>3, <1>5 DEF TwoNeedReplay, Serves
<1>. QED BY <1>1, <1>2, <1>4, <1>5, EndStep

DriverInv ==
  DriveInv /\ EndsAreDue /\ RequestInv /\ RanInv /\ TwoNeedReplay /\ LoadingHasLoader /\ TurnServes

LEMMA DriverInvStep ==
  ASSUME StoreInv, DriverInv, [DriverNext]_allVars, StoreInv'
  PROVE  DriverInv'
<1>1. /\ DriveType /\ DriveInv /\ EndsAreDue /\ RequestInv /\ RanInv /\ TwoNeedReplay
      /\ LoadingHasLoader /\ TurnServes
  BY DEF DriverInv, DriveInv, MemoryType
<1>2. RunMoves /\ DecisionStands /\ RecordsStand /\ DriveType'
  BY <1>1, StoreStep, StoreMoves, DriveTypeStep
<1>3. EndsAreDue'
  BY <1>1, <1>2, EndsAreDueStep
<1>4. CASE DriverNext
  <2>1. DriveMoves
    BY <1>1, <1>2, <1>4, DriveMovesStep
  <2>2. DriveInv'
    BY <1>1, <1>2, <2>1, DriveInvStep
  <2>3. RequestInv'
    BY <1>1, <1>2, <1>3, <1>4, <2>1, <2>2, RequestStep
  <2>4. RanInv' /\ TwoNeedReplay' /\ LoadingHasLoader' /\ TurnServes'
    BY <1>1, <1>2, <1>4, <2>1, RanStep, TwoStep, LoadingStays, TurnsServe
  <2>. QED BY <1>3, <2>2, <2>3, <2>4 DEF DriverInv
<1>5. CASE UNCHANGED allVars
  <2> USE <1>1, <1>5 DEF allVars, driverVars, vars, runVars, approvalVars, handoffVars
  <2>1. DriveInv'
    BY DEF DriveInv, MemoryType, DriveType, OneSession, BusyWithRun, Ended, TurnsFit, DraftClaimed, Active
  <2>2. RequestInv'
    BY DEF RequestInv, PendingHasAsker, InputHasAsker, DispatchMeetsAllowed, ResumeMeetsInput, Due,
       SessionOf
  <2>3. RanInv' /\ TwoNeedReplay' /\ LoadingHasLoader' /\ TurnServes'
    BY DEF RanInv, RanWasAllowed, TwoNeedReplay, LoadingHasLoader, TurnServes, Serves, Active, EndIsDue
  <2>. QED BY <1>3, <2>1, <2>2, <2>3 DEF DriverInv
<1>. QED BY <1>4, <1>5

LEMMA DriverInvInit == DriverInit => DriverInv
<1> SUFFICES ASSUME DriverInit PROVE DriverInv
  OBVIOUS
<1> USE DEF DriverInit, Init, Live, Stage, SessionOf
<1>1. DriveInv
  BY DEF DriveInv, MemoryType, DriveType, OneSession, BusyWithRun, TurnsFit, DraftClaimed
<1>2. EndsAreDue /\ RanInv /\ TwoNeedReplay /\ LoadingHasLoader /\ TurnServes
  BY DEF EndsAreDue, RanInv, RanWasAllowed, TwoNeedReplay, LoadingHasLoader, TurnServes, Serves
<1>3. RequestInv
  BY DEF RequestInv, PendingHasAsker, InputHasAsker, DispatchMeetsAllowed, ResumeMeetsInput, Due,
     ActiveStatus
<1>. QED BY <1>1, <1>2, <1>3 DEF DriverInv

LEMMA DriverHolds == DriverSpec => [](StoreInv /\ DriverInv)
<1>1. DriverSpec => []StoreInv
  BY ClaudeImplementsStore, StoreHolds, PTL
<1>2. StoreInv /\ DriverInv /\ [DriverNext]_allVars /\ StoreInv' => DriverInv'
  BY DriverInvStep
<1>. QED BY <1>1, <1>2, DriverInvInit, PTL DEF DriverSpec

\* The bridge is never told to run a tool that the owner has not allowed, although the
\* decision goes to whatever the session holds when it is applied, in whatever order
\* decisions, aborts, requests, retries and restarts interleave (claude.ts:84-89, 157-221).
THEOREM RunsWhatIsAllowed == DriverSpec => []RanWasAllowed
<1>1. DriverInv => RanWasAllowed
  BY DEF DriverInv, RanInv
<1>. QED BY <1>1, DriverHolds, PTL

\* Nobody works on a run that is over unless it was launched twice or is about to be
\* stopped; a draft is prompted only by the owner of its task; and who waits or loads has
\* the session that this takes (claude.ts:222-400).
THEOREM SessionsFit == DriverSpec => []SessionsFitRuns
<1>1. ASSUME StoreInv, DriverInv PROVE SessionsFitRuns
  <2>1. TurnHasRun
    BY <1>1 DEF DriverInv, TurnServes, Serves, TurnHasRun
  <2>2. DraftIsOwned
    BY <1>1 DEF DriverInv, DriveInv, DraftClaimed, TurnsFit, DraftIsOwned, DraftClaimable
  <2>3. WaitingHasAsker
    <3> SUFFICES ASSUME NEW r \in Runs, status[r] \in {"waiting_approval", "waiting_input"}
                 PROVE  \E d \in SessionOf(r) : asked[d] # "none"
      BY DEF WaitingHasAsker
    <3>1. CASE status[r] = "waiting_input"
      BY <1>1, <3>1 DEF DriverInv, RequestInv, InputHasAsker
    <3>2. CASE status[r] = "waiting_approval"
      <4>1. PICK a \in Approvals : approvalRun[a] = r /\ approval[a] = "pending"
        BY <1>1, <3>2 DEF StoreInv, RowsAgree, WaitingHasRequest
      <4>2. PICK d \in SessionOf(r) : asked[d] = a
        BY <1>1, <3>2, <4>1 DEF DriverInv, RequestInv, PendingHasAsker, ActiveStatus
      <4>. QED BY <4>2, RequestAssumption
    <3>. QED BY <3>1, <3>2
  <2>4. LoadingHasLoader
    BY <1>1 DEF DriverInv
  <2>. QED BY <2>1, <2>2, <2>3, <2>4 DEF SessionsFitRuns
<1>. QED BY <1>1, DriverHolds, PTL
=============================================================================
