---------------------------- MODULE CodexDriver ----------------------------
(***************************************************************************)
(* The Codex driver (codex.ts) and the engine that applies the effects of  *)
(* command receipts (engine.ts), on top of the store.                      *)
(*                                                                         *)
(* A drive is one HTTP handler inside spawnCodex: it waits for the version *)
(* check, spawns the app server of its run, performs the handshake and     *)
(* starts a turn.  Afterwards the session lives in the sessions map and    *)
(* reacts to the provider's messages, while other handlers apply           *)
(* approvals, answers and interrupts to it.  Every action is a stretch of  *)
(* code between two awaits and contains at most one transaction of the     *)
(* store.                                                                  *)
(*                                                                         *)
(* The boundary is Docker.  A run has at most one session there: the name  *)
(* of its provider network is taken while a session lives, so a second     *)
(* spawn throws (provider.ts).  Tasks are not handed over here: a          *)
(* recipient is driven by claude.ts.                                       *)
(***************************************************************************)
EXTENDS RunStore

CONSTANTS
  Drives,   \* handlers that may be inside spawnCodex at one time
  MayReplay \* whether the owner retries submissions

ASSUME DriveAssumption ==
  /\ MayReplay \in BOOLEAN
  /\ "native" \in Providers

\* A session that asks for nothing, or for input, is told from one with an approval
ASSUME RequestAssumption == "none" \notin Approvals /\ "input" \notin Approvals

VARIABLES
  stage,    \* how far the drive is
  driveOf,  \* input.runId
  kind,     \* input.loadSession
  asked,    \* session.pendingServerRequest: the approval or input it asks for
  todo,     \* effects of committed receipts that are not applied yet
  accepted, \* approvals whose request was answered with "accept" (history)
  replayed, \* runs whose submission was retried while launch-pending (history)
  cut       \* runs shown as loading whose load a notice about a turn cut short (history)

driverVars == <<stage, driveOf, kind, asked, todo, accepted, replayed, cut>>
allVars    == <<vars, driverVars>>

\* idle: free; checking: waits for readVersion; handshake: waits for initialize,
\* account/read, thread/start, or thread/resume and the history pages; starting:
\* waits for turn/start; turn: the handler has returned and the session lives on;
\* rejected: the session was dropped and the pending request rejects
Stage == {"idle", "checking", "handshake", "starting", "turn", "rejected"}

Live == {"handshake", "starting", "turn"}

Effect == {"dispatch_tool", "reject_tool", "resume_input", "interrupt_provider"}

DriverTypeOK ==
  /\ TypeOK
  /\ stage \in [Drives -> Stage]
  /\ driveOf \in [Drives -> Runs \cup {NoRun}]
  /\ kind \in [Drives -> {"launch", "load"}]
  /\ asked \in [Drives -> Approvals \cup {"none", "input"}]
  /\ todo \subseteq [effect : Effect, run : Runs \cup {NoRun}]
  /\ accepted \subseteq Approvals
  /\ replayed \subseteq Runs
  /\ cut \subseteq Runs

\* sessions.get(r), as a set of at most one drive
SessionOf(r) == {d \in Drives : driveOf[d] = r /\ stage[d] \in Live}

-----------------------------------------------------------------------------
(* Parts of the handlers                                                   *)

\* A new handler enters spawnCodex
Begin(d, r, k) ==
  /\ stage[d] = "idle"
  /\ stage' = [stage EXCEPT ![d] = "checking"]
  /\ driveOf' = [driveOf EXCEPT ![d] = r]
  /\ kind' = [kind EXCEPT ![d] = k]

\* The handler or the session of d ends
End(d) ==
  /\ stage' = [stage EXCEPT ![d] = "idle"]
  /\ asked' = [asked EXCEPT ![d] = "none"]

\* dropSession for the runs of S; a request that waits rejects
DropSessions(S) ==
  LET dropped == {d \in Drives : driveOf[d] \in S /\ stage[d] \in Live} IN
  /\ stage' = [d \in Drives |->
       IF d \notin dropped THEN stage[d]
       ELSE IF stage[d] = "turn" THEN "idle" ELSE "rejected"]
  /\ asked' = [d \in Drives |-> IF d \in dropped THEN "none" ELSE asked[d]]

\* mutateForEngine.fail, which does nothing for a run that is not active
FailIfActive_Running(r) ==
  IF status[r] = "running" THEN FailRun(r) ELSE UNCHANGED vars

FailIfActive(r) == IF Active(r) THEN FailRun(r) ELSE UNCHANGED vars

\* providerState with loadStatus 'failed' or 'succeeded'
EndLoadIfLoading(r) == IF loading[r] THEN EndLoad(r) ELSE UNCHANGED vars

\* failRun of codex.ts
CodexFail(d) ==
  IF kind[d] = "load" THEN EndLoadIfLoading(driveOf[d]) ELSE FailIfActive(driveOf[d])

\* failRun of engine.ts, which also ends a load of the run that is under way
EngineFail(r) == IF Active(r) THEN FailRun(r) ELSE EndLoadIfLoading(r)

\* The receipt's effects wait to be applied
Later(e, r) == todo' = todo \cup {[effect |-> e, run |-> r]}

-----------------------------------------------------------------------------
(* Commands: the transaction, and what its handler goes on with            *)

Submit(r, t, b, d) ==
  /\ SubmitTask(r, t, b, "native")
  /\ Begin(d, r, "launch")
  /\ UNCHANGED <<asked, todo, accepted, replayed, cut>>

\* A retried submission whose launch intent is still pending drives the run again
Replay(r, d) ==
  /\ MayReplay /\ launch[r] = "pending"
  /\ Begin(d, r, "launch")
  /\ replayed' = replayed \cup {r}
  /\ UNCHANGED <<vars, asked, todo, accepted, cut>>

Load(r, d) ==
  /\ LoadSession(r)
  /\ Begin(d, r, "load")
  /\ cut' = cut \ {r}
  /\ UNCHANGED <<asked, todo, accepted, replayed>>

Resolve(a) ==
  /\ \/ AllowApproval(a) /\ Later("dispatch_tool", approvalRun[a])
     \/ DenyApproval(a) /\ Later("reject_tool", approvalRun[a])
     \/ ResolveTooLate(a) /\ Later("interrupt_provider", approvalRun[a])
  /\ UNCHANGED <<stage, driveOf, kind, asked, accepted, replayed, cut>>

Answer(r) ==
  /\ AnswerInput(r) /\ Later("resume_input", r)
  /\ UNCHANGED <<stage, driveOf, kind, asked, accepted, replayed, cut>>

Cancel(r) ==
  /\ CancelRun(r) /\ Later("interrupt_provider", r)
  /\ UNCHANGED <<stage, driveOf, kind, asked, accepted, replayed, cut>>

Stop ==
  /\ StopAll /\ Later("interrupt_provider", NoRun)
  /\ cut' = {}
  /\ UNCHANGED <<stage, driveOf, kind, asked, accepted, replayed>>

-----------------------------------------------------------------------------
(* applyReceiptEffects after the commit                                    *)

Applied(e) == e \in todo /\ todo' = todo \ {e}

\* resolveCodexApproval answers whatever request the session has pending
DispatchTool(r) ==
  /\ Applied([effect |-> "dispatch_tool", run |-> r])
  /\ accepted' = accepted \cup {a \in Approvals : \E d \in SessionOf(r) : asked[d] = a}
  /\ asked' = [d \in Drives |-> IF d \in SessionOf(r) THEN "none" ELSE asked[d]]
  /\ UNCHANGED <<vars, stage, driveOf, kind, replayed, cut>>

RejectTool(r) ==
  /\ Applied([effect |-> "reject_tool", run |-> r])
  /\ DropSessions({s \in {r} : \E d \in SessionOf(s) : asked[d] # "none"})
  /\ UNCHANGED <<vars, driveOf, kind, accepted, replayed, cut>>

ResumeInput(r) ==
  /\ Applied([effect |-> "resume_input", run |-> r])
  /\ asked' = [d \in Drives |-> IF d \in SessionOf(r) THEN "none" ELSE asked[d]]
  /\ UNCHANGED <<vars, stage, driveOf, kind, accepted, replayed, cut>>

\* interruptCodex of one run
InterruptProvider(r) ==
  /\ Applied([effect |-> "interrupt_provider", run |-> r])
  /\ DropSessions({r})
  /\ UNCHANGED <<vars, driveOf, kind, accepted, replayed, cut>>

\* interruptAllCodex
InterruptAll ==
  /\ Applied([effect |-> "interrupt_provider", run |-> NoRun])
  /\ DropSessions(Runs)
  /\ UNCHANGED <<vars, driveOf, kind, accepted, replayed, cut>>

-----------------------------------------------------------------------------
(* spawnCodex                                                              *)

\* providerBrief finds the materialized source changed
BriefFails(d) ==
  /\ stage[d] = "checking"
  /\ EngineFail(driveOf[d])
  /\ End(d)
  /\ UNCHANGED <<driveOf, kind, todo, accepted, replayed, cut>>

\* The guard after the version check
Permitted_Unchecked(d) == TRUE

Permitted(d) ==
  IF kind[d] = "load" THEN loading[driveOf[d]] /\ ~latched ELSE Active(driveOf[d])

SpawnRefused(d) ==
  /\ stage[d] = "checking" /\ ~Permitted(d)
  /\ End(d)
  /\ UNCHANGED <<vars, driveOf, kind, todo, accepted, replayed, cut>>

Spawn(d) ==
  /\ stage[d] = "checking" /\ Permitted(d)
  /\ SessionOf(driveOf[d]) = {}
  /\ stage' = [stage EXCEPT ![d] = "handshake"]
  /\ UNCHANGED <<vars, driveOf, kind, asked, todo, accepted, replayed, cut>>

\* readVersion or a Docker command fails.  While another session of the run lives
\* codex.ts leaves the run alone, but the engine fails it for a launch all the same.
SpawnFails(d) ==
  /\ stage[d] = "checking"
  /\ \/ kind[d] = "launch" /\ EngineFail(driveOf[d])
     \/ kind[d] = "load" /\ SessionOf(driveOf[d]) = {} /\ EndLoadIfLoading(driveOf[d])
     \/ kind[d] = "load" /\ SessionOf(driveOf[d]) # {} /\ UNCHANGED vars
  /\ End(d)
  /\ UNCHANGED <<driveOf, kind, todo, accepted, replayed, cut>>

\* The thread of a launch has started
ThreadStarts(d) ==
  /\ stage[d] = "handshake" /\ kind[d] = "launch"
  /\ IF Active(driveOf[d])
     THEN MarkRunning(driveOf[d]) /\ stage' = [stage EXCEPT ![d] = "starting"]
                                  /\ UNCHANGED asked
     ELSE End(d) /\ UNCHANGED vars
  /\ UNCHANGED <<driveOf, kind, todo, accepted, replayed, cut>>

\* The history of a load is complete
HistoryLoaded(d) ==
  /\ stage[d] = "handshake" /\ kind[d] = "load"
  /\ EndLoadIfLoading(driveOf[d])
  /\ End(d)
  /\ UNCHANGED <<driveOf, kind, todo, accepted, replayed, cut>>

\* turn/start is answered and the handler returns
TurnStarts(d) ==
  /\ stage[d] = "starting"
  /\ stage' = [stage EXCEPT ![d] = "turn"]
  /\ UNCHANGED <<vars, driveOf, kind, asked, todo, accepted, replayed, cut>>

\* A request of the session is answered with an error or times out
RequestFails(d) ==
  /\ stage[d] \in {"handshake", "starting"}
  /\ IF kind[d] = "launch" THEN EngineFail(driveOf[d]) ELSE CodexFail(d)
  /\ End(d)
  /\ UNCHANGED <<driveOf, kind, todo, accepted, replayed, cut>>

\* A request of a dropped session: codex.ts is not the owner any more; the engine
\* fails the run of a launch and swallows the error of a load
RejectionDue_Lost(d) == FALSE

RejectionDue(d) == stage[d] = "rejected"

Rejected(d) ==
  /\ RejectionDue(d)
  /\ IF kind[d] = "launch" THEN EngineFail(driveOf[d]) ELSE UNCHANGED vars
  /\ End(d)
  /\ UNCHANGED <<driveOf, kind, todo, accepted, replayed, cut>>

-----------------------------------------------------------------------------
(* Messages and events of the provider, in the session that owns the run.  The *)
(* app server may send them at any time, also before its thread or turn has    *)
(* started and while a history is loaded.                                      *)

\* A session that loads a history refuses every request for approval or input
TakesRequests(d) == stage[d] \in Live /\ kind[d] = "launch"

\* While a request awaits the owner, the next one is refused
Unasked_Ignored(d) == TRUE

Unasked(d) == asked[d] = "none"

\* requestApproval: bumpAction, then waitApproval
AskApproval(d, a) ==
  /\ TakesRequests(d) /\ Unasked(d)
  /\ RequestApproval(driveOf[d], a)
  /\ asked' = [asked EXCEPT ![d] = a]
  /\ UNCHANGED <<stage, driveOf, kind, todo, accepted, replayed, cut>>

\* requestApproval of a run that has ended or has no budget left
AskTooMuch(d) ==
  /\ TakesRequests(d) /\ Unasked(d)
  /\ ~(Active(driveOf[d]) /\ HasBudget(driveOf[d]))
  /\ FailIfActive(driveOf[d])
  /\ DropSessions({driveOf[d]})
  /\ UNCHANGED <<driveOf, kind, todo, accepted, replayed, cut>>

\* requestUserInput; waitInput does nothing for a run that has ended
AskInput(d) ==
  /\ TakesRequests(d) /\ Unasked(d)
  /\ IF Active(driveOf[d]) THEN RequestInput(driveOf[d]) ELSE UNCHANGED vars
  /\ asked' = [asked EXCEPT ![d] = "input"]
  /\ UNCHANGED <<stage, driveOf, kind, todo, accepted, replayed, cut>>

\* A notice that a turn is over ends the session, of a load too; but it ends no load,
\* and the request that then rejects finds that it is not the owner
TurnIsOver(d) ==
  /\ DropSessions({driveOf[d]})
  /\ cut' = cut \cup {r \in {driveOf[d]} : kind[d] = "load" /\ loading[r]}
  /\ UNCHANGED <<driveOf, kind, todo, accepted, replayed>>

\* turn/completed with a draft
TurnCompletes(d) ==
  /\ stage[d] \in Live
  /\ IF Active(driveOf[d]) THEN Complete(driveOf[d]) ELSE UNCHANGED vars
  /\ TurnIsOver(d)

\* turn/interrupted, and turn/completed with status 'interrupted'
TurnInterrupted(d) ==
  /\ stage[d] \in Live
  /\ FailIfActive(driveOf[d])
  /\ TurnIsOver(d)

\* The child exits, or reports an error, a failed turn, a turn without a draft, a
\* malformed plan or a malformed line
ProviderFails(d) ==
  /\ stage[d] \in Live
  /\ CodexFail(d)
  /\ DropSessions({driveOf[d]})
  /\ UNCHANGED <<driveOf, kind, todo, accepted, replayed, cut>>

-----------------------------------------------------------------------------
(* The daemon                                                              *)

\* applySweepEffects: the interrupts follow the transaction synchronously
SweptRuns ==
  {offer[t].recipient : t \in LapsedOffers} \cup OverdueRuns
    \cup {approvalRun[a] : a \in LateApprovals}

SweepAndInterrupt ==
  /\ Sweep
  /\ DropSessions(SweptRuns)
  /\ UNCHANGED <<driveOf, kind, todo, accepted, replayed, cut>>

\* The daemon dies or closes and starts again: memory is gone, interruptActive runs,
\* and the containers of all runs are removed
Restart ==
  /\ InterruptActive
  /\ stage' = [d \in Drives |-> "idle"]
  /\ asked' = [d \in Drives |-> "none"]
  /\ todo' = {}
  /\ cut' = {}
  /\ UNCHANGED <<driveOf, kind, accepted, replayed>>

Time == Tick /\ UNCHANGED driverVars

-----------------------------------------------------------------------------
DriverInit ==
  /\ Init
  /\ stage = [d \in Drives |-> "idle"]
  /\ driveOf = [d \in Drives |-> NoRun]
  /\ kind = [d \in Drives |-> "launch"]
  /\ asked = [d \in Drives |-> "none"]
  /\ todo = {}
  /\ accepted = {}
  /\ replayed = {}
  /\ cut = {}

Command ==
  \/ \E r \in Runs, d \in Drives :
       \/ \E t \in Tasks, b \in Bots : Submit(r, t, b, d)
       \/ Replay(r, d) \/ Load(r, d)
  \/ \E a \in Approvals : Resolve(a)
  \/ \E r \in Runs : Answer(r) \/ Cancel(r)
  \/ Stop

ApplyEffect ==
  \/ \E r \in Runs : DispatchTool(r) \/ RejectTool(r) \/ ResumeInput(r) \/ InterruptProvider(r)
  \/ InterruptAll

\* The steps by which a handler inside spawnCodex gets on without its provider
Proceed(d) ==
  \/ SpawnFails(d) \/ SpawnRefused(d) \/ Spawn(d) \/ BriefFails(d)
  \/ RequestFails(d) \/ Rejected(d)

Provider(d) ==
  \/ ThreadStarts(d) \/ HistoryLoaded(d) \/ TurnStarts(d)
  \/ \E a \in Approvals : AskApproval(d, a)
  \/ AskTooMuch(d) \/ AskInput(d)
  \/ TurnCompletes(d) \/ TurnInterrupted(d) \/ ProviderFails(d)

DriverNext ==
  \/ Command \/ ApplyEffect
  \/ \E d \in Drives : Proceed(d) \/ Provider(d)
  \/ SweepAndInterrupt \/ Restart \/ Time

DriverSpec == DriverInit /\ [][DriverNext]_allVars

\* Handlers go on: a committed receipt's effects are applied, Docker commands
\* return, and every request has a timer.  Nothing is assumed of the provider.
DriverFairness ==
  /\ \A r \in Runs : /\ WF_allVars(DispatchTool(r)) /\ WF_allVars(RejectTool(r))
                     /\ WF_allVars(ResumeInput(r)) /\ WF_allVars(InterruptProvider(r))
  /\ WF_allVars(InterruptAll)
  /\ \A d \in Drives : WF_allVars(Proceed(d))

FairDriverSpec == DriverSpec /\ DriverFairness

-----------------------------------------------------------------------------
(* Properties                                                              *)

\* The provider is told to go ahead only with the very request the owner allowed,
\* although the answer goes to whatever request is pending when the effect of the
\* command is applied (codex.ts:549-563, engine.ts:199-209; ADR 0001:37).
AcceptedIsAllowed == \A a \in accepted : approval[a] = "allowed"

\* An interrupt, or a refusal that drops the session, that is still to be applied to r
EndIsDue(r) ==
  \E e \in todo : /\ e.effect \in {"interrupt_provider", "reject_tool"}
                  /\ e.run \in {r, NoRun}

Orphan(d) == kind[d] = "launch" /\ stage[d] \in Live /\ ~Active(driveOf[d])
             /\ ~EndIsDue(driveOf[d])

\* A provider that works on no active run and that no pending effect will stop
\* exists only where a retried submission drove the run a second time: every other
\* end of a run, by the owner, the sweep, the provider or a failure, takes its
\* session down (codex.ts:135-148, http.ts:118-126).
OrphanNeedsReplay == \A d \in Drives : Orphan(d) => driveOf[d] \in replayed

\* Terminal run cleanup as docs/provider-setup.md:39 describes it: no provider whose
\* turn has started, and which no timer will stop any more, outlives its run.
TerminalCleanup == \A d \in Drives : ~(Orphan(d) /\ stage[d] = "turn")

\* A run that waits for the owner has a session that holds the request, so that the
\* decision or the answer reaches the provider (codex.ts:432-467, 549-577).
WaitingHasAsker ==
  \A r \in Runs : status[r] \in {"waiting_approval", "waiting_input"} =>
    \E d \in SessionOf(r) : asked[d] # "none"

\* A run that is shown as loading has a handler that loads it, with two exceptions. A
\* run that was ended meanwhile: the interrupt drops the session and the load never
\* reports (codex.ts:398-406). And a load that the app server cut short with a notice
\* about a turn (codex.ts:499-532). Its slot then stays taken until stop-all or a restart.
LoadingHasLoader ==
  \A r \in Runs : loading[r] /\ status[r] \in {"succeeded", "interrupted"} =>
    \/ \E d \in Drives : driveOf[d] = r /\ kind[d] = "load" /\ stage[d] \notin {"idle", "rejected"}
    \/ r \in cut

\* A turn has started only for a run whose provider session is stored, so that a load or
\* a handoff can resume it.
TurnHasSession == \A d \in Drives : stage[d] \in {"starting", "turn"} => session[driveOf[d]]

\* The handler of a submission or a load always returns, whatever the provider does.
HandlersReturn ==
  \A d \in Drives : stage[d] \in {"checking", "handshake", "starting", "rejected"}
                      ~> stage[d] \in {"idle", "turn"}

\* Canceling a run, one by one or all at once, stops its provider.
CancelReachesProvider ==
  \A d \in Drives :
    kind[d] = "launch" /\ stage[d] \in Live /\ status[driveOf[d]] = "canceled"
      ~> ~(kind[d] = "launch" /\ stage[d] \in Live /\ status[driveOf[d]] = "canceled")

\* A run that is shown as waiting, loading or in a turn has the handler and the session
\* that this takes, whichever of them a sweep, an interrupt, a restart or a failure ends
\* first (codex.ts:398-467, 549-577).
RunsAreServed == WaitingHasAsker /\ LoadingHasLoader /\ TurnHasSession

\* Handlers return and cancellations take effect, with a provider that never answers
\* (codex.ts:135-148, 208-240).
DriverSettles == HandlersReturn /\ CancelReachesProvider

=============================================================================
