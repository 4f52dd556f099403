---------------------------- MODULE ClaudeDriver ----------------------------
(***************************************************************************)
(* The Claude driver (claude.ts), its bridge inside the container          *)
(* (claude-bridge.ts) and the engine's effects for it, on top of the       *)
(* store.  It drives the runs of ivo: tasks of its own, and the two turns  *)
(* of a handoff.  The runs of mara are driven by codex.ts and appear by    *)
(* their transactions alone (MaraStep).                                    *)
(*                                                                         *)
(* Unlike spawnCodex, spawnClaude returns as soon as the container is      *)
(* started; the turns run in a detached body.  A drive is the handler up   *)
(* to that point and the body and its session from then on.                *)
(*                                                                         *)
(* Every action is a stretch of code between two awaits and contains at    *)
(* most one transaction of the store.                                      *)
(***************************************************************************)
EXTENDS RunStore

CONSTANTS
  Drives,   \* handlers and sessions that may exist at one time
  MayReplay \* whether the owner retries submissions

ASSUME DriveAssumption ==
  /\ MayReplay \in BOOLEAN
  /\ "native" \in Providers

\* A session that asks for nothing, or for input, is told from one with an approval, and
\* so is a request of the bridge that is still on its way
ASSUME RequestAssumption ==
  "none" \notin Approvals /\ "input" \notin Approvals /\ "sent" \notin Approvals

\* versions.ts allows 20 actions: enough for the decision and the draft of a handoff
ASSUME DraftAssumption == MaxActionsPerRun >= 2

VARIABLES
  stage,    \* how far the drive is
  driveOf,  \* input.runId
  turn,     \* which prompt: the only one, the decision or the draft of a handoff, a load
  asked,    \* session.approval and session.answer: what waits for the owner
  sent,     \* a permission request on its way from the bridge
  gate,     \* the bridge's pending map: the tool use that waits for its reply
  todo,     \* effects of committed receipts that are not applied yet
  ran,      \* approvals whose tool use the bridge was told to allow (history)
  replayed  \* runs whose launch was retried while it was pending (history)

driverVars == <<stage, driveOf, turn, asked, sent, gate, todo, ran, replayed>>
allVars    == <<vars, driverVars>>

\* checking: reads the snapshot; spawning: goes on with what it read; starting: a
\* request is with the bridge, the native session has not reported; prompting: it
\* has; yielding: between the acceptance and the claim of the draft; lost: the same,
\* after the session was dropped
Stage == {"idle", "checking", "spawning", "starting", "prompting", "yielding", "lost"}

\* The session is in the sessions map
Live == {"starting", "prompting", "yielding"}

Effect == {"dispatch_tool", "reject_tool", "resume_input", "interrupt_provider"}

DriverTypeOK ==
  /\ TypeOK
  /\ stage \in [Drives -> Stage]
  /\ driveOf \in [Drives -> Runs \cup {NoRun}]
  /\ turn \in [Drives -> {"only", "decision", "draft", "load"}]
  /\ asked \in [Drives -> Approvals \cup {"none", "input"}]
  /\ sent \in [Drives -> {"none", "Bash", "AskUserQuestion"}]
  /\ gate \in [Drives -> Approvals \cup {"none", "sent", "input"}]
  /\ todo \subseteq [effect : Effect, run : Runs \cup {NoRun}]
  /\ ran \subseteq Approvals
  /\ replayed \subseteq Runs

\* sessions.get(r), as a set of at most one drive: the run's provider network is
\* taken while its session lives
SessionOf(r) == {d \in Drives : driveOf[d] = r /\ stage[d] \in Live}

-----------------------------------------------------------------------------
(* Parts of the handlers                                                   *)

\* A new handler enters spawnClaude
Begin(d, r, t) ==
  /\ stage[d] = "idle"
  /\ stage' = [stage EXCEPT ![d] = "checking"]
  /\ driveOf' = [driveOf EXCEPT ![d] = r]
  /\ turn' = [turn EXCEPT ![d] = t]

\* The containers of the drives of D are gone, and with them what was asked
Hush(D) ==
  /\ asked' = [d \in Drives |-> IF d \in D THEN "none" ELSE asked[d]]
  /\ sent' = [d \in Drives |-> IF d \in D THEN "none" ELSE sent[d]]
  /\ gate' = [d \in Drives |-> IF d \in D THEN "none" ELSE gate[d]]

\* interruptClaude for the runs of S, while the handlers of D return.  The pending
\* request rejects and its body finds that it is not the owner any more; a body that
\* waits for its yield has no request and goes on.
Interrupt(S, D) ==
  LET dropped == {d \in Drives : driveOf[d] \in S /\ stage[d] \in Live} IN
  /\ stage' = [d \in Drives |->
       IF d \in D THEN "idle"
       ELSE IF d \notin dropped THEN stage[d]
       ELSE IF stage[d] = "yielding" THEN "lost" ELSE "idle"]
  /\ Hush(dropped)

\* The session of d fails or completes: interruptClaude of its run
Close(d) == Interrupt({driveOf[d]}, {})

\* mutateForEngine.fail: a recipient that has not decided gives its offer back
FailIfActive(r) ==
  IF Active(r) THEN FailRun(r) \/ FailRecipient(r) ELSE UNCHANGED vars

\* providerState with loadStatus 'failed' or 'succeeded'
EndLoadIfLoading(r) == IF loading[r] THEN EndLoad(r) ELSE UNCHANGED vars

\* fail of spawnClaude
ClaudeFail(d) ==
  IF turn[d] = "load" THEN EndLoadIfLoading(driveOf[d]) ELSE FailIfActive(driveOf[d])

\* failRun of engine.ts, which also ends a load of the run that is under way
EngineFail(r) ==
  IF Active(r) THEN FailRun(r) \/ FailRecipient(r) ELSE EndLoadIfLoading(r)

\* The receipt's effects wait to be applied
Later(e, r) == todo' = todo \cup {[effect |-> e, run |-> r]}

-----------------------------------------------------------------------------
(* Commands: the transaction, and what its handler goes on with            *)

\* A task of mara is left to codex.ts
Submit(r, t, b, d) ==
  /\ SubmitTask(r, t, b, "native")
  /\ IF b = "ivo" THEN Begin(d, r, "only") ELSE UNCHANGED <<stage, driveOf, turn>>
  /\ UNCHANGED <<asked, sent, gate, todo, ran, replayed>>

Propose(s, t, x, d) ==
  /\ ProposeHandoff(s, t, x)
  /\ Begin(d, x, "decision")
  /\ UNCHANGED <<asked, sent, gate, todo, ran, replayed>>

\* A retried submission or proposal whose launch intent is still pending
Replay(r, d) ==
  /\ MayReplay /\ launch[r] = "pending" /\ frozen[r].bot = "ivo"
  /\ Begin(d, r, IF IsRecipient(r) THEN "decision" ELSE "only")
  /\ replayed' = replayed \cup {r}
  /\ UNCHANGED <<vars, asked, sent, gate, todo, ran>>

Load(r, d) ==
  /\ LoadSession(r)
  /\ IF frozen[r].bot = "ivo" THEN Begin(d, r, "load") ELSE UNCHANGED <<stage, driveOf, turn>>
  /\ UNCHANGED <<asked, sent, gate, todo, ran, replayed>>

Resolve(a) ==
  /\ \/ AllowApproval(a) /\ Later("dispatch_tool", approvalRun[a])
     \/ DenyApproval(a) /\ Later("reject_tool", approvalRun[a])
     \/ ResolveTooLate(a) /\ Later("interrupt_provider", approvalRun[a])
  /\ UNCHANGED <<stage, driveOf, turn, asked, sent, gate, ran, replayed>>

Answer(r) ==
  /\ AnswerInput(r) /\ Later("resume_input", r)
  /\ UNCHANGED <<stage, driveOf, turn, asked, sent, gate, ran, replayed>>

Cancel(r) ==
  /\ CancelRun(r) /\ Later("interrupt_provider", r)
  /\ UNCHANGED <<stage, driveOf, turn, asked, sent, gate, ran, replayed>>

Stop ==
  /\ StopAll /\ Later("interrupt_provider", NoRun)
  /\ UNCHANGED <<stage, driveOf, turn, asked, sent, gate, ran, replayed>>

-----------------------------------------------------------------------------
(* applyReceiptEffects after the commit                                    *)

Applied(e) == e \in todo /\ todo' = todo \ {e}

\* session.approval and session.answer are cleared before they reply.  The bridge looks
\* the tool use up by its id: one that was aborted meanwhile is not there any more.
Answered(D) ==
  /\ asked' = [d \in Drives |-> IF d \in D THEN "none" ELSE asked[d]]
  /\ gate' = [d \in Drives |-> IF d \in D /\ gate[d] = asked[d] THEN "none" ELSE gate[d]]

\* resolveClaudeApproval('allowed')
DispatchTool(r) ==
  LET D == {d \in SessionOf(r) : asked[d] \in Approvals} IN
  /\ Applied([effect |-> "dispatch_tool", run |-> r])
  /\ Answered(D)
  /\ ran' = ran \cup {asked[d] : d \in {x \in D : gate[x] = asked[x]}}
  /\ UNCHANGED <<vars, stage, driveOf, turn, sent, replayed>>

\* resolveClaudeApproval('denied') interrupts whatever session the run has
RejectTool(r) ==
  /\ Applied([effect |-> "reject_tool", run |-> r])
  /\ Interrupt({r}, {})
  /\ UNCHANGED <<vars, driveOf, turn, ran, replayed>>

\* answerClaudeInput
ResumeInput(r) ==
  /\ Applied([effect |-> "resume_input", run |-> r])
  /\ Answered({d \in SessionOf(r) : asked[d] = "input"})
  /\ UNCHANGED <<vars, stage, driveOf, turn, sent, ran, replayed>>

\* interruptClaude of one run
InterruptProvider(r) ==
  /\ Applied([effect |-> "interrupt_provider", run |-> r])
  /\ Interrupt({r}, {})
  /\ UNCHANGED <<vars, driveOf, turn, ran, replayed>>

\* interruptAllClaude
InterruptAll ==
  /\ Applied([effect |-> "interrupt_provider", run |-> NoRun])
  /\ Interrupt(Runs, {})
  /\ UNCHANGED <<vars, driveOf, turn, ran, replayed>>

-----------------------------------------------------------------------------
(* spawnClaude up to the start of the container                            *)

\* providerBrief finds the materialized source changed
BriefFails(d) ==
  /\ stage[d] = "checking"
  /\ EngineFail(driveOf[d])
  /\ Interrupt({}, {d})
  /\ UNCHANGED <<driveOf, turn, todo, ran, replayed>>

\* The snapshot is read; what is decided from it comes one hop later
Unlaunched(r) == status[r] = "queued"

ReadSnapshot(d) ==
  /\ stage[d] = "checking"
  /\ stage' = [stage EXCEPT ![d] =
       IF turn[d] = "load" \/ Unlaunched(driveOf[d]) THEN "spawning" ELSE "idle"]
  /\ UNCHANGED <<vars, driveOf, turn, asked, sent, gate, todo, ran, replayed>>

\* The load was given up between its commit and now
LoadRefused(d) ==
  /\ stage[d] = "spawning" /\ turn[d] = "load"
  /\ ~(loading[driveOf[d]] /\ ~latched)
  /\ Interrupt({}, {d})
  /\ UNCHANGED <<vars, driveOf, turn, todo, ran, replayed>>

\* The container is started and the body sends its first request.  The decision of a
\* handoff is counted first; without budget, or after the run has ended, the body fails.
Spawn(d) ==
  /\ stage[d] = "spawning"
  /\ SessionOf(driveOf[d]) = {}
  /\ turn[d] = "load" => loading[driveOf[d]] /\ ~latched
  /\ IF turn[d] # "decision"
     THEN stage' = [stage EXCEPT ![d] = "starting"] /\ UNCHANGED <<vars, asked, sent, gate>>
     ELSE IF Active(driveOf[d]) /\ HasBudget(driveOf[d])
     THEN /\ BumpAction(driveOf[d]) /\ stage' = [stage EXCEPT ![d] = "starting"]
          /\ UNCHANGED <<asked, sent, gate>>
     ELSE FailIfActive(driveOf[d]) /\ Interrupt({}, {d})
  /\ UNCHANGED <<driveOf, turn, todo, ran, replayed>>

\* A Docker command fails, as it does while the run has a session: the run fails, and
\* that session is interrupted with it
SpawnFails(d) ==
  /\ stage[d] = "spawning"
  /\ turn[d] = "load" => loading[driveOf[d]] /\ ~latched
  /\ IF turn[d] = "load" THEN EndLoadIfLoading(driveOf[d]) ELSE EngineFail(driveOf[d])
  /\ Interrupt({driveOf[d]}, {d})
  /\ UNCHANGED <<driveOf, turn, todo, ran, replayed>>

-----------------------------------------------------------------------------
(* Events of the bridge, in the session that owns the run                  *)

\* init.  The first of a launch stores the session; the second turn of a handoff
\* resumes the same one.
NativeInit(d) ==
  /\ stage[d] = "starting" /\ turn[d] # "load"
  /\ IF turn[d] = "draft"
     THEN UNCHANGED vars /\ stage' = [stage EXCEPT ![d] = "prompting"]
                         /\ UNCHANGED <<asked, sent, gate>>
     ELSE IF Active(driveOf[d])
     THEN /\ MarkRunning(driveOf[d]) /\ stage' = [stage EXCEPT ![d] = "prompting"]
          /\ UNCHANGED <<asked, sent, gate>>
     ELSE UNCHANGED vars /\ Close(d)
  /\ UNCHANGED <<driveOf, turn, todo, ran, replayed>>

\* canUseTool of the bridge: one request at a time, none in a handoff
Offered(d) == turn[d] = "only" /\ gate[d] = "none"

CanUseTool(d, name) ==
  /\ stage[d] = "prompting" /\ sent[d] = "none" /\ Offered(d)
  /\ sent' = [sent EXCEPT ![d] = name]
  /\ gate' = [gate EXCEPT ![d] = "sent"]
  /\ UNCHANGED <<vars, stage, driveOf, turn, asked, todo, ran, replayed>>

\* The SDK aborts a tool use that waits
AbortTool(d) ==
  /\ gate[d] # "none"
  /\ gate' = [gate EXCEPT ![d] = "none"]
  /\ UNCHANGED <<vars, stage, driveOf, turn, asked, sent, todo, ran, replayed>>

\* The host takes the request up, of a session that owns its run and has reported; the
\* bridge may have forgotten it already
Received(d, answer) ==
  /\ stage[d] = "prompting" /\ sent[d] # "none"
  /\ sent' = [sent EXCEPT ![d] = "none"]
  /\ gate' = [gate EXCEPT ![d] = IF gate[d] = "sent" THEN answer ELSE gate[d]]

\* permission: refused in a handoff or a load, and while the owner has another request
Grantable_Asked(d) == turn[d] = "only"

Grantable(d) == turn[d] = "only" /\ asked[d] = "none"

PermissionDenied(d) ==
  /\ Received(d, "none") /\ ~Grantable(d)
  /\ UNCHANGED <<vars, stage, driveOf, turn, asked, todo, ran, replayed>>

\* permission of a run that has ended or has no budget left
PermissionTooMuch(d) ==
  /\ stage[d] = "prompting" /\ sent[d] # "none" /\ Grantable(d)
  /\ ~(Active(driveOf[d]) /\ HasBudget(driveOf[d]))
  /\ FailIfActive(driveOf[d])
  /\ Close(d)
  /\ UNCHANGED <<driveOf, turn, todo, ran, replayed>>

\* permission for Bash: bumpAction and waitApproval
AskApproval(d, a) ==
  /\ sent[d] = "Bash" /\ Grantable(d)
  /\ RequestApproval(driveOf[d], a)
  /\ Received(d, a)
  /\ asked' = [asked EXCEPT ![d] = a]
  /\ UNCHANGED <<stage, driveOf, turn, todo, ran, replayed>>

\* permission for AskUserQuestion: bumpAction and waitInput
AskInput(d) ==
  /\ sent[d] = "AskUserQuestion" /\ Grantable(d)
  /\ AskQuestion(driveOf[d])
  /\ Received(d, "input")
  /\ asked' = [asked EXCEPT ![d] = "input"]
  /\ UNCHANGED <<stage, driveOf, turn, todo, ran, replayed>>

\* The child exits, or its output is an error, malformed, too long or of another
\* session; of a load, also a history that is not the one known
ProviderFails(d) ==
  /\ stage[d] \in Live
  /\ ClaudeFail(d)
  /\ Close(d)
  /\ UNCHANGED <<driveOf, turn, todo, ran, replayed>>

\* The timer of the session: the run's deadline, or 30 seconds of a load
TimerFires_Deadline(d) ==
  /\ stage[d] \in Live
  /\ Active(driveOf[d]) /\ Expired(deadlineLeft[driveOf[d]])
  /\ ClaudeFail(d)
  /\ Close(d)
  /\ UNCHANGED <<driveOf, turn, todo, ran, replayed>>

TimerFires(d) ==
  /\ stage[d] \in Live
  /\ turn[d] = "load" \/ Expired(deadlineLeft[driveOf[d]])
  /\ ClaudeFail(d)
  /\ Close(d)
  /\ UNCHANGED <<driveOf, turn, todo, ran, replayed>>

-----------------------------------------------------------------------------
(* The body: what follows the response to its request                      *)

\* load
HistoryLoaded(d) ==
  /\ stage[d] = "starting" /\ turn[d] = "load"
  /\ EndLoadIfLoading(driveOf[d])
  /\ Close(d)
  /\ UNCHANGED <<driveOf, turn, todo, ran, replayed>>

\* The result of a task, or the draft of a handoff
Completes(d) ==
  /\ stage[d] = "prompting" /\ sent[d] = "none" /\ turn[d] \in {"only", "draft"}
  /\ IF Active(driveOf[d]) THEN Complete(driveOf[d]) ELSE UNCHANGED vars
  /\ Close(d)
  /\ UNCHANGED <<driveOf, turn, todo, ran, replayed>>

\* decideHandoff accepts
Accepts(d) ==
  /\ stage[d] = "prompting" /\ turn[d] = "decision"
  /\ AcceptOffer(driveOf[d])
  /\ stage' = [stage EXCEPT ![d] = "yielding"]
  /\ UNCHANGED <<driveOf, turn, asked, sent, gate, todo, ran, replayed>>

\* decideHandoff refuses, or comes too late
Declines(d) ==
  /\ stage[d] = "prompting" /\ turn[d] = "decision"
  /\ \/ RejectOffer(driveOf[d]) \/ DecideTooLate(driveOf[d])
     \/ /\ \A t \in OpenOffersTo({driveOf[d]}) :
             ~Expired(offerLeft[t]) /\ ~Decidable(driveOf[d], t)
        /\ UNCHANGED vars
  /\ Close(d)
  /\ UNCHANGED <<driveOf, turn, todo, ran, replayed>>

\* claimDraft after the yield, whatever became of the session meanwhile, and the second
\* prompt, which is counted first and always fits: the run has sent one prompt and used
\* no tool, and its task's budget was reserved by HandoffAffordable
DraftClaimable_Accepted(r) == \E t \in Tasks : handoff[t] = "accepted" /\ offer[t].recipient = r

DraftClaimable(r) ==
  /\ Active(r) /\ draft[r] = "pending"
  /\ \E t \in Tasks : handoff[t] = "accepted" /\ offer[t].recipient = r

Claims(d) ==
  /\ stage[d] \in {"yielding", "lost"}
  /\ IF DraftClaimable(driveOf[d])
     THEN /\ ClaimDraft(driveOf[d])
          /\ stage' = [stage EXCEPT ![d] = "starting"]
          /\ turn' = [turn EXCEPT ![d] = "draft"]
          /\ UNCHANGED <<asked, sent, gate>>
     ELSE UNCHANGED <<vars, turn>> /\ Interrupt({}, {d})
  /\ UNCHANGED <<driveOf, todo, ran, replayed>>

-----------------------------------------------------------------------------
(* The daemon                                                              *)

\* The transactions of codex.ts for a run of mara
MaraStep(r) ==
  /\ frozen[r].bot = "mara"
  /\ MarkRunning(r) \/ Complete(r) \/ FailRun(r) \/ EndLoad(r)
  /\ UNCHANGED driverVars

\* applySweepEffects: the interrupts follow the transaction synchronously
SweptRuns ==
  {offer[t].recipient : t \in LapsedOffers} \cup OverdueRuns
    \cup {approvalRun[a] : a \in LateApprovals}

SweepAndInterrupt ==
  /\ Sweep
  /\ Interrupt(SweptRuns, {})
  /\ UNCHANGED <<driveOf, turn, todo, ran, replayed>>

\* The daemon dies or closes and starts again
Restart ==
  /\ InterruptActive
  /\ stage' = [d \in Drives |-> "idle"]
  /\ Hush(Drives)
  /\ todo' = {}
  /\ UNCHANGED <<driveOf, turn, ran, replayed>>

Time == Tick /\ UNCHANGED driverVars

-----------------------------------------------------------------------------
DriverInit ==
  /\ Init
  /\ stage = [d \in Drives |-> "idle"]
  /\ driveOf = [d \in Drives |-> NoRun]
  /\ turn = [d \in Drives |-> "only"]
  /\ asked = [d \in Drives |-> "none"]
  /\ sent = [d \in Drives |-> "none"]
  /\ gate = [d \in Drives |-> "none"]
  /\ todo = {}
  /\ ran = {}
  /\ replayed = {}

Command ==
  \/ \E r \in Runs, d \in Drives :
       \/ \E t \in Tasks, b \in Bots : Submit(r, t, b, d)
       \/ \E s \in Runs, t \in Tasks : Propose(s, t, r, d)
       \/ Replay(r, d) \/ Load(r, d)
  \/ \E a \in Approvals : Resolve(a)
  \/ \E r \in Runs : Answer(r) \/ Cancel(r)
  \/ Stop

ApplyEffect ==
  \/ \E r \in Runs : DispatchTool(r) \/ RejectTool(r) \/ ResumeInput(r) \/ InterruptProvider(r)
  \/ InterruptAll

\* The steps by which a handler or a body gets on without its provider
Proceed(d) ==
  \/ BriefFails(d) \/ ReadSnapshot(d) \/ LoadRefused(d) \/ Spawn(d) \/ SpawnFails(d)
  \/ TimerFires(d) \/ Claims(d)

Provider(d) ==
  \/ NativeInit(d) \/ AbortTool(d) \/ PermissionDenied(d) \/ PermissionTooMuch(d)
  \/ \E name \in {"Bash", "AskUserQuestion"} : CanUseTool(d, name)
  \/ \E a \in Approvals : AskApproval(d, a)
  \/ AskInput(d) \/ ProviderFails(d) \/ HistoryLoaded(d) \/ Completes(d)
  \/ Accepts(d) \/ Declines(d)

DriverNext ==
  \/ Command \/ ApplyEffect
  \/ \E d \in Drives : Proceed(d) \/ Provider(d)
  \/ \E r \in Runs : MaraStep(r)
  \/ SweepAndInterrupt \/ Restart \/ Time

DriverSpec == DriverInit /\ [][DriverNext]_allVars

\* Handlers and bodies go on, timers fire and time passes.  Nothing is assumed of the
\* provider or of the owner, nor that the effects of a receipt are ever applied.
DriverFairness == WF_allVars(Time) /\ \A d \in Drives : WF_allVars(Proceed(d))

FairDriverSpec == DriverSpec /\ DriverFairness

-----------------------------------------------------------------------------
(* Properties                                                              *)

\* The bridge runs a tool only for a request the owner allowed, although the decision
\* goes to whatever closure the session holds when its effect is applied and the tool
\* use may have been aborted and another one asked for meanwhile (claude.ts:84-89,
\* 157-221; claude-bridge.ts:101-124; ADR 0001:37).
RanWasAllowed == \A a \in ran : approval[a] = "allowed"

\* An interrupt, or a refusal, that is still to be applied to r
EndIsDue(r) ==
  \E e \in todo : /\ e.effect \in {"interrupt_provider", "reject_tool"}
                  /\ e.run \in {r, NoRun}

\* No provider works on a run that has ended, unless a committed command is about to
\* stop it: a container started after the run ended is stopped when it reports its
\* session, before it can ask for anything (claude.ts:249-257).  The Codex driver does
\* not keep this, see OrphanNeedsReplay.
TurnHasRun ==
  \A d \in Drives : turn[d] # "load" /\ stage[d] \in {"prompting", "yielding"} =>
    Active(driveOf[d]) \/ EndIsDue(driveOf[d]) \/ driveOf[d] \in replayed

\* The second turn of a handoff is prompted only when ownership has moved to this run
\* and its one draft intent was claimed; whoever interrupts between the acceptance and
\* the claim, nothing is left to claim for the body that lost its session
\* (claude.ts:361-382; docs/runtime/bounded-handoff.md:12).
DraftIsOwned ==
  \A d \in Drives :
    /\ turn[d] = "draft" /\ stage[d] \in Live =>
         /\ draft[driveOf[d]] = "claimed"
         /\ \E t \in Tasks : handoff[t] = "accepted" /\ offer[t].recipient = driveOf[d]
    /\ stage[d] = "lost" => ~DraftClaimable(driveOf[d])

\* A run that waits for the owner has a session that holds the request, unless that
\* session was aborted with its provider (claude.ts:84-89, 178-219).
WaitingHasAsker ==
  \A r \in Runs : frozen[r].bot = "ivo" /\ status[r] \in {"waiting_approval", "waiting_input"} =>
    \E d \in SessionOf(r) : asked[d] # "none"

\* A result or an interrupted run that is shown as loading is being loaded, whatever
\* became of earlier sessions of the run.  Not so the canceled and the failed ones: an
\* interrupt of the run that is applied late, or twice, drops the loader, which then
\* never reports (claude.ts:69-80, 340-358).
LoadingHasLoader ==
  \A r \in Runs :
    frozen[r].bot = "ivo" /\ loading[r] /\ status[r] \in {"succeeded", "interrupted"} =>
    \E d \in Drives : driveOf[d] = r /\ turn[d] = "load" /\ stage[d] # "idle"

\* Replaying the key of a proposal returns its receipt "without another launch"
\* (docs/runtime/bounded-handoff.md:10): no handler is about to start a provider for a
\* recipient that has one.
OneLaunch ==
  \A d \in Drives : stage[d] = "spawning" /\ turn[d] = "decision" => SessionOf(driveOf[d]) = {}

\* Every handler returns and every session ends, by its answer or by its timer, although
\* nobody is waiting for the body (claude.ts:139-151, 340-400).
SessionsEnd == \A d \in Drives : []<>(stage[d] = "idle")

\* Sessions and runs fit each other whenever a turn, a draft, a question or a load is under
\* way, in any race of the turns of a handoff with interrupts, timers, the sweep, retries
\* and restarts (claude.ts:222-400).
SessionsFitRuns == TurnHasRun /\ DraftIsOwned /\ WaitingHasAsker /\ LoadingHasLoader

=============================================================================
