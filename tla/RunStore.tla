------------------------------ MODULE RunStore ------------------------------
(***************************************************************************)
(* The SQLite store of the agentis daemon (store.ts, run-lifecycle.ts,     *)
(* handoff-store.ts): runs, tasks, approvals, pending actions, handoffs    *)
(* and the stop-all latch.                                                 *)
(*                                                                         *)
(* Every action below is one committed transaction.  The transactions fall *)
(* into four groups: owner commands (store.ts `dispatch`), calls of the    *)
(* provider drivers (`mutateForEngine`), the one-second timeout sweep      *)
(* (`sweepRunTimeouts`) and the interruption at daemon start and stop      *)
(* (`interruptActive`).  A command the store rejects writes only its       *)
(* receipt, so it is a stuttering step here.                               *)
(*                                                                         *)
(* Time.  An absolute column X_at of the database is represented by the    *)
(* number of ticks left until it is reached, 0 meaning X_at <= now.        *)
(***************************************************************************)
EXTENDS Naturals, FiniteSets

CONSTANTS
  Runs,                \* run identities the daemon may mint
  Tasks,               \* task identities
  Approvals,           \* approval identities
  NoRun,               \* SQL NULL in a column that refers to a run
  NoTask,              \* the task of a run that does not exist yet
  Providers,           \* providers the daemon was started with
  MaxActiveRuns,       \* MAX_ACTIVE_RUNS
  MaxActiveRunsPerBot, \* MAX_ACTIVE_RUNS_PER_BOT
  MaxActionsPerRun,    \* MAX_ACTIONS_PER_RUN, the frozen actionBudget
  MaxActionsPerTask,   \* MAX_ACTIONS_PER_TASK
  RunDeadline,         \* RUN_DEADLINE_MS, in ticks
  ApprovalTtl,         \* APPROVAL_TTL_MS, in ticks
  HandoffTtl           \* the 60000 ms of proposeHandoff, in ticks

ASSUME IdentityAssumption ==
  /\ IsFiniteSet(Runs) /\ IsFiniteSet(Approvals)
  /\ NoRun \notin Runs
  /\ NoTask \notin Tasks
  /\ Providers \subseteq {"fake", "native"}

ASSUME LimitAssumption ==
  /\ MaxActiveRuns \in Nat
  /\ MaxActiveRunsPerBot \in Nat
  /\ MaxActionsPerRun \in Nat
  /\ MaxActionsPerTask \in Nat

\* A recipient run is created together with its offer, and the offer lapses
\* (1 minute) before the run's own deadline (15 minutes).
ASSUME TimeAssumption ==
  /\ RunDeadline \in Nat
  /\ ApprovalTtl \in Nat
  /\ HandoffTtl \in Nat
  /\ HandoffTtl <= RunDeadline

VARIABLES
  latched,        \* stop_all.latched
  status,         \* runs.status, "absent" before the row exists
  frozen,         \* runs.frozen_json (bot, provider) and runs.task_id
  session,        \* runs.provider_session_id IS NOT NULL
  loading,        \* runs.provider_state.loadStatus = 'loading'
  runActions,     \* runs.action_count
  deadlineLeft,   \* ticks until runs.deadline_at
  launch,         \* pending_actions row of kind 'launch' of the run
  draft,          \* pending_actions row of kind 'handoff_draft' of the run
  approval,       \* approvals.state
  approvalRun,    \* approvals.run_id
  approvalLeft,   \* ticks until approvals.expires_at
  tool,           \* pending_actions row of kind 'tool' of the approval
  taskStatus,     \* tasks.status
  taskBot,        \* tasks.bot_name
  currentRun,     \* tasks.current_run_id
  latestArtifact, \* the run whose artifact is tasks.latest_artifact_id
  taskActions,    \* tasks.action_count
  handoff,        \* handoffs.state of the task's only handoff
  offer,          \* handoffs.sourceRunId and recipientRunId
  offerLeft       \* ticks until handoffs.expiresAt

runVars      == <<status, frozen, session, loading, runActions, deadlineLeft,
                  launch, draft>>
approvalVars == <<approval, approvalRun, approvalLeft, tool>>
taskVars     == <<taskStatus, taskBot, currentRun, latestArtifact, taskActions>>
handoffVars  == <<handoff, offer, offerLeft>>
vars         == <<latched, runVars, approvalVars, taskVars, handoffVars>>

-----------------------------------------------------------------------------
(* Domains                                                                 *)

Bots == {"mara", "ivo"}

ActiveStatus   == {"queued", "running", "waiting_approval", "waiting_input"}
FinishedStatus == {"succeeded", "failed", "canceled"}
RunStatus      == ActiveStatus \cup FinishedStatus \cup {"absent", "interrupted"}
TaskStatus     == {"absent", "open", "running", "completed", "failed", "canceled"}
ApprovalState  == {"absent", "pending", "allowed", "denied", "expired", "canceled"}
IntentState    == {"none", "pending", "claimed", "allowed", "denied", "expired",
                   "canceled"}
HandoffState   == {"none", "proposed", "accepted", "rejected", "expired"}

Frozen == [bot: Bots \cup {"none"}, provider: {"none", "fake", "native"},
           task: Tasks \cup {NoTask}]
Offer  == [source: Runs \cup {NoRun}, recipient: Runs \cup {NoRun}]

TypeOK ==
  /\ latched \in BOOLEAN
  /\ status \in [Runs -> RunStatus]
  /\ frozen \in [Runs -> Frozen]
  /\ session \in [Runs -> BOOLEAN]
  /\ loading \in [Runs -> BOOLEAN]
  /\ runActions \in [Runs -> 0..MaxActionsPerRun]
  /\ deadlineLeft \in [Runs -> Nat]
  /\ launch \in [Runs -> IntentState]
  /\ draft \in [Runs -> IntentState]
  /\ approval \in [Approvals -> ApprovalState]
  /\ approvalRun \in [Approvals -> Runs \cup {NoRun}]
  /\ approvalLeft \in [Approvals -> Nat]
  /\ tool \in [Approvals -> IntentState]
  /\ taskStatus \in [Tasks -> TaskStatus]
  /\ taskBot \in [Tasks -> Bots \cup {"none"}]
  /\ currentRun \in [Tasks -> Runs \cup {NoRun}]
  /\ latestArtifact \in [Tasks -> Runs \cup {NoRun}]
  /\ taskActions \in [Tasks -> 0..MaxActionsPerTask]
  /\ handoff \in [Tasks -> HandoffState]
  /\ offer \in [Tasks -> Offer]
  /\ offerLeft \in [Tasks -> Nat]

-----------------------------------------------------------------------------
(* Queries                                                                 *)

\* ACTIVE_RUN_SQL
ActiveRuns == {r \in Runs : status[r] \in ActiveStatus}

\* ACTIVE_RUN_OR_LOADING_SQL, over all runs and over the runs of one bot
Busy      == {r \in Runs : status[r] \in ActiveStatus \/ loading[r]}
BusyOf(b) == {r \in Busy : frozen[r].bot = b}

\* The concurrency test of submit_task, load_session and propose_handoff
HasSlot_OffByOne(b) ==
  /\ Cardinality(Busy) <= MaxActiveRuns
  /\ Cardinality(BusyOf(b)) <= MaxActiveRunsPerBot

HasSlot(b) ==
  /\ Cardinality(Busy) < MaxActiveRuns
  /\ Cardinality(BusyOf(b)) < MaxActiveRunsPerBot

\* The same with the test of the stop-all latch that goes with it
Admits_AfterStop(b) == HasSlot(b)

Admits(b) == ~latched /\ HasSlot(b)

\* mutateForEngine's guard: no driver call touches a stopped or finished run
Active_OrInterrupted(r) == status[r] \in ActiveStatus \cup {"interrupted"} /\ ~latched

Active(r) == status[r] \in ActiveStatus /\ ~latched

\* handoffForRun: the handoffs offered to a run of S that are still open
OpenOffersTo_Source(S)  == {t \in Tasks : handoff[t] = "proposed" /\ offer[t].source \in S}

OpenOffersTo(S) == {t \in Tasks : handoff[t] = "proposed" /\ offer[t].recipient \in S}

Expired(left) == left = 0

TaskOutcome == [succeeded |-> "completed", failed |-> "failed", canceled |-> "canceled"]

-----------------------------------------------------------------------------
(* Shared parts of the transactions                                        *)

\* finishRun for every run of S: the run row and, where the run is its task's
\* current run, the task row.  It does not look at the status it overwrites.
FinishRuns(S, outcome) ==
  /\ status' = [r \in Runs |-> IF r \in S THEN outcome ELSE status[r]]
  /\ taskStatus' = [t \in Tasks |->
       IF currentRun[t] \in S THEN TaskOutcome[outcome] ELSE taskStatus[t]]

\* rejectHandoff on the handoffs of T
CloseOffers(T, outcome) ==
  handoff' = [t \in Tasks |-> IF t \in T THEN outcome ELSE handoff[t]]

\* pending_actions of the runs of S that are in a state of From become canceled
CancelIntents(S, From) ==
  /\ launch' = [r \in Runs |-> IF r \in S /\ launch[r] \in From THEN "canceled" ELSE launch[r]]
  /\ draft' = [r \in Runs |-> IF r \in S /\ draft[r] \in From THEN "canceled" ELSE draft[r]]
  /\ tool' = [a \in Approvals |->
       IF approvalRun[a] \in S /\ tool[a] \in From THEN "canceled" ELSE tool[a]]

\* The pending approvals of the runs of S become canceled
CancelApprovals(S) ==
  approval' = [a \in Approvals |->
    IF approval[a] = "pending" /\ approvalRun[a] \in S THEN "canceled" ELSE approval[a]]

\* expireApprovalAndRun, on the rows of the approvals of A
ExpireApprovals(A) ==
  approval' = [a \in Approvals |-> IF a \in A THEN "expired" ELSE approval[a]]

-----------------------------------------------------------------------------
(* Owner commands                                                          *)

\* submitTask
SubmitTask(r, t, b, p) ==
  /\ status[r] = "absent" /\ currentRun[t] = NoRun
  /\ Admits(b)
  /\ status' = [status EXCEPT ![r] = "queued"]
  /\ frozen' = [frozen EXCEPT ![r] = [bot |-> b, provider |-> p, task |-> t]]
  /\ deadlineLeft' = [deadlineLeft EXCEPT ![r] = RunDeadline]
  /\ launch' = [launch EXCEPT ![r] = "pending"]
  /\ taskStatus' = [taskStatus EXCEPT ![t] = "open"]
  /\ taskBot' = [taskBot EXCEPT ![t] = b]
  /\ currentRun' = [currentRun EXCEPT ![t] = r]
  /\ UNCHANGED <<latched, session, loading, runActions, draft,
                 approvalVars, latestArtifact, taskActions, handoffVars>>

\* resolveApproval up to the expiry test
Resolvable(a) ==
  /\ approval[a] = "pending"
  /\ status[approvalRun[a]] = "waiting_approval"
  /\ ~latched

\* resolveApproval of an approval whose time is up
ResolveTooLate(a) ==
  /\ Resolvable(a) /\ Expired(approvalLeft[a])
  /\ ExpireApprovals({a})
  /\ tool' = [tool EXCEPT ![a] = IF @ = "pending" THEN "expired" ELSE @]
  /\ FinishRuns({approvalRun[a]}, "failed")
  /\ UNCHANGED <<latched, frozen, session, loading, runActions, deadlineLeft, launch,
                 draft, approvalRun, approvalLeft, taskBot, currentRun,
                 latestArtifact, taskActions, handoffVars>>

\* resolveApproval with decision 'allowed'
AllowApproval_StillWaiting(a) ==
  /\ Resolvable(a) /\ ~Expired(approvalLeft[a])
  /\ approval' = [approval EXCEPT ![a] = "allowed"]
  /\ tool' = [tool EXCEPT ![a] = IF @ = "pending" THEN "allowed" ELSE @]
  /\ UNCHANGED <<latched, runVars, approvalRun, approvalLeft, taskVars, handoffVars>>

AllowApproval(a) ==
  /\ Resolvable(a) /\ ~Expired(approvalLeft[a])
  /\ approval' = [approval EXCEPT ![a] = "allowed"]
  /\ tool' = [tool EXCEPT ![a] = IF @ = "pending" THEN "allowed" ELSE @]
  /\ status' = [status EXCEPT ![approvalRun[a]] = "running"]
  /\ UNCHANGED <<latched, frozen, session, loading, runActions, deadlineLeft, launch,
                 draft, approvalRun, approvalLeft, taskVars, handoffVars>>

\* resolveApproval with decision 'denied'
DenyApproval(a) ==
  /\ Resolvable(a) /\ ~Expired(approvalLeft[a])
  /\ approval' = [approval EXCEPT ![a] = "denied"]
  /\ tool' = [tool EXCEPT ![a] = IF @ = "pending" THEN "denied" ELSE @]
  /\ FinishRuns({approvalRun[a]}, "failed")
  /\ UNCHANGED <<latched, frozen, session, loading, runActions, deadlineLeft, launch,
                 draft, approvalRun, approvalLeft, taskBot, currentRun,
                 latestArtifact, taskActions, handoffVars>>

\* answerInput
AnswerInput(r) ==
  /\ status[r] = "waiting_input"
  /\ status' = [status EXCEPT ![r] = "running"]
  /\ UNCHANGED <<latched, frozen, session, loading, runActions, deadlineLeft, launch,
                 draft, approvalVars, taskVars, handoffVars>>

\* cancelRun: a recipient that has not decided is finished by rejectHandoff and
\* then once more by the command
CancelRun(r) ==
  /\ status[r] \in ActiveStatus \cup {"interrupted"}
  /\ CloseOffers(OpenOffersTo({r}), "rejected")
  /\ FinishRuns({r}, "canceled")
  /\ CancelIntents({r}, {"pending", "allowed"})
  /\ CancelApprovals({r})
  /\ UNCHANGED <<latched, frozen, session, loading, runActions, deadlineLeft,
                 approvalRun, approvalLeft, taskBot, currentRun, latestArtifact,
                 taskActions, offer, offerLeft>>

\* stopAll: interrupted runs keep their rows, every pending approval is canceled
StopAll ==
  /\ latched' = TRUE
  /\ CloseOffers(OpenOffersTo(ActiveRuns), "rejected")
  /\ FinishRuns(ActiveRuns, "canceled")
  /\ CancelIntents(ActiveRuns, {"pending", "allowed"})
  /\ CancelApprovals(Runs)
  /\ loading' = [r \in Runs |-> FALSE]
  /\ UNCHANGED <<frozen, session, runActions, deadlineLeft, approvalRun, approvalLeft,
                 taskBot, currentRun, latestArtifact, taskActions, offer, offerLeft>>

\* dispatch of 'load_session': an interrupted run may be loaded
LoadSession(r) ==
  /\ session[r] /\ status[r] \notin ActiveStatus
  /\ frozen[r].provider = "native"
  /\ ~loading[r]
  /\ Admits(frozen[r].bot)
  /\ loading' = [loading EXCEPT ![r] = TRUE]
  /\ UNCHANGED <<latched, status, frozen, session, runActions, deadlineLeft, launch,
                 draft, approvalVars, taskVars, handoffVars>>

\* The budget test of propose_handoff: the recipient's two prompts must fit
HandoffAffordable_OnePrompt(t) == taskActions[t] + 1 <= MaxActionsPerTask

HandoffAffordable(t) == taskActions[t] + 2 <= MaxActionsPerTask

\* One proposal per task, including rejected and expired ones
Unproposed_Open(t) == handoff[t] # "proposed"

Unproposed(t) == handoff[t] = "none"

\* proposeHandoff of the task t of run s to a new run x of ivo
ProposeHandoff(s, t, x) ==
  /\ status[s] = "succeeded" /\ status[x] = "absent"
  /\ frozen[s] = [bot |-> "mara", provider |-> "native", task |-> t]
  /\ taskBot[t] = "mara" /\ Unproposed(t)
  /\ Admits("ivo")
  /\ HandoffAffordable(t)
  /\ handoff' = [handoff EXCEPT ![t] = "proposed"]
  /\ offer' = [offer EXCEPT ![t] = [source |-> s, recipient |-> x]]
  /\ offerLeft' = [offerLeft EXCEPT ![t] = HandoffTtl]
  /\ frozen' = [frozen EXCEPT ![x] = [bot |-> "ivo", provider |-> "native", task |-> t]]
  /\ status' = [status EXCEPT ![x] = "queued"]
  /\ deadlineLeft' = [deadlineLeft EXCEPT ![x] = RunDeadline]
  /\ launch' = [launch EXCEPT ![x] = "pending"]
  /\ UNCHANGED <<latched, session, loading, runActions, draft,
                 approvalVars, taskVars>>

-----------------------------------------------------------------------------
(* Calls of the provider drivers (mutateForEngine).  A Codex app server may   *)
(* ask for approval or input, or end its turn, before markRunning has stored  *)
(* its session.  claude.ts and engine.ts ask only after it, and claude.ts     *)
(* denies every permission request of a run that answers a handoff.           *)

\* The launch intent of a run that starts
ClaimLaunch(r) ==
  launch' = [launch EXCEPT ![r] = IF @ = "pending" THEN "claimed" ELSE @]

\* markRunning; a second launch may call it while the run already waits
MarkRunning(r) ==
  /\ Active(r)
  /\ status' = [status EXCEPT ![r] = "running"]
  /\ session' = [session EXCEPT ![r] = TRUE]
  /\ taskStatus' = [t \in Tasks |-> IF currentRun[t] = r THEN "running" ELSE taskStatus[t]]
  /\ ClaimLaunch(r)
  /\ UNCHANGED <<latched, frozen, loading, runActions, deadlineLeft, draft,
                 approvalVars, taskBot, currentRun, latestArtifact, taskActions,
                 handoffVars>>

IsRecipient(r) == \E t \in Tasks : handoff[t] # "none" /\ offer[t].recipient = r

\* bumpAction, when the budgets of the run and of its task allow it
HasBudget_OffByOne(r) ==
  /\ runActions[r] <= MaxActionsPerRun
  /\ taskActions[frozen[r].task] <= MaxActionsPerTask

HasBudget(r) ==
  /\ runActions[r] < MaxActionsPerRun
  /\ taskActions[frozen[r].task] < MaxActionsPerTask

CountAction(r) ==
  /\ HasBudget(r)
  /\ runActions' = [runActions EXCEPT ![r] = @ + 1]
  /\ taskActions' = [taskActions EXCEPT ![frozen[r].task] = @ + 1]

\* bumpAction by itself: the first prompt of a handoff, before there is a session
BumpAction(r) ==
  /\ Active(r)
  /\ CountAction(r)
  /\ UNCHANGED <<latched, status, frozen, session, loading, deadlineLeft, launch, draft,
                 approvalVars, taskStatus, taskBot, currentRun, latestArtifact,
                 handoffVars>>

\* bumpAction and waitApproval, which every driver calls back to back
RequestApproval(r, a) ==
  /\ Active(r) /\ ~IsRecipient(r)
  /\ CountAction(r)
  /\ approval[a] = "absent"
  /\ approval' = [approval EXCEPT ![a] = "pending"]
  /\ approvalRun' = [approvalRun EXCEPT ![a] = r]
  /\ approvalLeft' = [approvalLeft EXCEPT ![a] = ApprovalTtl]
  /\ tool' = [tool EXCEPT ![a] = "pending"]
  /\ status' = [status EXCEPT ![r] = "waiting_approval"]
  /\ UNCHANGED <<latched, frozen, session, loading, deadlineLeft, launch, draft,
                 taskStatus, taskBot, currentRun, latestArtifact, handoffVars>>

\* waitInput
RequestInput(r) ==
  /\ Active(r) /\ ~IsRecipient(r)
  /\ status' = [status EXCEPT ![r] = "waiting_input"]
  /\ UNCHANGED <<latched, frozen, session, loading, runActions, deadlineLeft, launch,
                 draft, approvalVars, taskVars, handoffVars>>

\* bumpAction and waitInput, which claude.ts calls back to back
AskQuestion(r) ==
  /\ Active(r) /\ session[r] /\ ~IsRecipient(r)
  /\ CountAction(r)
  /\ status' = [status EXCEPT ![r] = "waiting_input"]
  /\ UNCHANGED <<latched, frozen, session, loading, deadlineLeft, launch, draft,
                 approvalVars, taskStatus, taskBot, currentRun, latestArtifact,
                 handoffVars>>

\* complete: refused while the run's handoff is not accepted.  A provider may end
\* its turn while a request is open, so any active status can succeed.
Complete(r) ==
  /\ Active(r)
  /\ \A t \in Tasks : offer[t].recipient = r => handoff[t] = "accepted"
  /\ FinishRuns({r}, "succeeded")
  /\ latestArtifact' = [t \in Tasks |-> IF currentRun[t] = r THEN r ELSE latestArtifact[t]]
  /\ UNCHANGED <<latched, frozen, session, loading, runActions, deadlineLeft, launch,
                 draft, approvalVars, taskBot, currentRun, taskActions, handoffVars>>

\* fail of a run whose handoff, if any, is closed
FailRun(r) ==
  /\ Active(r) /\ OpenOffersTo({r}) = {}
  /\ FinishRuns({r}, "failed")
  /\ UNCHANGED <<latched, frozen, session, loading, runActions, deadlineLeft, launch,
                 draft, approvalVars, taskBot, currentRun, latestArtifact, taskActions,
                 handoffVars>>

\* rejectHandoff on behalf of the recipient r itself
CloseOfferOf(r, outcome) ==
  /\ OpenOffersTo({r}) # {}
  /\ CloseOffers(OpenOffersTo({r}), outcome)
  /\ FinishRuns({r}, "failed")
  /\ CancelIntents({r}, {"pending"})
  /\ UNCHANGED <<latched, frozen, session, loading, runActions, deadlineLeft, approval,
                 approvalRun, approvalLeft, taskBot, currentRun, latestArtifact,
                 taskActions, offer, offerLeft>>

\* fail of a recipient that has not decided
FailRecipient(r) == Active(r) /\ CloseOfferOf(r, "rejected")

\* decideHandoff after the time for acceptance is up
DecideTooLate(r) ==
  /\ session[r] /\ \E t \in OpenOffersTo({r}) : Expired(offerLeft[t])
  /\ CloseOfferOf(r, "expired")

\* decideHandoff up to the parsing of the decision
Decidable_Late(r, t) ==
  /\ session[r] /\ t \in OpenOffersTo({r})
  /\ status[r] = "running" /\ taskBot[t] = "mara" /\ ~latched

Decidable(r, t) ==
  /\ session[r] /\ t \in OpenOffersTo({r})
  /\ ~Expired(offerLeft[t])
  /\ status[r] = "running" /\ taskBot[t] = "mara" /\ ~latched

\* decideHandoff with a refusal, a malformed answer or no budget left
RejectOffer(r) ==
  /\ \E t \in Tasks : Decidable(r, t)
  /\ CloseOfferOf(r, "rejected")

\* decideHandoff with an acceptance: ownership moves and the draft is authorized
AcceptOffer(r) ==
  \E t \in Tasks :
    /\ Decidable(r, t)
    /\ taskActions[t] < MaxActionsPerTask
    /\ handoff' = [handoff EXCEPT ![t] = "accepted"]
    /\ taskBot' = [taskBot EXCEPT ![t] = "ivo"]
    /\ taskStatus' = [taskStatus EXCEPT ![t] = "running"]
    /\ currentRun' = [currentRun EXCEPT ![t] = r]
    /\ draft' = [draft EXCEPT ![r] = "pending"]
    /\ UNCHANGED <<latched, status, frozen, session, loading, runActions, deadlineLeft,
                   launch, approvalVars, latestArtifact, taskActions,
                   offer, offerLeft>>

\* claimDraft, and the bumpAction of the prompt that claude.ts sends next
ClaimDraft(r) ==
  /\ Active(r) /\ draft[r] = "pending"
  /\ \E t \in Tasks : handoff[t] = "accepted" /\ offer[t].recipient = r
  /\ draft' = [draft EXCEPT ![r] = "claimed"]
  /\ IF HasBudget(r) THEN CountAction(r) ELSE UNCHANGED <<runActions, taskActions>>
  /\ UNCHANGED <<latched, status, frozen, session, loading, deadlineLeft, launch,
                 approvalVars, taskStatus, taskBot, currentRun, latestArtifact,
                 handoffVars>>

\* providerState of a driver that has loaded the session or failed to
EndLoad(r) ==
  /\ loading[r]
  /\ loading' = [loading EXCEPT ![r] = FALSE]
  /\ UNCHANGED <<latched, status, frozen, session, runActions, deadlineLeft, launch,
                 draft, approvalVars, taskVars, handoffVars>>

-----------------------------------------------------------------------------
(* The daemon's own transactions                                           *)

\* interruptActive, at daemon start and at close.  Approvals, intents, handoffs
\* and tasks keep the state they had.
InterruptActive ==
  /\ status' = [r \in Runs |-> IF r \in ActiveRuns THEN "interrupted" ELSE status[r]]
  /\ loading' = [r \in Runs |-> FALSE]
  /\ UNCHANGED <<latched, frozen, session, runActions, deadlineLeft, launch, draft,
                 approvalVars, taskVars, handoffVars>>

\* The three selections of sweepRunTimeouts.  The second is made after the first
\* pass has finished the recipients of lapsed offers; the third looks at the
\* state of the approvals only, not at their runs.
LapsedOffers == {t \in Tasks : handoff[t] = "proposed" /\ Expired(offerLeft[t])}

OverdueRuns_Running == {r \in Runs : status[r] = "running" /\ Expired(deadlineLeft[r])}

OverdueRuns == {r \in ActiveRuns : Expired(deadlineLeft[r])}

LateApprovals == {a \in Approvals : approval[a] = "pending" /\ Expired(approvalLeft[a])}

\* sweepRunTimeouts, one transaction with three passes
Sweep ==
  LET lapsed  == LapsedOffers
      refused == {offer[t].recipient : t \in lapsed}
      late    == LateApprovals
  IN
  /\ CloseOffers(lapsed, "expired")
  /\ ExpireApprovals(late)
  /\ FinishRuns(refused \cup OverdueRuns \cup {approvalRun[a] : a \in late}, "failed")
  /\ launch' = [r \in Runs |->
       IF r \in refused /\ launch[r] = "pending" THEN "canceled" ELSE launch[r]]
  /\ draft' = [r \in Runs |->
       IF r \in refused /\ draft[r] = "pending" THEN "canceled" ELSE draft[r]]
  /\ tool' = [a \in Approvals |->
       IF tool[a] # "pending" THEN tool[a]
       ELSE IF approvalRun[a] \in refused THEN "canceled"
       ELSE IF a \in late THEN "expired" ELSE tool[a]]
  /\ UNCHANGED <<latched, frozen, session, loading, runActions, deadlineLeft, approvalRun,
                 approvalLeft, taskBot, currentRun, latestArtifact, taskActions, offer,
                 offerLeft>>

\* One tick of the clock
Elapse(left) == IF left = 0 THEN 0 ELSE left - 1

Tick ==
  /\ deadlineLeft' = [r \in Runs |-> Elapse(deadlineLeft[r])]
  /\ approvalLeft' = [a \in Approvals |-> Elapse(approvalLeft[a])]
  /\ offerLeft' = [t \in Tasks |-> Elapse(offerLeft[t])]
  /\ UNCHANGED <<latched, status, frozen, session, loading, runActions, launch, draft,
                 approval, approvalRun, tool, taskVars, handoff, offer>>

-----------------------------------------------------------------------------
Init ==
  /\ latched = FALSE
  /\ status = [r \in Runs |-> "absent"]
  /\ frozen = [r \in Runs |-> [bot |-> "none", provider |-> "none", task |-> NoTask]]
  /\ session = [r \in Runs |-> FALSE]
  /\ loading = [r \in Runs |-> FALSE]
  /\ runActions = [r \in Runs |-> 0]
  /\ deadlineLeft = [r \in Runs |-> 0]
  /\ launch = [r \in Runs |-> "none"]
  /\ draft = [r \in Runs |-> "none"]
  /\ approval = [a \in Approvals |-> "absent"]
  /\ approvalRun = [a \in Approvals |-> NoRun]
  /\ approvalLeft = [a \in Approvals |-> 0]
  /\ tool = [a \in Approvals |-> "none"]
  /\ taskStatus = [t \in Tasks |-> "absent"]
  /\ taskBot = [t \in Tasks |-> "none"]
  /\ currentRun = [t \in Tasks |-> NoRun]
  /\ latestArtifact = [t \in Tasks |-> NoRun]
  /\ taskActions = [t \in Tasks |-> 0]
  /\ handoff = [t \in Tasks |-> "none"]
  /\ offer = [t \in Tasks |-> [source |-> NoRun, recipient |-> NoRun]]
  /\ offerLeft = [t \in Tasks |-> 0]

OwnerCommand ==
  \/ \E r \in Runs, t \in Tasks, b \in Bots, p \in Providers : SubmitTask(r, t, b, p)
  \/ \E a \in Approvals : ResolveTooLate(a) \/ AllowApproval(a) \/ DenyApproval(a)
  \/ \E r \in Runs : AnswerInput(r) \/ CancelRun(r) \/ LoadSession(r)
  \/ \E s, x \in Runs, t \in Tasks : ProposeHandoff(s, t, x)
  \/ StopAll

DriverCall ==
  \E r \in Runs :
    \/ MarkRunning(r) \/ BumpAction(r) \/ RequestInput(r) \/ AskQuestion(r)
    \/ \E a \in Approvals : RequestApproval(r, a)
    \/ Complete(r) \/ FailRun(r) \/ FailRecipient(r)
    \/ DecideTooLate(r) \/ RejectOffer(r) \/ AcceptOffer(r) \/ ClaimDraft(r)
    \/ EndLoad(r)

Next == OwnerCommand \/ DriverCall \/ InterruptActive \/ Sweep \/ Tick

Spec == Init /\ [][Next]_vars

\* Time passes and http.ts runs the sweep every second while the daemon serves.
Fairness == WF_vars(Tick) /\ WF_vars(Sweep)

FairSpec == Spec /\ Fairness

-----------------------------------------------------------------------------
(* Invariants                                                              *)

\* Admission control: no interleaving of submissions, session loads, handoffs,
\* restarts and driver calls occupies more than the configured number of slots,
\* over all runs and for each bot (store.ts:1222-1241, 1348-1375).
ConcurrencyBound ==
  /\ Cardinality(Busy) <= MaxActiveRuns
  /\ \A b \in Bots : Cardinality(BusyOf(b)) <= MaxActiveRunsPerBot

\* Once stop-all is latched nothing runs, loads or waits for the owner, and no
\* late driver call brings any of it back (store.ts:1799-1846, 2161-2165).
StopQuiesces ==
  latched => /\ Busy = {}
             /\ \A a \in Approvals : approval[a] # "pending"

\* The owner of a task: it has one from its first run on; the specialist owns it exactly when it accepted, and any
\* other outcome of an offer leaves it with the coordinator and its finished run
\* (docs/runtime/bounded-handoff.md:12-14; handoff-store.ts:80-120, 358-363).
OwnershipFollowsHandoff ==
  \A t \in Tasks :
    /\ taskBot[t] = "none" <=> currentRun[t] = NoRun
    /\ handoff[t] = "accepted" =>
         taskBot[t] = "ivo" /\ currentRun[t] = offer[t].recipient
    /\ handoff[t] \in {"proposed", "rejected", "expired"} =>
         taskBot[t] = "mara" /\ currentRun[t] = offer[t].source

\* The task row repeats the outcome of its current run and of no other run, and a
\* completed task shows that run's artifact (run-lifecycle.ts:71-86).
TaskFollowsRun ==
  \A t \in Tasks : currentRun[t] # NoRun =>
    /\ \A o \in FinishedStatus :
         status[currentRun[t]] = o <=> taskStatus[t] = TaskOutcome[o]
    /\ taskStatus[t] = "completed" => latestArtifact[t] = currentRun[t]

\* An offer stays open only while its recipient can still be asked: whatever ends
\* the recipient run closes the offer (handoff-store.ts:80-120; store.ts:1760,
\* 1804, 2415, 2477-2491).
OpenOfferIsLive ==
  \A t \in Tasks : handoff[t] = "proposed" =>
    status[offer[t].recipient] \in ActiveStatus \cup {"interrupted"}

\* A run that waits for approval has a request the owner can still decide or that
\* will expire; it never waits on a card that is already closed.
WaitingHasRequest ==
  \A r \in Runs : status[r] = "waiting_approval" =>
    \E a \in Approvals : approvalRun[a] = r /\ approval[a] = "pending"

\* The launch intent tells a recoverable run from a started one: a queued run can
\* be driven again by a replayed command, a run with a provider session cannot
\* (engine.ts:125-130; store.ts:2236-2240).
LaunchIntentMatches ==
  \A r \in Runs :
    /\ status[r] = "queued" => launch[r] = "pending"
    /\ launch[r] = "pending" => ~session[r]
    /\ status[r] = "absent" => ~session[r]

\* Canceling leaves nothing of the run to decide or dispatch: no open approval,
\* launch, draft or allowed tool (store.ts:1783-1788, 1827-1833).
CanceledIsClosed ==
  \A r \in Runs : status[r] = "canceled" =>
    /\ launch[r] # "pending" /\ draft[r] # "pending"
    /\ \A a \in Approvals : approvalRun[a] = r =>
         approval[a] # "pending" /\ tool[a] \notin {"pending", "allowed"}

\* What an offer promised stays affordable: after the proposal the task's actions
\* are spent by the recipient alone, so the budget reserved for its two prompts
\* cannot be used up by the source or by any other run (handoff-store.ts:174,
\* 342; store.ts:2435-2460).
HandoffReservesBudget ==
  \A t \in Tasks : handoff[t] # "none" =>
    taskActions[t] + 2 <= MaxActionsPerTask + runActions[offer[t].recipient]

-----------------------------------------------------------------------------
(* The references between rows, which the invariants above rest on         *)

\* An offer joins two runs of its task: a source that is finished and stays so, and
\* a recipient whose time to decide ends no later than its own deadline, so that
\* the sweep always finds the offer lapsed before it finds the recipient overdue
\* (handoff-store.ts:160, 216, 264; store.ts:2477-2497).
OffersWellFormed ==
  \A t \in Tasks : handoff[t] # "none" =>
    /\ offer[t].source \in Runs /\ offer[t].recipient \in Runs
    /\ status[offer[t].source] \in {"succeeded", "failed"}
    /\ status[offer[t].recipient] # "absent"
    /\ frozen[offer[t].recipient].task = t
    /\ handoff[t] = "proposed" => offerLeft[t] <= deadlineLeft[offer[t].recipient]

\* An approval belongs to a started run, and never to the recipient of a handoff:
\* whatever the specialist asks for, the owner gets no card to grant it
\* (docs/runtime/bounded-handoff.md:22; claude.ts:165-168).
ApprovalsWellFormed ==
  \A a \in Approvals : approval[a] # "absent" =>
    /\ approvalRun[a] \in Runs
    /\ status[approvalRun[a]] # "absent"
    /\ \A t \in Tasks : handoff[t] # "none" => offer[t].recipient # approvalRun[a]

\* A task has its current run and, once a handoff was proposed, the two runs of the
\* offer, and no other: there is one attempt per task and at most one handoff
\* (docs/runtime/bounded-handoff.md:10).
TaskHasFewRuns ==
  \A r \in Runs : \A t \in Tasks :
    status[r] # "absent" /\ frozen[r].task = t =>
      \/ r = currentRun[t]
      \/ handoff[t] # "none" /\ r \in {offer[t].source, offer[t].recipient}

-----------------------------------------------------------------------------
(* The invariants, as the runs check them                                  *)

\* Offers and approvals refer to runs that may have them, and an open offer to one
\* that can still answer it, whatever ends the two runs (store.ts:2472-2535).
References == OffersWellFormed /\ ApprovalsWellFormed /\ OpenOfferIsLive

\* A task has one attempt and at most one handoff, and its owner is the one the
\* handoff left it with (handoff-store.ts:80-120, 358-363).
TaskHistory == TaskHasFewRuns /\ OwnershipFollowsHandoff

\* The rows that repeat a run's status never contradict it: its task, its pending
\* actions and its approvals, which each transaction updates one by one
\* (run-lifecycle.ts:64-95; store.ts:1783-1788, 2236-2301).
RowsAgree ==
  TaskFollowsRun /\ LaunchIntentMatches /\ WaitingHasRequest /\ CanceledIsClosed

-----------------------------------------------------------------------------
(* Action properties, each with the step it allows                         *)

ResultStands ==
  \A r \in Runs : status[r] \in FinishedStatus /\ status'[r] # status[r] =>
    /\ status'[r] = "failed"
    /\ \E a \in Approvals :
         approvalRun[a] = r /\ approval[a] = "pending" /\ approval'[a] = "expired"

\* The only transaction that overwrites the result of a finished run is the expiry
\* of an approval that run left open, and it can only turn the run into a failed
\* one (store.ts:1142-1172, 2520-2529).
OnlyLateExpiryRewrites == [][ResultStands]_vars

CanceledStays == \A r \in Runs : status[r] = "canceled" => status'[r] = "canceled"

\* A canceled run stays canceled: no provider answer, sweep or restart revives it
\* (docs/runtime/bounded-handoff.md:14).
CanceledIsFinal == [][CanceledStays]_vars

InterruptedStaysDown ==
  \A r \in Runs : status[r] = "interrupted" =>
    status'[r] \in {"interrupted", "failed", "canceled"}

\* A restart never continues a run: an interrupted run only fails or is canceled
\* (docs/runtime/bounded-handoff.md:14).
InterruptedNeverResumes == [][InterruptedStaysDown]_vars

DecisionStands ==
  \A a \in Approvals : approval[a] \notin {"absent", "pending"} => approval'[a] = approval[a]

\* A decision on an approval is taken once and never revised, by a second command,
\* a sweep, a cancellation or a stop (ADR 0001:37; store.ts:1551, 1589, 1788).
DecidedOnce == [][DecisionStands]_vars

OwnershipStep ==
  \A t \in Tasks : taskBot[t] # "none" /\ taskBot'[t] # taskBot[t] =>
    /\ taskBot[t] = "mara" /\ taskBot'[t] = "ivo"
    /\ handoff[t] = "proposed" /\ handoff'[t] = "accepted"
    /\ offerLeft[t] > 0
    /\ status[offer[t].recipient] = "running" /\ ~latched

\* Ownership of a task moves at most once, from the coordinator to the specialist,
\* and only by an answer to an open offer that is still in time: an answer after
\* the expiry, a cancellation, a stop or a restart moves nothing
\* (docs/runtime/bounded-handoff.md:14).
OwnershipMovesOnce == [][OwnershipStep]_vars

\* What ended a run stands against late driver calls, sweeps and restarts, up to the
\* one overwrite that OnlyLateExpiryRewrites names (store.ts:2116-2165, 2520-2529).
EndingsHold == OnlyLateExpiryRewrites /\ CanceledIsFinal /\ InterruptedNeverResumes

\* What was decided stands: approvals, and who owns a task (store.ts:1551, 1589;
\* handoff-store.ts:308-363).
DecisionsHold == DecidedOnce /\ OwnershipMovesOnce

\* One terminal result per attempt: what the ADR says of a run and the store does
\* not keep, see OnlyLateExpiryRewrites (ADR 0001:17).
FinishedIsFinal ==
  [][\A r \in Runs : status[r] \in FinishedStatus => status'[r] = status[r]]_vars

-----------------------------------------------------------------------------
(* Liveness, under Fairness                                                *)

\* Every admitted run leaves its slot: by its result, or by its deadline.
EveryRunSettles ==
  \A r \in Runs : status[r] \in ActiveStatus ~> status[r] \notin ActiveStatus

\* Every approval is decided, closed or expires.
EveryApprovalSettles ==
  \A a \in Approvals : approval[a] = "pending" ~> approval[a] # "pending"

\* Every offer is answered or lapses, and the recipient's slot with it.
EveryOfferSettles ==
  \A t \in Tasks : handoff[t] = "proposed" ~> handoff[t] # "proposed"

\* Nothing the store admits stays open, although nobody has to answer: the sweep
\* ends runs, approvals and offers in one transaction (store.ts:2472-2535).
EverythingSettles == EveryRunSettles /\ EveryApprovalSettles /\ EveryOfferSettles

=============================================================================
