# Agentis in TLA+

Specifications of the agentis daemon and its browser workspace (`src/packages/cli`),
the TLC runs that check them on small instances, and TLAPS proofs about its store, its
drivers, its command log, its event stream, its Docker objects, its files and what the
browser is allowed and shown.

All paths below are relative to `src/packages/cli/src/` unless they start with
`docs/` or `packages/`.

## 1. The system

Agentis is a single-owner daemon. It stores tasks and runs in one SQLite file,
drives provider processes (Codex, Claude, or a fake) on behalf of two bots
(`mara`, the coordinator, and `ivo`, the specialist), and serves an HTTP API, an
event stream and a browser workspace. The owner submits tasks, decides approvals,
answers questions, hands a finished draft over to the specialist, cancels runs and
can latch *stop-all*.

| Component | State | Operations | Interacts with |
|---|---|---|---|
| Run store (`store.ts`, `run-lifecycle.ts`, `handoff-store.ts`) | tables runs, tasks, approvals, pending_actions, handoffs, stop_all | owner commands (`dispatch`), driver calls (`mutateForEngine`), `sweepRunTimeouts`, `interruptActive` | called by the HTTP handlers, the drivers and the sweep timer; every transaction appends to the transition log |
| Command log (`store.ts` `applyCommand`) | commands: idempotency key, payload digest, receipt | apply, replay, reject | its receipt's effects are applied by the engine after the commit |
| Engine (`engine.ts`) | none of its own | `applyReceiptEffects`: launch, load, dispatch or reject a tool, resume input, interrupt; the fake driver | reads a snapshot, starts a driver, awaits it |
| Files of a run (`verified-file.ts`, `store.ts`, `engine.ts`, `handoff-store.ts`) | source, brief and result in the run's workspace | stage, roll back, read back and compare digests, copy into a handoff | the workspace is writable by the provider's container |
| Codex driver (`codex.ts`) | `sessions` map; per session the pending RPCs, the pending server request, the thread | spawn, notices, finish, resolve, answer, interrupt | one JSON-RPC child per session, one container per run |
| Claude driver (`claude.ts`, `claude-bridge.ts`) | `sessions` map, permission bridge | one process per turn, permission requests, the two turns of a handoff | the same store calls; never gives a recipient an approval |
| Containers and provider network (`container.ts`, `claude-container.ts`, `provider.ts`) | Docker objects named after the run | create, inspect, remove | drivers, sweep, the daemon's start and close |
| Transition stream (`sse.ts`) | subscribers: cursor, queue | subscribe, pump, enqueue, flush, overflow | reads the transition log, feeds browsers |
| Browser sessions (`auth.ts`, `store.ts`) | bootstrap codes, sessions, acknowledgements | issue, exchange, authenticate, acknowledge | HTTP authority checks |
| Workspace client (`packages/cli/web/src/workspace-store.ts`) | snapshot, cursor, generation, retained command, artifact bytes | refresh, send command, open artifact, connect, resync, sign out | HTTP API and event stream |
| HTTP server (`http.ts`, `http-api.ts`) | connections, timers, the readiness probe of the provider | routes, start, close | everything above |
| Fixture runtime (`fixture-runtime.ts`, `fixture-daemon.ts`, `verify.ts`) | a container with a fixture daemon, a relay with one `docker exec` per connection | launch, relay, stop | Docker, a verifier's browser |

Where it is hard:

- *Interleaving.* Drivers await their providers between store calls, while the
  owner cancels, stops, answers and loads, the sweep expires things once a second,
  and a restart interrupts everything. Each transaction is atomic; a sequence of
  them is not.
- *Crash and restart.* A restart turns active runs into interrupted ones and leaves
  all other rows as they were.
- *Timeouts.* Runs have a deadline, approvals and offers a time to live; the sweep
  makes three passes over state that the earlier passes have changed.
- *Limits.* Two runs at a time and one per bot, 20 actions per run, 40 per task,
  counted at three places of admission and across the two runs of a task.
- *Delivery.* Commands may be retried while their first request is still under way;
  effects are applied after the commit; the event stream reconnects from a cursor.
- *A world that does not obey.* Docker commands fail halfway, a killed client has
  already asked for its container, and a provider rewrites the files of its workspace
  while they are read.

What makes each component correct: the store keeps its tables consistent with each
other whatever the order (section 3); the drivers end what the store has ended and
dispatch only what the owner allowed; the command log applies a key once; the
stream delivers every transition in order or says that it cannot; a bootstrap code
opens one session and nothing is sent to a provider the owner has not acknowledged;
a run's Docker objects go with it; and every byte that is read back, for a brief, a
handoff or the screen, is one that was committed.

## 2. The plan

The order is that of importance to the owner: what the store may hold, what the
providers may do, what the browser sees.

| # | Module | Models | Builds on | Proofs |
|---|---|---|---|---|
| 1 | `RunStore` | every transaction on runs, tasks, approvals, intents, handoffs, stop-all | | `RunStoreProofs` |
| 2 | `CodexDriver` | the Codex driver and the engine's effects, retries and restarts | extends `RunStore` and implements it | `CodexDriverProofs` |
| 3 | `EventFeed` | the promise of the event stream | | |
| 4 | `TransitionHub` | `sse.ts` and the part of the store it reads | implements `EventFeed` | `StreamProofs` |
| | `TransitionLog` | the transition log, as the hub and the page read it | | |
| 5 | `WorkspaceClient` | snapshot, stream and reconnection of the browser's `WorkspaceStore` | a stream as `EventFeed` promises it | `StreamProofs` |
| 6 | `ClaudeDriver` | one process per turn, the permission bridge, the two turns of a handoff | extends `RunStore` and implements it | `ClaudeDriverProofs` |
| 7 | `CommandOnce` | the promise of an idempotency key | | |
| 8 | `CommandLog` | the retained command of the page, the command handler and its probe, `applyCommand`, the effects, restarts | implements `CommandOnce` | `CommandLogProofs` |
| 9 | `BrowserAccess` | bootstrap codes, sessions, acknowledgements, tabs, expiry, a daemon restarted with another provider | | `BrowserAccessProofs` |
| 10 | `RunContainers` | creation and removal of the Docker objects of a run, command by command | the drivers reduced to who calls whom | `ContainerProofs` |
| 11 | `RunFiles` | the files of the runs and the rows that speak of them | | `ArtifactProofs` |
| 12 | `ArtifactPreview` | the download of an artifact and the preview in the page | | `ArtifactProofs` |
| 13 | `FixtureRuntime` | the launcher of the fixture container, its relay, its daemon | | `ContainerProofs` |

All of the plan is built, and every invariant and action property that a passing run
checks is also a theorem; the liveness properties stay with TLC (section 6). What could
come next are theorems that say more than the runs ask, for example of the drivers'
modules composed with a removal that may fail.

## 3. The modules

### RunStore

The tables are functions from identities. An action is one committed transaction:
an owner command (`SubmitTask`, `AllowApproval`, `DenyApproval`, `ResolveTooLate`,
`AnswerInput`, `CancelRun`, `StopAll`, `LoadSession`, `ProposeHandoff`), a driver
call (`MarkRunning`, `BumpAction`, `RequestApproval`,
`RequestInput`, `Complete`, `FailRun`, `FailRecipient`, `RejectOffer`,
`AcceptOffer`, `DecideTooLate`, `ClaimDraft`, `EndLoad`), `Sweep`, `InterruptActive` and
`Tick`. A rejected command writes a receipt only and is a stutter.

- Identities are minted: an action takes one that is `"absent"`.
- A time column is the number of ticks until it is reached; `Tick` lowers all of
  them. Only the order of expiries matters to the code, never their values.
- `TimeAssumption` states what the constants of `versions.ts` have in common with
  every other choice the code would work for: an offer lapses no later than its run.
- The texts of messages, artifacts and prompts are left out; whether a row refers
  to an artifact is kept (`latestArtifact`).

### CodexDriver

A *drive* is one HTTP handler inside `spawnCodex`, and afterwards the session it
leaves in the `sessions` map. `stage` follows the awaits of the handler: the
version check, the handshake, `turn/start`; every action is the code between two
awaits, with at most one store transaction, written as the `RunStore` action
itself. `todo` holds the effects of committed receipts that their handlers have not
applied yet, so a command and its effect are two steps with anything in between,
and a restart forgets them. What the app server sends is not tied to a turn: notices
about a turn act from the moment the session is there, during the handshake and during a
load too (`TurnCompletes`, `TurnInterrupted`, `ProviderFails`), and requests are taken in
any session that is not a load's (`TakesRequests`). `accepted`, `replayed` and `cut`
(loads that such a notice has cut short) are histories for the properties.

The boundary is Docker, where a run has at most one session: the name of its
provider network is taken while a session lives (`provider.ts:111-124`), so a second
`spawnCodex` throws. The stub host process of the tests has no such name.

### ClaudeDriver

`spawnClaude` returns once the container is started and leaves a detached body behind;
a drive is the handler up to there and the body and its session after. `turn` says what
the body is for (a prompt, a load, the decision or the draft of a handoff), `stage` which
await it is at; between the acceptance of a handoff and the claim of its draft the body
gives the event loop one turn (`yielding`), and an interrupt in it leaves a body without
a session (`lost`). The bridge looks a tool use up by its id when the owner's decision
arrives, so a decision for a use that the SDK aborted meanwhile runs nothing (`ran` is
the history). `claude.ts` drives the runs of ivo; the runs of mara, which hand over to
them, appear by their transactions alone (`MaraStep`). Like `CodexDriver` it extends
`RunStore`, and each action holds at most one of its transactions.

### RunContainers

The thread of the daemon waits for each docker command it gives, so `thread` is the
command it is at: of a spawn, with its undoing when it fails, or of a removal, in the
loop of an interrupt, a sweep, a start or a close. `docker run` is the one command left
running: its client creates, starts and attaches by its own steps, also after it was
killed. Every command may fail when `DockerFails`. The store is reduced to `row`, the
effects that are owed and the launches that are due. `failed` is a history of the runs
that an error left behind.

### CommandOnce and CommandLog

`CommandOnce` is what a key promises: decided at most once, carried out at most once
(unless it is a launch whose intent is open), every answer the decision. An effect owed
when the daemon dies is lost, not repeated. `CommandLog` follows one command from the
page that retains it, through the handler (authority, probe of the provider's
readiness, commit, effects, answer) to the command table; each is its own step, and the
page may lose the connection at any of them and retry with the same key. The readiness
probe is one promise that requests join, wait for, or read from a cache of a second
(`UnforcedRuntime`, `Probe`). Other clients use keys of their own choosing.

### BrowserAccess

Codes, sessions and tabs are drawn once each. Tabs share the cookies of the browser
(`jar`) but hold the CSRF token of the session they were opened with; a tab's request
(`call`) is authorized in one step and written in another, with the probe in between.
`Restart` may bring another provider, `Tick` lets codes and sessions expire. `consent`
records what the owner acknowledged in a tab, `admitted` what was accepted: the two
histories that `AdmittedWithConsent` compares.

### RunFiles

A file is absent, what the daemon wrote, or something else (`"other"`: a fragment, or
whatever somebody left in its place, nothing included). `thread` holds the
stretches in which a file and its row differ: the source staged inside a transaction that
may still roll back, the result removed and written (`Writes`, `Written`) before the run
is completed. Each of them may fail (`StageFails`, `RollsBack`, `FinishFails`) or be cut
short by a restart. `due` counts the launches of a run that are on their way: a
submission sent again while its launch is pending drives its run a second time, and a fake
run that the first drive has completed writes its result again. `littered` and `torn` are
histories of what such errors leave. `WorkspaceChanges` is the container of a run, or
anybody on the host when the run is a fake one. Who may write when is kept (`boxed`), what
is written is not.

### ArtifactPreview

`serveArtifact` opens the file, copies it chunk by chunk into a spool, compares the
digest of what was copied and streams the spool; `FileChanges` may come between any two
of these. In the page, `openArtifact` remembers the request of the last click, keeps
bytes that arrive complete, and shows them if nothing was opened or closed since.

### FixtureRuntime

`launcher` and `step` say which await of `launchVerify` or of its `stop` is under way;
the relay's connections are a socket, an entry in the set of relays and a `docker exec`
process, which end one after the other. The docker client, the container and the daemon
in it are processes of their own that die, hang or lag behind. Every docker command of
the launcher may fail when `DockerMayFail`; the daemon may stop reacting when `MayHang`.

### EventFeed and TransitionHub

`EventFeed` says what a subscriber may rely on: from its cursor on, every
transition, once, in order, until the stream ends. `TransitionHub` is `sse.ts`:
the record of a subscriber, the pump's pass, the closing of the hub. `subscribe`
and `#pump` read the log before an await and use the result after it; each is two
actions (`Subscribe`/`Activate`, `PumpReads`/`PumpSends`), and commits, drains,
errors and endings come between them. A socket is a number of frames it takes
before it asks to wait (`room`), chosen anew each time. `HubIsFeed` maps a record to
`EventFeed`: the link is open while the subscriber is active, the frames are those
written to the socket.

### WorkspaceClient

The browser's `WorkspaceStore` against the status route and one event stream. A
snapshot stands for its cursor. `flight` is `#refreshFlight`: `"asked"` until the
daemon reads its log (`Answer`), `"answered"` until the response is handled
(`SnapshotArrives`); requests and responses may be lost (`RefreshFails`), the session
may expire, a stream may fail at any moment and a cursor may be too old to be
served. `waiters` records who acts on a flight's failure, since `refresh` hands one
promise to all its callers. A command or an acknowledgement is under way while `calling`;
its answer may come after the page was signed out by somebody else, and it may itself sign
the page out (`CallIsRefused`), with a valid session too, since the daemon also answers
`forbidden` for a CSRF token or for a provider that is not eligible. The flight under way
survives that and may show the page again; `revived` is a history of such a page.

## 4. The runs

There is one run per component: its safety, its action properties and its liveness are
checked on one instance, so a property that holds does so for the very states that the
others talk about.

| Run | Instance | Distinct states | Question |
|---|---|---|---|
| `store` | 3 runs, 1 task, 2 approvals, both kinds of provider, 2 slots and 1 per bot, 2 actions per run, 3 per task, TTLs 1, deadline 2 | 134 354 | are the rows consistent, which steps may never happen, does everything that is open get closed |
| `codex` | the store with 1 run, 2 approvals, deadline 1; 2 handlers, retries | 277 173 | do driver and store agree on what is asked, allowed and alive; do handlers return and cancellations arrive |
| `claude` | the store with 2 runs of one task, 2 approvals, 1 slot; 2 handlers, retries | 447 721 | the same for the bridge and a handoff; are the slots bounded; does every session end |
| `hub` | 2 subscribers, log of 3, queue of 1, replay of 2 | 89 607 | does the hub implement `EventFeed`, does it strand nothing, does everything arrive |
| `client` | log of 5, replay of 2, 3 regressions | 39 207 | does an open page follow, by one stream, and show what it follows |
| `log` | 2 requests, a page and a client that may take its key, 2 bodies, restarts | 812 542 | is a command decided and carried out once, on a fresh readiness; does the page get an answer |
| `access` | 1 code, 2 sessions, 2 tabs, 2 sources, 2 providers | 1 833 294 | does a code make one session; is nothing admitted without consent; do rows stand |
| `containers` | a Claude and a Codex run, docker that fails, retries | 1 432 852 | is anything taken from a live session, left behind, or left running |
| `fixture` | 4 connections, limit 3, docker that fails, a daemon that may hang | 6 582 | is the limit kept, is nothing left, does every wait and every container end |
| `files` | 2 runs in containers, 1 fake run, 2 drives of a run | 2 187 732 | do rows and files agree, and does nothing changed go out |
| `preview` | 2 artifacts, one of them large, 2 requests, 2 chunks | 40 020 | is only what was committed served, what was chosen shown, and does loading end |
| `finished_is_final` | 2 runs, 1 approval | violation | disagreement 1 of section 5 |

The properties of a run are named for what they are about; several are conjunctions of
parts that have names of their own:

| Property | Parts |
|---|---|
| `References` | `OffersWellFormed`, `ApprovalsWellFormed`, `OpenOfferIsLive` |
| `TaskHistory` | `TaskHasFewRuns`, `OwnershipFollowsHandoff` |
| `RowsAgree` | `TaskFollowsRun`, `LaunchIntentMatches`, `WaitingHasRequest`, `CanceledIsClosed` |
| `EndingsHold` | `OnlyLateExpiryRewrites`, `CanceledIsFinal`, `InterruptedNeverResumes` |
| `DecisionsHold` | `DecidedOnce`, `OwnershipMovesOnce` |
| `EverythingSettles` | `EveryRunSettles`, `EveryApprovalSettles`, `EveryOfferSettles` |
| `CodexDriver!RunsAreServed` | `WaitingHasAsker`, `LoadingHasLoader`, `TurnHasSession` |
| `DriverSettles` | `HandlersReturn`, `CancelReachesProvider` |
| `SessionsFitRuns` | `TurnHasRun`, `DraftIsOwned`, `WaitingHasAsker`, `LoadingHasLoader` |
| `StreamsAccounted` | `TypeOK`, `NothingStranded`, `ClosedHubIsEmpty` |
| `FollowsOnce` | `ClientTypeOK`, `NeverDeaf`, `OneReconnection`, `SignedOutIsClosed` |
| `SessionsStand` | `AcknowledgementsStay`, `ExpiredGetsNothing` |
| `NothingEscapes` | `ExecsBounded`, `StoppedLeavesNothing` |
| `LaunchesEnd` | `StopSettles`, `LeavesNothing`, `SupervisorGoneEndsAll` |
| `FilesFitRows` | `RowsHaveFiles`, `OnlyCutShortLeaves` |

Why the bounds are enough. A task has at most two runs, so three identities on one task
(`store`) are a complete handoff and one to take if the code ever let a task have a
third run; two approvals let one be open while another is decided; two actions per run
and three per task put both budgets at their limit within one handoff, which needs
three. A deadline of two ticks and lives of one let each expire before, together
with and after the others, in the only order the constants allow. No transaction relates
two tasks but through the slots; those are at their limit in `claude`, where one slot is
contended for by a load of the source and the recipient of its handoff, and are bounded
for any number of tasks by a proof (section 6).

In `codex` two handlers of one run are what a retry makes; a third would be a second
retry, which fails as the first did. A second approval is the request that meets the
decision of the first. In `claude` two runs are the source of a handoff and its
recipient, two handlers a launch and its retry, a second approval the tool use that
follows an aborted one, and two actions per run put the draft's prompt at the limit. The hub's queue limit of 1 makes the queue empty, full and overfull
with a log of 3, and the replay limit of 2 makes cursors expire. Three snapshots behind
the cursor need a log of one, and expired cursors a log of three. One call of the page at a
time is all its `busy` flag lets through. Two drives of a run are a submission and its
retry (`MaxDrives`); a third would write again what the second wrote.

Two requests are a first one that is lost and a retry that overlaps it, or a request of
the page and one of the client that reuses its key, with the same body or another; one
body that asks for the provider and one that does not are all the handler tells apart.
Two sessions could come of the one code that two tabs open. Times of one and two let
codes and sessions expire under a waiting handler. Two runs make a loop of removals that
a failure can cut short, one of each driver; their docker objects do not touch each
other's. Four connections over a limit of three are one too many while the other three
are at different ends of closing. Two chunks let a file change between the first and the
last. Every bound on a counter (`MaxCursor`, `MaxTime`, `MaxDrives`, the sets of
identities) is a constant of its module.

Symmetry: codes, tokens, tabs and sources (`MCBrowserAccess`) and the runs of either
kind (`MCRunFiles`) are interchangeable, since no action names one; these two runs check
safety only. Deadlock checking is off where the system does stop: subscribers end for
good (hub), a signed-out page has nothing left to do (client), the finite supplies of
requests, of codes and of time are used up (log, access), and a launcher is over
(fixture). The store and the drivers always have a step, since time goes on; containers,
files and previews never stop either.

### Fairness

- `FairSpec` of the store: the clock and the one-second sweep timer
  (`http.ts:321-327`), which is synchronous and cannot be starved. No driver, owner
  or restart is assumed to do anything.
- `FairDriverSpec`: an effect of a committed receipt is applied, a Docker command
  returns, and every JSON-RPC request has a timer (`codex.ts:202-228`). The provider
  owes nothing, so no property says that a turn ends by itself.
- `FairDriverSpec` of the Claude driver: a handler and a detached body go on, and each of
  their requests has a timer (`claude.ts:139-151`). The SDK owes nothing, and the
  effects of receipts need not be applied for the sessions to end.
- `CommandLog!FairSpec`: handlers and probes go on, and the page learns of an answer or
  of a connection that is gone.
- `FairFixtureSpec`: every wait of the launcher has a timeout or ends with a
  process that was told to end; Docker gets on with a container; the daemon reacts unless
  it hangs, and the two properties that rest on the daemon name that as their
  antecedent. Nobody has to connect, to signal or to fail.
- `RunContainers` has none: what a removal that fails leaves behind stays.
- `ArtifactPreview!FairSpec`: handlers read on, and the page takes what arrives.
- `FairHubSpec`: the 100 ms timer fires and the awaited read of the log ends. That a
  socket drains is up to the browser; `EveryTransitionArrives` names it as its
  antecedent.
- `FairClientSpec`: a request is answered or fails, a stream opens or fails, delivers
  what it holds, and the reconnect timer fires. Nothing is assumed of how often they
  fail.

## 5. Where the code and the documents disagree

The first of these has a run. For the others the sentence of the document is an operator
of the module (in parentheses); add it to the cfg of the module's run and TLC shows the
trace. The properties of the runs are worded for what the code does.

1. **A finished run is not final** (`FinishedIsFinal`, run `finished_is_final`).
   `docs/adrs/0001-runtime-and-execution-foundations.md:17` asks for one terminal
   result per attempt. A provider may end its turn while an approval is open;
   `complete` leaves the approval pending, and the sweep later expires it and calls
   `finishRun` on a run that has succeeded (`store.ts:2520`, `1142-1172`).
   `OnlyLateExpiryRewrites` and its proof say that this is the only rewriting there is.
2. **A terminal run may keep its provider** (`CodexDriver`: `TerminalCleanup`).
   `docs/provider-setup.md:39` says that terminal cleanup removes a run's containers.
   A submission retried before its provider has started drives the run a second time;
   the second spawn fails on the network's name, the engine fails the run
   (`engine.ts:190-197`), and the first session goes on. `OrphanNeedsReplay` shows that
   every other end of a run takes its provider down, or has an effect due that will.
3. **The page's cursor can move back** (`WorkspaceClient`: `CursorMovesForward`).
   `docs/runtime/client-state-ownership.md:9` says that it only moves forward. The
   third snapshot in a row below it sets it back (`workspace-store.ts:217-219`).
4. **A retried proposal launches again** (`ClaudeDriver`: `OneLaunch`).
   `docs/runtime/bounded-handoff.md:10` says that replaying its key returns the receipt
   "without another launch". Until the recipient has reported its native session the
   launch intent is pending, and a replay calls `spawnClaude` a second time
   (`engine.ts:125`); the network's name is taken, and the failure of the second spawn
   fails the run and interrupts the first one.
5. **A failing removal ends the sweep** (`RunContainers`: `EndedHasNoSession` without
   its exception). `docs/provider-setup.md:39` again: `applySweepEffects` interrupts the
   runs it has ended in a loop without a catch (`http.ts:118`); when one removal throws,
   the runs after it are ended in the store and keep their sessions and containers until
   a restart. `failed` records them, and the Codex run whose second spawn failed;
   `EndedHasNoSession` says that no other session outlives its run.
6. **A retry is refused although the log has its receipt** (`CommandLog`:
   `RepeatGetsResult`). `docs/research/execution-boundaries/README.md:88` says that a
   duplicate returns the existing result. The handler asks for the provider's readiness
   before it looks at the log (`http-api.ts:347`), and the page takes the refusal for a
   lost session, drops the retained key and signs out.
7. **A closed preview keeps its bytes** (`ArtifactPreview`: `ClosedKeepsNothing`).
   `docs/runtime/client-state-ownership.md:11` says "discarded on close"; `closeArtifact`
   leaves them in `#artifactBytes` (`workspace-store.ts:341`).

Behaviour that no document contradicts, and that the properties are worded for:

- A load whose run is canceled or expires meanwhile keeps `loadStatus = 'loading'`, and
  its slot, until stop-all or a restart: the interrupt drops the session, and the
  rejected request is nobody's any more (`LoadingHasLoader` names the two statuses for
  which a load is certain to have a loader). The same happens to a Codex load that the app
  server answers with a notice that a turn was interrupted or completed
  (`codex.ts:499-532`): it ends the session and, for a run that is over, nothing else.
  `cut` records these loads. In the Claude driver every failure ends the load.
- The pump reads from the cursor of the slowest subscriber; when that has expired,
  every subscriber of the pass is told to resync, also one that is up to date
  (`sse.ts:93-101`). Being ended early is within `EventFeed`'s promise.
- A refresh that a transition has started is not retried when it fails, as long as the
  stream stays open: the page shows the older snapshot until the next transition.
  `lapse` marks this in `SnapshotIsFresh` and `ChangesAreShown`.
- A page that a refused command has signed out is shown again by a snapshot that was on
  its way, with a stream if the snapshot is up to date. If it is older than the cursor the
  page asks again, and when that request is lost it stays open without a stream, a timer
  or a refresh until the owner acts. `revived` marks this page in `NeverDeaf`.
- A command whose daemon dies between the commit and the effects is answered on its
  retry, and its effect is not carried out: `CommandOnce` says "lost, not repeated". Only
  a launch is recovered, through its intent.
- A container that a killed docker client creates late never starts and stays until the
  next removal of its run; `NothingForgotten` leaves it out, and so does `LeavesNothing`
  for the fixture's container (`NeverStarted`).
- A session is bound to the provider it was opened under. After a restart with another
  one its tabs can read, and need a new bootstrap to submit.
- A failed write of a source leaves a file that no rollback knows of, as a crash does; so
  does a rollback when SQLite has already rolled back by itself, since `ROLLBACK` then
  throws before the staged files are removed (`store.ts:616-618`). `littered` in
  `OnlyCutShortLeaves` names these; the file is never read, since its run has no row.
- A fake run that is driven twice writes the result of a run that has succeeded a second
  time (`engine.ts:125-130`, `289-326`, where the result of `markRunning` is not looked
  at). The old file is removed first (`scratch-file.ts:6`), so a write that fails or is
  cut short leaves a succeeded run without its result; `torn` in `RowsHaveFiles` names
  it, and says that this happens to fake runs only.

## 6. What is proved

TLAPS proves the following for every value of the constants that satisfies the named
assumptions (`IdentityAssumption`, `LimitAssumption`, `TimeAssumption`,
`DriveAssumption`, `RequestAssumption`, `DraftAssumption`, `HubAssumption`,
`ClientAssumption`, `LogAssumption`, `VerdictAssumption`, `AccessAssumption`,
`RowAssumption`, `ContainerAssumption`, `FixtureAssumption`, `RunFilesAssumption`,
`PreviewAssumption`). They say which sets and limits make sense, and that the value for
"nothing there" is no row.

A proof module that covers two specifications extends both; for that `WorkspaceClient`,
`RunFiles` and `FixtureRuntime` prefix the names that every specification has
(`ClientInit`, `FilesNext`, `FixtureSpec`).

`RunStoreProofs`: `TypeCorrect`, `Admission` and all the safety invariants and action
properties of `store`, each part of them by name. Few invariants are inductive alone:

- `References` joins `OffersWellFormed`, `ApprovalsWellFormed` and `OpenOfferIsLive`:
  that an open offer's recipient is alive depends on every transaction that ends a run
  closing the offer, hence on which run each offer and approval names.
- `CanceledIsClosed` and `StopQuiesces` rest on `References`.
- `TaskHistory` joins `TaskHasFewRuns` and `OwnershipFollowsHandoff`: a task changes
  hands by its one offer because it has no other run, and has no other run because a
  proposal needs a task without an offer.
- `BudgetReserved` counts what the recipient may still spend and needs both.
- `Admission` is an argument on cardinalities: every step leaves the set of runs that
  hold a slot alone, shrinks it, or adds one run that was admitted.

`LoadsAreOver` and the two lemmas before it are what the drivers' proofs need of the
store: what of a row a step may change (`RunMoves`: runs come into being and end once,
and keep their provider's session; `RecordsStand`: what a run was started with and an
accepted handoff stand).

`CodexDriverProofs`: `DriverImplementsStore`, that every step of the driver is a step
of `RunStore` or leaves the store alone. What is proved of the store therefore holds of
it under these handlers, retries and restarts; four corollaries say so by name. The
strengthening is `DriveType`: a busy drive works for a run that exists.

The second half proves what the driver adds: `AcceptsWhatIsAllowed`, `OrphansNeedReplays`
and `RunsHaveServants`. Their invariant relates three things that the code keeps apart,
the `sessions` map, the rows and the effects that are due:

- what is in memory fits the rows: a run has one session (`OneSession`), a busy drive has
  a run, and for a load one that is over (`BusyWithRun`), a run that succeeded or was
  interrupted has no session of its launch left (`LaunchLives`), only the session of a
  launch asks (`TurnIsLaunch`), and a load shown has its loader, unless its run was ended
  or a notice cut it short;
- an effect that is due to interrupt or refuse is for a run that has ended for good
  (`EndsAreDue`), so that no late one takes down a run that goes on;
- who holds each request (`RequestInv`): a pending approval or question has the session
  that asked it, a dispatch that is due meets the request it allows or none
  (`DispatchMeetsAllowed`), and likewise an answer and a refusal. With `DecidedOnce` this
  gives `AcceptedInv`, since an approval once allowed stays allowed;
- two drives launch one run only if its submission was replayed (`TwoNeedReplay`), which
  is the one way to an orphan.

`StreamProofs`: `HubImplementsFeed`, the refinement itself, and the hub's three
invariants. The strengthening (`HubInv`) says of each subscriber that what was sent and
what is queued are two adjoining runs of cursors which start after the one it asked
for (`Lined`), and of a pass under way that its window starts no later than what any
subscriber it will serve has accepted (`Timely`), which is why a window read before an
await can be applied after it without a gap. At the other end of the stream are
`PageFollowsOnce` and `SnapshotsAreFresh`. `PageFits` says who will act next in each phase
of the page: one without a stream and without a timer has a refresh that the timer asked
for, so that its failure sets the timer again, or was opened again after it was signed
out. `Counted` says where a transition is that
the stream has delivered: in the snapshot, in the answer on its way, or behind the cursor
that the page remembers.

`ClaudeDriverProofs`: `ClaudeImplementsStore`, by the same argument as for Codex with the
other handlers, the detached body and its failures; corollaries carry the store's
theorems over, among them that no recipient of a handoff ever has an approval.
`RunsWhatIsAllowed` and `SessionsFit` are proved from `DriverInv`, which differs from the
Codex driver's where the code does: `TurnsFit` relates the turn of a body to the row of its
run and to its stage (only the turn of a task asks, only a decision yields, and its body
is lost only with its run), `DraftClaimed` says that a draft is prompted by the run that
owns the task and has claimed the intent, `TurnServes` that a body at work has a run that
is not over, is about to be stopped or was replayed, `LoadingHasLoader` that a load shown has its body.
`RanInv` comes from `DispatchMeetsAllowed` as for Codex: whatever was aborted and asked
anew meanwhile, the closure that a decision meets is that of the allowed use, or of none.

`CommandLogProofs`: `LogImplementsOnce`, the refinement of `CommandOnce`, and
`AdmissionWasReady`. `LogInv` says what is known of a request by its stage: its effect is
due between the commit and its application only, of at most one request per key (the
first; all others find the key in the log), and a reply says what the log says. That
uniqueness is what makes an application of an effect a step that carries it out once.
`ReadyInv` relates each probe to what its joiners will read.

`BrowserAccessProofs`: `CodeOpensOnce`, `OwnerAcknowledges`, `ConsentBeforeAdmission`,
`AcknowledgementsLast`, `ExpiryIsFinal` and, of the last two, `SessionsAreStanding`.
`OwnerAcknowledges` takes two codes to say anything, more than the run has, and is shown
by its proof alone. `CodesUsed` says that a code with a session is
consumed or deleted, in the same step that makes the session; `CallsConsented` that a
request that is authorized carries what the owner decided in a tab of the session it is
written to, which is where the CSRF token, compared with the cookie, is needed.

`ContainerProofs`: `NetworksServe`, `NothingIsForgotten`, `EndedLoseSessions` and
`StartsClean`, for any number of runs and whatever Docker refuses. The one thread makes
the argument: `ThreadFits` and `HandsFit` say what it has in hand and how far it is, that
the run in hand has no session once its network is made or its removal has begun, and
`SessionsFit` and `Kept` that everything else without a session is gone, recorded in
`failed`, or still to be visited by the loop under way. `StartFits` is the same for a
start, which stops at its first error; a start that goes through has visited every run.
For the fixture, `FixtureLeavesNothing`: the relay's set is the set of `docker exec`
processes until the launcher crashes (`RelayKept`), so that the comparison with the limit
bounds them, by an argument on cardinalities; and the docker client that created the
container creates no second one (`BoxKept`), so that what is removed stays away.

`ArtifactProofs`: `OnlyCommittedServed`, `OnlyChosenShown`, for any number of chunks.
`Honest` says that a handler that sends has a spool that is the committed text, that what
was sent is a prefix of it, and that what the page keeps is nothing or all. Of the files
of the runs, `UnchangedGoesOut`, `FilesBehindRows`, `RollbackIsClean` and, of the last
two, `FilesFitTheirRows`. `Staging` says what the thread holds between a file and its row
(a result that is being written for a run that has succeeded is `torn` until it is there),
that only fake runs are written to again, and that only a run with a row has a container
that could write.

Only model-checked is what is temporal with fairness, since liveness, and `ENABLED` with
it, is out of the prover's reach here: `EverythingSettles`, `DriverSettles`,
`SessionsEnd`, `EveryTransitionArrives`, `ChangesAreShown`, `RequestEnds`, `LaunchesEnd`
and `PreviewSettles`. `FinishedIsFinal` is false.

## 7. What is not modelled

`PROJECT.json` lists every component. Not modelled, because they hold no state whose
order could go wrong: argument parsing and printing of the CLI, the provider's login and
provisioning (one CLI invocation at a time, the daemon's store untouched), rendering,
static capability tables, type declarations, the construction of Docker command lines,
static files, and release and research scripts. Texts (briefs, plans, prompts, errors,
stderr) are abstracted everywhere.

What the modelled parts leave out: the modules are composed where one's order matters to
the other (`RunStore` in the two drivers, `EventFeed` under the client), and meet
elsewhere by a reduced form of their neighbour. Container failures are in
`RunContainers`, and removal always succeeds in the drivers' modules. Handoffs are
composed with `ClaudeDriver` only, since `claude.ts` drives every recipient. A read of
the store changes nothing and is no action. The `close` event that follows the exit of
every `docker exec` is assumed (`ChildEnds`). A spool left behind by a crash is a file in
the system's temporary directory and is left out of `ArtifactPreview`.

## 8. Reproducing

In this directory, with TLC, the community modules and TLAPS installed:

    tlc -config RunStore.cfg RunStore              # any run: cfg and module of PROJECT.json
    tlc -config MCBrowserAccess.cfg MCBrowserAccess
    tlapm RunStoreProofs.tla                       # any module named *Proofs

The operators whose names have an underscore (`HasSlot_OffByOne`) are not part of the
specifications: each is a plausible bug in the operator it is named after, and
`PROJECT.json` says which property TLC finds violated when it takes that operator's
place.
