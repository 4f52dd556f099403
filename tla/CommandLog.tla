----------------------------- MODULE CommandLog -----------------------------
(***************************************************************************)
(* A command from the page that sends it to the log that decides it once:  *)
(* the retained command of the page (workspace-store.ts), the command      *)
(* handler with its readiness probe (http-api.ts), the command table       *)
(* (store.ts) and the effects after the commit (engine.ts).                *)
(*                                                                         *)
(* A handler awaits the probe before it commits and applies the effects    *)
(* after; the page may lose the connection at any time and retry while the *)
(* first request is still under way.                                       *)
(***************************************************************************)
EXTENDS Integers, FiniteSets

CONSTANTS
  PageKeys,  \* random, never used by anybody else
  ApiKeys,   \* chosen by the owner's other clients
  Bodies,    \* command payloads
  Gated,     \* those that are submit_task
  Launching, \* those that launch a run: submit_task and propose_handoff
  Requests,  \* identities of requests
  None,
  Restarts   \* whether the daemon may restart

Keys == PageKeys \cup ApiKeys

ASSUME LogAssumption ==
  /\ PageKeys \cap ApiKeys = {} /\ None \notin Keys \cup Requests
  /\ Gated \subseteq Launching /\ Launching \subseteq Bodies
  /\ Requests \subseteq Nat /\ None \notin Bodies
  /\ Restarts \in BOOLEAN

VARIABLES
  retained, \* the command the page retains: its key and body, or None
  page,     \* idle, waiting, refreshing, signedOut
  awaited,  \* the request the page waits for
  label,    \* the page offers a retry
  session,  \* the browser session is live
  request,  \* the requests and their handlers
  log,      \* the command table
  intent,   \* keys with a pending launch intent
  eligible, \* external: the provider is ready
  probe,    \* browserRuntime in flight: none, open, or what it has read
  since,    \* the provider was ready at some time since the probe began (history)
  current,  \* what the last probe has read
  done,     \* how often the effect of a key was applied (history)
  told      \* the answers each key's senders were given (history)

client == <<retained, page, awaited, label>>
runtime == <<eligible, probe, since, current>>
vars == <<client, session, request, log, intent, runtime, done, told>>

Stage == {"unused", "sent", "probing", "cleared", "committed", "answered", "gone"}
Reply == {"none", "accepted", "rejected", "conflict", "failed", "forbidden", "unauthorized"}

Verdict == [body : Bodies, accepted : BOOLEAN]

\* A key that is not in the log has no verdict
ASSUME VerdictAssumption == None \notin Verdict

Request ==
  [key : Keys \cup {None}, body : Bodies \cup {None}, page : BOOLEAN, stage : Stage,
   due : BOOLEAN, replayed : BOOLEAN, reply : Reply, ready : BOOLEAN]

TypeOK ==
  /\ retained \in [key : Keys \cup {None}, body : Bodies \cup {None}]
  /\ page \in {"idle", "waiting", "refreshing", "signedOut"}
  /\ awaited \in Requests \cup {None}
  /\ label \in BOOLEAN /\ session \in BOOLEAN /\ eligible \in BOOLEAN /\ since \in BOOLEAN
  /\ request \in [Requests -> Request]
  /\ log \in [Keys -> Verdict \cup {None}]
  /\ intent \subseteq Keys
  /\ probe \in {"none", "open", "ready", "refused"}
  /\ current \in {"none", "ready", "refused"}
  /\ done \in [Keys -> Nat]
  /\ told \in [Keys -> SUBSET BOOLEAN]

Nothing == [key |-> None, body |-> None]

Unsent ==
  [key |-> None, body |-> None, page |-> FALSE, stage |-> "unused", due |-> FALSE,
   replayed |-> FALSE, reply |-> "none", ready |-> FALSE]

At(i, stage) == request[i].stage = stage

\* Of a request that is over only its key is remembered
Over(i) == [Unsent EXCEPT !.key = request[i].key, !.stage = "gone"]

\* The handler of request i answers
Answers(i, reply) ==
  request' = [request EXCEPT ![i].stage = "answered", ![i].reply = reply, ![i].ready = FALSE]

\* Requests are numbered as they are sent
FreshRequest(i) == At(i, "unused") /\ \A j \in Requests : At(j, "unused") => i <= j

-----------------------------------------------------------------------------
(* The page                                                                *)

Dispatch(i, command) ==
  /\ FreshRequest(i)
  /\ request' = [request EXCEPT ![i] =
       [Unsent EXCEPT !.key = command.key, !.body = command.body, !.page = TRUE,
                      !.stage = "sent"]]
  /\ page' = "waiting" /\ awaited' = i /\ label' = FALSE

\* A random key has not been used by anybody
Unused(k) == \A i \in Requests : request[i].key # k

SendCommand(i, k, b) ==
  /\ page = "idle" /\ retained = Nothing /\ k \in PageKeys /\ Unused(k)
  /\ retained' = [key |-> k, body |-> b]
  /\ Dispatch(i, [key |-> k, body |-> b])
  /\ UNCHANGED <<session, log, intent, runtime, done, told>>

\* Another command while one is retained only brings the offer back
SendAnother ==
  /\ page = "idle" /\ retained # Nothing /\ ~label
  /\ label' = TRUE
  /\ UNCHANGED <<retained, page, awaited, session, request, log, intent, runtime, done, told>>

ClearError ==
  /\ page # "signedOut" /\ label
  /\ label' = FALSE
  /\ UNCHANGED <<retained, page, awaited, session, request, log, intent, runtime, done, told>>

RetryCommand(i) ==
  /\ page = "idle" /\ retained # Nothing /\ label
  /\ Dispatch(i, retained)
  /\ UNCHANGED <<retained, session, log, intent, runtime, done, told>>

Tell(i) == told' = [told EXCEPT ![request[i].key] = @ \cup {request[i].reply = "accepted"}]

\* A receipt, accepted or not
ReceiptArrives(i) ==
  /\ page = "waiting" /\ awaited = i /\ At(i, "answered")
  /\ request[i].reply \in {"accepted", "rejected"}
  /\ request' = [request EXCEPT ![i] = Over(i)]
  /\ retained' = Nothing /\ awaited' = None
  /\ page' = IF request[i].reply = "accepted" THEN "refreshing" ELSE "idle"
  /\ Tell(i)
  /\ UNCHANGED <<label, session, log, intent, runtime, done>>

\* authenticationFailed: the command is dropped and the page signs itself out
RefusalArrives(i) ==
  /\ page = "waiting" /\ awaited = i /\ At(i, "answered")
  /\ request[i].reply \in {"forbidden", "unauthorized"}
  /\ request' = [request EXCEPT ![i] = Over(i)]
  /\ retained' = Nothing /\ awaited' = None /\ page' = "signedOut"
  /\ UNCHANGED <<label, session, log, intent, runtime, done, told>>

\* Any other error, that of a connection that is lost under the request included
ErrorArrives(i) ==
  /\ page = "waiting" /\ awaited = i
  /\ request' = IF At(i, "answered") THEN [request EXCEPT ![i] = Over(i)] ELSE request
  /\ awaited' = None /\ page' = "idle" /\ label' = TRUE
  /\ UNCHANGED <<retained, session, log, intent, runtime, done, told>>

RefreshEnds ==
  /\ page = "refreshing"
  /\ page' = "idle"
  /\ UNCHANGED <<retained, awaited, label, session, request, log, intent, runtime, done, told>>

\* The page is reloaded, with the session it has or a new one
Reload ==
  /\ retained' = Nothing /\ page' = "idle" /\ awaited' = None /\ label' = FALSE
  /\ session' = TRUE
  /\ UNCHANGED <<request, log, intent, runtime, done, told>>

-----------------------------------------------------------------------------
(* The owner's other clients                                               *)

ApiSend(i, k, b) ==
  /\ k \in ApiKeys
  /\ FreshRequest(i)
  /\ request' = [request EXCEPT ![i] =
       [Unsent EXCEPT !.key = k, !.body = b, !.stage = "sent"]]
  /\ UNCHANGED <<client, session, log, intent, runtime, done, told>>

ApiReply(i) ==
  /\ ~request[i].page /\ At(i, "answered")
  /\ request' = [request EXCEPT ![i] = Over(i)]
  /\ IF request[i].reply \in {"accepted", "rejected"} THEN Tell(i) ELSE UNCHANGED told
  /\ UNCHANGED <<client, session, log, intent, runtime, done>>

\* Nobody waits for it any more
ReplyLost(i) ==
  /\ At(i, "answered") /\ (request[i].page => awaited # i)
  /\ request' = [request EXCEPT ![i] = Over(i)]
  /\ UNCHANGED <<client, session, log, intent, runtime, done, told>>

-----------------------------------------------------------------------------
(* The handler: authority, readiness, commit, effects                      *)

Unauthorized(i) ==
  /\ At(i, "sent") /\ request[i].page /\ ~session
  /\ Answers(i, "unauthorized")
  /\ UNCHANGED <<client, session, log, intent, runtime, done, told>>

NeedsProbe(i) == request[i].page /\ request[i].body \in Gated

Authorized(i) ==
  /\ At(i, "sent") /\ (request[i].page => session)
  /\ ~NeedsProbe(i)
  /\ request' = [request EXCEPT ![i].stage = "cleared"]
  /\ UNCHANGED <<client, session, log, intent, runtime, done, told>>

\* A probe in flight is joined, whenever it began
StartOrJoin ==
  /\ probe' = IF probe = "none" THEN "open" ELSE probe
  /\ since' = IF probe = "none" THEN eligible ELSE since
  /\ UNCHANGED <<eligible, current>>

\* runtime(true)
ForcedRuntime_Cached(i) ==
  /\ At(i, "sent") /\ session /\ NeedsProbe(i)
  /\ IF current = "ready"
     THEN request' = [request EXCEPT ![i].stage = "cleared", ![i].ready = eligible]
     ELSE request' = [request EXCEPT ![i].stage = "probing", ![i].ready = eligible]
  /\ StartOrJoin
  /\ UNCHANGED <<client, session, log, intent, done, told>>

ForcedRuntime(i) ==
  /\ At(i, "sent") /\ session /\ NeedsProbe(i)
  /\ request' = [request EXCEPT ![i].stage = "probing",
                                ![i].ready = eligible \/ since]
  /\ StartOrJoin
  /\ UNCHANGED <<client, session, log, intent, done, told>>

\* Snapshots ask too, and take the last answer for a second
UnforcedRuntime ==
  /\ probe = "none"
  /\ StartOrJoin
  /\ UNCHANGED <<client, session, request, log, intent, done, told>>

ProbeReads ==
  /\ probe = "open"
  /\ probe' = IF eligible THEN "ready" ELSE "refused"
  /\ UNCHANGED <<client, session, request, log, intent, eligible, since, current, done, told>>

Woken_First(i) == At(i, "probing") /\ \A j \in Requests : At(j, "probing") => i <= j

\* The one promise wakes all who joined it
Woken(i) == At(i, "probing")

ProbeEnds ==
  /\ probe \in {"ready", "refused"}
  /\ request' = [i \in Requests |->
       IF ~Woken(i) THEN request[i]
       ELSE IF probe = "ready" THEN [request[i] EXCEPT !.stage = "cleared"]
       ELSE [request[i] EXCEPT !.stage = "answered", !.reply = "forbidden", !.ready = FALSE]]
  /\ current' = probe /\ probe' = "none" /\ since' = FALSE
  /\ UNCHANGED <<client, session, log, intent, eligible, done, told>>

\* A key that the log has is not decided again
Prior_Accepted(i) == log[request[i].key] # None /\ log[request[i].key].accepted

Prior(i) == log[request[i].key] # None

\* The commit, with the effect it owes and, for a launch, its intent
Decides(i, accepted, due) ==
  LET r == request[i] IN
  /\ At(i, "cleared") /\ ~Prior(i)
  /\ r.body \in Launching => due = accepted
  /\ log' = [log EXCEPT ![r.key] = [body |-> r.body, accepted |-> accepted]]
  /\ intent' = IF accepted /\ r.body \in Launching THEN intent \cup {r.key} ELSE intent
  /\ request' = [request EXCEPT ![i].stage = "committed", ![i].due = due, ![i].ready = FALSE,
                                ![i].reply = IF accepted THEN "accepted" ELSE "rejected"]
  /\ UNCHANGED <<client, session, runtime, done, told>>

\* dispatch throws and the transaction is rolled back
DispatchThrows(i) ==
  /\ At(i, "cleared") /\ ~Prior(i)
  /\ Answers(i, "failed")
  /\ UNCHANGED <<client, session, log, intent, runtime, done, told>>

Conflicts(i) ==
  /\ At(i, "cleared") /\ Prior(i)
  /\ log[request[i].key].body # request[i].body
  /\ Answers(i, "conflict")
  /\ UNCHANGED <<client, session, log, intent, runtime, done, told>>

Replays_WithEffects(i) ==
  LET was == log[request[i].key] IN
  /\ At(i, "cleared") /\ Prior(i) /\ was.body = request[i].body
  /\ request' = [request EXCEPT ![i].stage = "committed", ![i].due = was.accepted, ![i].ready = FALSE,
       ![i].reply = IF was.accepted THEN "accepted" ELSE "rejected"]
  /\ UNCHANGED <<client, session, log, intent, runtime, done, told>>

\* The receipt of the first time, without its effects
Replays(i) ==
  LET was == log[request[i].key] IN
  /\ At(i, "cleared") /\ Prior(i) /\ was.body = request[i].body
  /\ request' = [request EXCEPT ![i].stage = "committed", ![i].replayed = TRUE, ![i].ready = FALSE,
       ![i].reply = IF was.accepted THEN "accepted" ELSE "rejected"]
  /\ UNCHANGED <<client, session, log, intent, runtime, done, told>>

\* applyReceiptEffects: the effects that are due, or a launch that is still pending
Applies(i) ==
  \/ request[i].due
  \/ request[i].replayed /\ request[i].key \in intent

ApplyReceiptEffects(i) ==
  /\ At(i, "committed")
  /\ done' = IF Applies(i) THEN [done EXCEPT ![request[i].key] = @ + 1] ELSE done
  /\ request' = [request EXCEPT ![i].stage = "answered", ![i].due = FALSE]
  /\ UNCHANGED <<client, session, log, intent, runtime, told>>

\* An interrupt whose container cannot be removed throws; a launch that fails does not
EffectsThrow(i) ==
  /\ At(i, "committed") /\ request[i].due /\ request[i].body \notin Launching
  /\ request' = [request EXCEPT ![i].stage = "answered", ![i].due = FALSE,
                                ![i].reply = "failed"]
  /\ UNCHANGED <<client, session, log, intent, runtime, done, told>>

-----------------------------------------------------------------------------
(* External, and the daemon's restart                                      *)

\* The native session reports, or the run is canceled
IntentCloses(k) ==
  /\ k \in intent
  /\ intent' = intent \ {k}
  /\ UNCHANGED <<client, session, request, log, runtime, done, told>>

EligibilityChanges ==
  /\ eligible' = ~eligible
  /\ since' = (since \/ (probe # "none" /\ eligible'))
  /\ request' = [i \in Requests |->
       IF At(i, "probing") THEN [request[i] EXCEPT !.ready = @ \/ eligible'] ELSE request[i]]
  /\ UNCHANGED <<client, session, log, intent, probe, current, done, told>>

SessionExpires ==
  /\ session
  /\ session' = FALSE
  /\ UNCHANGED <<client, request, log, intent, runtime, done, told>>

\* Handlers die with the process, the tables stay
Restart ==
  /\ Restarts
  /\ \E i \in Requests : request[i].stage \in {"probing", "cleared", "committed", "answered"}
  /\ request' = [i \in Requests |->
       IF request[i].stage \in {"probing", "cleared", "committed", "answered"}
       THEN Over(i) ELSE request[i]]
  /\ probe' = "none" /\ current' = "none" /\ since' = FALSE
  /\ UNCHANGED <<client, session, log, intent, eligible, done, told>>

-----------------------------------------------------------------------------
Init ==
  /\ retained = Nothing /\ page = "idle" /\ awaited = None /\ label = FALSE
  /\ session = TRUE
  /\ request = [i \in Requests |-> Unsent]
  /\ log = [k \in Keys |-> None] /\ intent = {}
  /\ eligible \in BOOLEAN /\ probe = "none" /\ since = FALSE /\ current = "none"
  /\ done = [k \in Keys |-> 0] /\ told = [k \in Keys |-> {}]

Handler(i) ==
  \/ Unauthorized(i) \/ Authorized(i) \/ ForcedRuntime(i)
  \/ \E accepted, due \in BOOLEAN : Decides(i, accepted, due)
  \/ DispatchThrows(i) \/ Conflicts(i) \/ Replays(i)
  \/ ApplyReceiptEffects(i) \/ EffectsThrow(i)

Probe == ProbeReads \/ ProbeEnds

Arrives(i) == ReceiptArrives(i) \/ RefusalArrives(i) \/ ErrorArrives(i)

Next ==
  \/ \E i \in Requests :
       \/ \E b \in Bodies : \E k \in Keys : SendCommand(i, k, b) \/ ApiSend(i, k, b)
       \/ RetryCommand(i)
       \/ Arrives(i) \/ ApiReply(i) \/ ReplyLost(i)
       \/ Handler(i)
  \/ SendAnother \/ ClearError \/ RefreshEnds \/ Reload
  \/ UnforcedRuntime \/ Probe
  \/ \E k \in Keys : IntentCloses(k)
  \/ EligibilityChanges \/ SessionExpires \/ Restart

Spec == Init /\ [][Next]_vars

\* Handlers and probes go on (a probe's docker commands have timeouts), and an answer, or the
\* end of a connection whose handler is gone, reaches the page that waits for it.
Ended(i) == At(i, "answered") \/ At(i, "gone")

Fairness ==
  /\ WF_vars(Probe)
  /\ \A i \in Requests : WF_vars(Handler(i)) /\ WF_vars(Ended(i) /\ Arrives(i))

FairSpec == Spec /\ Fairness

-----------------------------------------------------------------------------
(* Properties                                                              *)

Once == INSTANCE CommandOnce WITH
  verdict <- [k \in Keys |->
    IF log[k] = None THEN "open" ELSE IF log[k].accepted THEN "accepted" ELSE "rejected"],
  owed <- {request[i].key : i \in {j \in Requests : request[j].due}},
  told <- [k \in Keys |-> {IF a THEN "accepted" ELSE "rejected" : a \in told[k]}]

\* However often a command is sent, by retries that overlap, by restarts and by clients that
\* reuse its key, it is decided once, its effect is carried out once and every receipt says
\* what was decided (store.ts:578-621; engine.ts:122-166;
\* docs/research/execution-boundaries/README.md:88).
ImplementsOnce == Once!OnceSpec

\* A submission of the browser is only admitted if the provider was ready at some time since
\* the probe began that it rests on; an older answer never admits one (http-api.ts:106-131,
\* 347-356).
AdmittedWasReady ==
  \A i \in Requests : At(i, "cleared") /\ NeedsProbe(i) => request[i].ready

\* The page is not busy forever: a request that it waits for ends in an answer, in the offer of
\* a retry, or in a page that is signed out (workspace-store.ts:277-306).
RequestEnds == page = "waiting" ~> page # "waiting"

\* "Duplicate replay returns the existing result"
\* (docs/research/execution-boundaries/README.md:88): a command that the log has with the same
\* payload is not refused.
RepeatGetsResult ==
  [][\A i \in Requests :
       At(i, "probing") /\ request'[i].reply = "forbidden" =>
         log[request[i].key] = None]_vars
=============================================================================
