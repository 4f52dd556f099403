--------------------------- MODULE CommandLogProofs ---------------------------
(***************************************************************************)
(* The command log keeps the promise of CommandOnce for any number of      *)
(* keys, payloads and requests.  What makes it inductive is `LogInv': an   *)
(* effect is due between the commit and its application only, of one       *)
(* request per key, and a receipt says what the log says.                  *)
(***************************************************************************)
EXTENDS CommandLog, TLAPS

\* What is known of a request by its stage, with the command table l
SoundIn(req, l) ==
  /\ req.stage \notin {"unused", "gone"} => req.key \in Keys /\ req.body \in Bodies
  /\ req.due => req.stage = "committed" /\ l[req.key] # None
  /\ req.stage \in {"committed", "answered"} /\ req.reply \in {"accepted", "rejected"} =>
       l[req.key] # None /\ (req.reply = "accepted" <=> l[req.key].accepted)

Sound(req) == SoundIn(req, log)

RequestsOK ==
  /\ request \in [Requests -> Request]
  /\ \A i \in Requests : Sound(request[i])
  /\ \A i, j \in Requests :
       request[i].due /\ request[j].due /\ request[i].key = request[j].key => i = j

\* The variables beside the requests
RestOK ==
  /\ retained \in [key : Keys \cup {None}, body : Bodies \cup {None}]
  /\ retained = Nothing \/ retained \in [key : Keys, body : Bodies]
  /\ page \in {"idle", "waiting", "refreshing", "signedOut"}
  /\ awaited \in Requests \cup {None}
  /\ label \in BOOLEAN /\ session \in BOOLEAN /\ eligible \in BOOLEAN /\ since \in BOOLEAN
  /\ log \in [Keys -> Verdict \cup {None}]
  /\ intent \subseteq Keys
  /\ probe \in {"none", "open", "ready", "refused"}
  /\ current \in {"none", "ready", "refused"}
  /\ done \in [Keys -> Nat]
  /\ told \in [Keys -> SUBSET BOOLEAN]

LogInv == RequestsOK /\ RestOK

\* The state of CommandOnce
Verdicts ==
  [k \in Keys |-> IF log[k] = None THEN "open" ELSE IF log[k].accepted THEN "accepted" ELSE "rejected"]
Owed == {request[i].key : i \in {j \in Requests : request[j].due}}
AnswersTold == [k \in Keys |-> {IF a THEN "accepted" ELSE "rejected" : a \in told[k]}]

\* A step of CommandOnce on that state
OnceStep == [Once!Next]_(Once!onceVars)

-----------------------------------------------------------------------------
(* The ways to be a step of CommandOnce                                    *)

\* The keys whose effect is due stay if the requests that owe one do.
LEMMA OwedStays ==
  ASSUME \A i \in Requests : /\ request'[i].due = request[i].due
                             /\ request[i].due => request'[i].key = request[i].key
  PROVE  Owed' = Owed
BY DEF Owed

LEMMA Stutters ==
  ASSUME UNCHANGED <<log, intent, done, told>>, Owed' = Owed
  PROVE  OnceStep
BY DEF OnceStep, Owed, Once!onceVars

LEMMA IsPerform ==
  ASSUME NEW k \in Owed, Owed' = Owed \ {k}, UNCHANGED <<log, intent, told>>,
         done' \in {done, [done EXCEPT ![k] = @ + 1]}, k \in Keys
  PROVE  OnceStep
<1>1. Once!Perform(k)
  BY DEF Once!Perform, Owed
<1> QED
  BY <1>1 DEF OnceStep, Once!Next

LEMMA IsRepeat ==
  ASSUME NEW k \in intent, k \in Keys, Owed' = Owed, UNCHANGED <<log, intent, told>>,
         done' = [done EXCEPT ![k] = @ + 1]
  PROVE  OnceStep
<1>1. Once!Repeat(k)
  BY DEF Once!Repeat, Owed
<1> QED
  BY <1>1 DEF OnceStep, Once!Next

LEMMA IsDecide ==
  ASSUME LogInv, NEW k \in Keys, log[k] = None, NEW v \in Verdict,
         log' = [log EXCEPT ![k] = v],
         Owed' \in {Owed, Owed \cup {k}}, intent' \in {intent, intent \cup {k}},
         UNCHANGED <<done, told>>
  PROVE  OnceStep
<1>1. v # None /\ v.accepted \in BOOLEAN
  BY VerdictAssumption DEF Verdict
<1>2. log \in [Keys -> Verdict \cup {None}]
  BY DEF LogInv, RestOK
<1> DEFINE a == IF v.accepted THEN "accepted" ELSE "rejected"
<1>3. Verdicts' = [Verdicts EXCEPT ![k] = a]
  BY <1>1, <1>2 DEF Verdicts
<1>4. Verdicts[k] = "open" /\ a \in Once!Answer
  BY DEF Verdicts, Once!Answer
<1>5. Once!Decide(k)
  BY <1>3, <1>4 DEF Once!Decide, Owed, Verdicts
<1> QED
  BY <1>5 DEF OnceStep, Once!Next

LEMMA IsTell ==
  ASSUME LogInv, NEW k \in Keys, log[k] # None, NEW yes \in BOOLEAN, yes <=> log[k].accepted,
         told' = [told EXCEPT ![k] = @ \cup {yes}],
         UNCHANGED <<log, intent, done>>, Owed' = Owed
  PROVE  OnceStep
<1>1. told \in [Keys -> SUBSET BOOLEAN]
  BY DEF LogInv, RestOK
<1>2. /\ Verdicts[k] # "open"
      /\ Verdicts[k] = IF yes THEN "accepted" ELSE "rejected"
  BY DEF Verdicts
<1>3. AnswersTold' = [AnswersTold EXCEPT ![k] = @ \cup {Verdicts[k]}]
  <2>1. \A j \in Keys : told'[j] = IF j = k THEN told[k] \cup {yes} ELSE told[j]
    BY <1>1
  <2>2. \A j \in Keys : AnswersTold'[j] =
          IF j = k THEN AnswersTold[k] \cup {Verdicts[k]} ELSE AnswersTold[j]
    BY <1>2, <2>1 DEF AnswersTold
  <2> QED
    BY <2>2 DEF AnswersTold
<1>4. Once!Tell(k)
  BY <1>2, <1>3 DEF Once!Tell, Owed, Verdicts, AnswersTold
<1> QED
  BY <1>4 DEF OnceStep, Once!Next

LEMMA IsLose ==
  ASSUME Owed' = {}, UNCHANGED <<log, intent, done, told>>
  PROVE  OnceStep
<1>1. Once!Lose
  BY DEF Once!Lose, Owed
<1> QED
  BY <1>1 DEF OnceStep, Once!Next

LEMMA IsClose ==
  ASSUME NEW k \in Keys, intent' = intent \ {k}, UNCHANGED <<log, done, told>>, Owed' = Owed
  PROVE  OnceStep
<1>1. Once!Close(k)
  BY DEF Once!Close, Owed
<1> QED
  BY <1>1 DEF OnceStep, Once!Next

-----------------------------------------------------------------------------
(* The requests                                                            *)

\* A step in which no request comes to owe an effect.
LEMMA AllChange ==
  ASSUME RequestsOK, log' = log, request' \in [Requests -> Request],
         \A i \in Requests : /\ Sound(request'[i])
                             /\ request'[i].due => request[i].due /\ request'[i].key = request[i].key
  PROVE  RequestsOK'
BY DEF RequestsOK, Sound, SoundIn

\* The same, for one request.
LEMMA OneChanges ==
  ASSUME RequestsOK, log' = log, NEW i \in Requests, NEW req \in Request,
         request' = [request EXCEPT ![i] = req], Sound(req),
         req.due => request[i].due /\ req.key = request[i].key
  PROVE  RequestsOK'
<1>1. request' \in [Requests -> Request]
  BY DEF RequestsOK
<1>2. ASSUME NEW j \in Requests
      PROVE  Sound(request'[j]) /\ (request'[j].due => request[j].due /\ request'[j].key = request[j].key)
  BY DEF RequestsOK
<1> QED
  BY <1>1, <1>2, AllChange

\* Before the commit nothing is due.
LEMMA NotDue ==
  ASSUME RequestsOK, NEW i \in Requests, request[i].stage # "committed"
  PROVE  request[i].due = FALSE
BY DEF RequestsOK, Request, Sound, SoundIn

LEMMA UnsentSound == Unsent \in Request /\ Sound(Unsent) /\ Unsent.due = FALSE
BY DEF Unsent, Request, Sound, SoundIn, Stage, Reply

LEMMA OverSound ==
  ASSUME RequestsOK, NEW i \in Requests
  PROVE  Over(i) \in Request /\ Sound(Over(i)) /\ Over(i).due = FALSE
BY DEF RequestsOK, Over, Unsent, Request, Sound, SoundIn, Stage, Reply

-----------------------------------------------------------------------------
(* Steps that owe, decide and tell nothing                                 *)

Promised == <<log, intent, done, told>>

\* The page gives up what it retains, or keeps it.
LEMMA PageRest ==
  ASSUME RestOK, UNCHANGED <<Promised, runtime>>, retained' \in {retained, Nothing},
         awaited' \in {awaited, None}, page' \in {page, "idle", "signedOut"},
         label' \in BOOLEAN, session' \in BOOLEAN
  PROVE  RestOK'
<1>1. Nothing \in [key : Keys \cup {None}, body : Bodies \cup {None}]
  BY DEF Nothing
<1>2. Nothing' = Nothing
  BY DEF Nothing
<1>3. /\ retained' \in [key : Keys \cup {None}, body : Bodies \cup {None}]
      /\ retained' = Nothing \/ retained' \in [key : Keys, body : Bodies]
  BY <1>1 DEF RestOK
<1>4. awaited' \in Requests \cup {None} /\ page' \in {"idle", "waiting", "refreshing", "signedOut"}
  BY DEF RestOK
<1> QED
  BY <1>2, <1>3, <1>4 DEF RestOK, Promised, runtime

LEMMA PageStep ==
  ASSUME LogInv, SendAnother \/ ClearError \/ RefreshEnds \/ Reload
  PROVE  LogInv' /\ OnceStep
<1>1. UNCHANGED <<request, Promised>>
  BY DEF SendAnother, ClearError, RefreshEnds, Reload, Promised
<1>2. RestOK'
  <2>1. /\ retained' \in {retained, Nothing} /\ awaited' \in {awaited, None}
        /\ page' \in {page, "idle"} /\ label' \in BOOLEAN /\ session' \in {session, TRUE}
        /\ UNCHANGED runtime
    BY DEF LogInv, RestOK, SendAnother, ClearError, RefreshEnds, Reload
  <2> QED
    BY <1>1, <2>1, PageRest DEF LogInv, RestOK
<1>3. RequestsOK' /\ Owed' = Owed
  BY <1>1 DEF LogInv, RequestsOK, Sound, SoundIn, Owed, Promised
<1> QED
  BY <1>1, <1>2, <1>3, Stutters DEF LogInv, Promised

\* A request that is over.
LEMMA EndStep ==
  ASSUME LogInv, NEW i \in Requests, request[i].stage # "committed", log' = log,
         request' = [request EXCEPT ![i] = Over(i)]
  PROVE  RequestsOK' /\ Owed' = Owed
<1>1. Over(i) \in Request /\ Sound(Over(i)) /\ Over(i).due = FALSE /\ request[i].due = FALSE
  BY OverSound, NotDue DEF LogInv
<1>2. RequestsOK'
  BY <1>1, OneChanges DEF LogInv
<1> QED
  BY <1>1, <1>2, OwedStays DEF LogInv, RequestsOK

\* A handler that moves on, without an effect that is due.
LEMMA HandlerStep ==
  ASSUME LogInv, NEW i \in Requests, NEW req \in Request,
         request[i].stage # "committed", req.due = FALSE, Sound(req),
         request' = [request EXCEPT ![i] = req],
         UNCHANGED Promised
  PROVE  RequestsOK' /\ OnceStep
<1>1. request[i].due = FALSE
  BY NotDue DEF LogInv
<1>2. RequestsOK'
  BY OneChanges DEF LogInv, Promised
<1>3. Owed' = Owed
  BY <1>1, OwedStays DEF LogInv, RequestsOK
<1> QED
  BY <1>2, <1>3, Stutters DEF Promised

-----------------------------------------------------------------------------
(* The page and the other clients                                          *)

\* A command is sent, for the first time or again.
LEMMA DispatchStep ==
  ASSUME LogInv, NEW i \in Requests, NEW k \in Keys, NEW b \in Bodies,
         Dispatch(i, [key |-> k, body |-> b]),
         retained' = [key |-> k, body |-> b], UNCHANGED <<session, Promised, runtime>>
  PROVE  LogInv' /\ OnceStep
<1> DEFINE req == [Unsent EXCEPT !.key = k, !.body = b, !.page = TRUE, !.stage = "sent"]
<1>0. req \in Request /\ Sound(req) /\ req.due = FALSE
  BY DEF Unsent, Request, Sound, SoundIn, Stage, Reply
<1>1. RequestsOK' /\ OnceStep
  <2>1. request' = [request EXCEPT ![i] = req] /\ request[i].stage # "committed"
    BY DEF Dispatch, FreshRequest, At
  <2> QED
    BY <1>0, <2>1, HandlerStep
<1>2. RestOK'
  BY DEF LogInv, RestOK, Dispatch, Promised, runtime
<1> QED
  BY <1>1, <1>2 DEF LogInv

LEMMA SendCommandStep ==
  ASSUME LogInv, NEW i \in Requests, NEW k \in Keys, NEW b \in Bodies, SendCommand(i, k, b)
  PROVE  LogInv' /\ OnceStep
BY DispatchStep DEF SendCommand, Promised, runtime

LEMMA RetryCommandStep ==
  ASSUME LogInv, NEW i \in Requests, RetryCommand(i)
  PROVE  LogInv' /\ OnceStep
<1>1. /\ retained \in [key : Keys, body : Bodies]
      /\ Dispatch(i, retained) /\ UNCHANGED <<retained, session, Promised, runtime>>
  BY DEF RetryCommand, LogInv, RestOK, Promised
<1>2. PICK k \in Keys, b \in Bodies : retained = [key |-> k, body |-> b]
  BY <1>1
<1> QED
  BY <1>1, <1>2, DispatchStep

LEMMA ApiSendStep ==
  ASSUME LogInv, NEW i \in Requests, NEW k \in Keys, NEW b \in Bodies, ApiSend(i, k, b)
  PROVE  LogInv' /\ OnceStep
<1> DEFINE req == [Unsent EXCEPT !.key = k, !.body = b, !.stage = "sent"]
<1>1. /\ request[i].stage # "committed" /\ UNCHANGED <<client, session, Promised, runtime>>
      /\ request' = [request EXCEPT ![i] = req]
  BY DEF ApiSend, FreshRequest, At, Promised
<1>2. RequestsOK' /\ OnceStep
  <2>1. req \in Request /\ Sound(req) /\ req.due = FALSE
    BY DEF Unsent, Request, Sound, SoundIn, Stage, Reply
  <2> QED
    BY <1>1, <2>1, HandlerStep
<1>3. RestOK'
  BY <1>1 DEF LogInv, RestOK, client, Promised, runtime
<1> QED
  BY <1>2, <1>3 DEF LogInv

\* An answer that is no receipt, or nobody's any more.
LEMMA DropStep ==
  ASSUME LogInv, NEW i \in Requests, RefusalArrives(i) \/ ErrorArrives(i) \/ ReplyLost(i)
  PROVE  LogInv' /\ OnceStep
<1>1. UNCHANGED <<session, Promised, runtime>>
  BY DEF RefusalArrives, ErrorArrives, ReplyLost, Promised
<1>2. RestOK'
  <2>1. /\ retained' \in {retained, Nothing} /\ awaited' \in {awaited, None}
        /\ page' \in {page, "signedOut", "idle"} /\ label' \in {label, TRUE}
    BY DEF RefusalArrives, ErrorArrives, ReplyLost, client
  <2> QED
    BY <1>1, <2>1, PageRest DEF LogInv, RestOK
<1>3. request' = request \/ (At(i, "answered") /\ request' = [request EXCEPT ![i] = Over(i)])
  BY DEF RefusalArrives, ErrorArrives, ReplyLost
<1>4. RequestsOK' /\ Owed' = Owed
  <2>1. CASE request' = request
    BY <1>1, <2>1 DEF LogInv, RequestsOK, Sound, SoundIn, Owed, Promised
  <2>2. CASE At(i, "answered") /\ request' = [request EXCEPT ![i] = Over(i)]
    BY <1>1, <2>2, EndStep DEF At, Promised
  <2> QED
    BY <1>3, <2>1, <2>2
<1> QED
  BY <1>1, <1>2, <1>4, Stutters DEF LogInv, Promised

\* A receipt says what the log says.
LEMMA ReceiptStep ==
  ASSUME LogInv, NEW i \in Requests, ReceiptArrives(i) \/ ApiReply(i)
  PROVE  LogInv' /\ OnceStep
<1>1. /\ At(i, "answered") /\ UNCHANGED <<session, log, intent, done, runtime>>
      /\ request' = [request EXCEPT ![i] = Over(i)]
  BY DEF ReceiptArrives, ApiReply
<1>2. RequestsOK' /\ Owed' = Owed
  BY <1>1, EndStep DEF At
<1>3. request[i].key \in Keys
  BY <1>1 DEF LogInv, RequestsOK, Sound, SoundIn, At
<1>4. CASE request[i].reply \in {"accepted", "rejected"} /\ Tell(i)
  <2> DEFINE k == request[i].key
             yes == request[i].reply = "accepted"
  <2>1. told' = [told EXCEPT ![k] = @ \cup {yes}]
    BY <1>4 DEF Tell
  <2>2. log[k] # None /\ (yes <=> log[k].accepted) /\ yes \in BOOLEAN
    BY <1>1, <1>4 DEF LogInv, RequestsOK, Sound, SoundIn, At
  <2>3. OnceStep
    BY <1>1, <1>2, <1>3, <2>1, <2>2, IsTell
  <2>4. told' \in [Keys -> SUBSET BOOLEAN]
    BY <1>3, <2>1, <2>2 DEF LogInv, RestOK
  <2>5. RestOK'
    BY <1>1, <2>4 DEF LogInv, RestOK, ReceiptArrives, ApiReply, runtime, client, Nothing
  <2> QED
    BY <1>2, <2>3, <2>5 DEF LogInv
<1>5. CASE UNCHANGED told
  <2>1. RestOK'
    BY <1>1, <1>5 DEF LogInv, RestOK, ReceiptArrives, ApiReply, runtime, client, Nothing
  <2> QED
    BY <1>1, <1>2, <1>5, <2>1, Stutters DEF LogInv
<1> QED
  BY <1>4, <1>5 DEF ReceiptArrives, ApiReply

-----------------------------------------------------------------------------
(* The handlers and the probe                                              *)

\* A handler's own step leaves the page and what is promised alone.
LEMMA Quiet ==
  ASSUME LogInv, UNCHANGED <<client, session, Promised, eligible>>,
         probe' \in {"none", "open", "ready", "refused"}, since' \in BOOLEAN,
         current' \in {"none", "ready", "refused"}
  PROVE  RestOK'
BY DEF LogInv, RestOK, client, Promised

\* An answer that is no receipt.
LEMMA AnswerStep ==
  ASSUME LogInv, NEW i \in Requests,
         NEW reply \in {"unauthorized", "failed", "conflict"}, Answers(i, reply),
         request[i].stage \in {"sent", "cleared"}, UNCHANGED <<client, session, Promised, runtime>>
  PROVE  LogInv' /\ OnceStep
<1> DEFINE req == [request[i] EXCEPT !.stage = "answered", !.reply = reply, !.ready = FALSE]
<1>1. request[i] \in Request /\ Sound(request[i]) /\ request[i].due = FALSE
  BY NotDue DEF LogInv, RequestsOK
<1>2. request' = [request EXCEPT ![i] = req]
  BY DEF Answers, LogInv, RequestsOK
<1>3. req \in Request /\ Sound(req) /\ req.due = FALSE
  BY <1>1 DEF Request, Sound, SoundIn, Stage, Reply
<1>4. RequestsOK' /\ OnceStep
  BY <1>2, <1>3, HandlerStep
<1>5. RestOK'
  BY Quiet DEF LogInv, RestOK, runtime
<1> QED
  BY <1>4, <1>5 DEF LogInv

LEMMA RefusingSteps ==
  ASSUME LogInv, NEW i \in Requests, Unauthorized(i) \/ DispatchThrows(i) \/ Conflicts(i)
  PROVE  LogInv' /\ OnceStep
<1>1. CASE Unauthorized(i)
  BY <1>1, AnswerStep DEF Unauthorized, At, Promised
<1>2. CASE DispatchThrows(i)
  BY <1>2, AnswerStep DEF DispatchThrows, At, Promised
<1>3. CASE Conflicts(i)
  BY <1>3, AnswerStep DEF Conflicts, At, Promised
<1> QED
  BY <1>1, <1>2, <1>3

LEMMA AuthorizedStep ==
  ASSUME LogInv, NEW i \in Requests, Authorized(i)
  PROVE  LogInv' /\ OnceStep
<1> DEFINE req == [request[i] EXCEPT !.stage = "cleared"]
<1>1. /\ request[i] \in Request /\ Sound(request[i]) /\ request[i].due = FALSE
      /\ request[i].stage = "sent" /\ UNCHANGED <<client, session, Promised, runtime>>
  BY NotDue DEF LogInv, RequestsOK, Authorized, At, Promised
<1>2. request' = [request EXCEPT ![i] = req]
  BY DEF Authorized, LogInv, RequestsOK
<1>3. req \in Request /\ Sound(req) /\ req.due = FALSE
  BY <1>1 DEF Request, Sound, SoundIn, Stage
<1>4. RequestsOK' /\ OnceStep
  BY <1>1, <1>2, <1>3, HandlerStep
<1>5. RestOK'
  BY <1>1, Quiet DEF LogInv, RestOK, runtime
<1> QED
  BY <1>4, <1>5 DEF LogInv

LEMMA ProbingStep ==
  ASSUME LogInv, NEW i \in Requests, ForcedRuntime(i)
  PROVE  LogInv' /\ OnceStep
<1> DEFINE req == [request[i] EXCEPT !.stage = "probing", !.ready = eligible \/ since]
<1>1. /\ request[i] \in Request /\ Sound(request[i]) /\ request[i].due = FALSE
      /\ request[i].stage = "sent" /\ UNCHANGED <<client, session, Promised, eligible>>
  BY NotDue DEF LogInv, RequestsOK, ForcedRuntime, StartOrJoin, At, Promised
<1>2. request' = [request EXCEPT ![i] = req]
  BY DEF ForcedRuntime, LogInv, RequestsOK
<1>3. req \in Request /\ Sound(req) /\ req.due = FALSE
  BY <1>1 DEF Request, Sound, SoundIn, Stage
<1>4. RequestsOK' /\ OnceStep
  BY <1>1, <1>2, <1>3, HandlerStep
<1>5. RestOK'
  BY <1>1, Quiet DEF LogInv, RestOK, ForcedRuntime, StartOrJoin
<1> QED
  BY <1>4, <1>5 DEF LogInv

\* The receipt of the first time.
LEMMA ReplaysStep ==
  ASSUME LogInv, NEW i \in Requests, Replays(i)
  PROVE  LogInv' /\ OnceStep
<1> DEFINE was == log[request[i].key]
           req == [request[i] EXCEPT !.stage = "committed", !.replayed = TRUE, !.ready = FALSE,
                     !.reply = IF was.accepted THEN "accepted" ELSE "rejected"]
<1>1. /\ request[i] \in Request /\ Sound(request[i]) /\ request[i].due = FALSE
      /\ request[i].stage = "cleared" /\ was # None
      /\ UNCHANGED <<client, session, Promised, runtime>>
  BY NotDue DEF LogInv, RequestsOK, Replays, Prior, At, Promised
<1>2. request' = [request EXCEPT ![i] = req]
  BY DEF Replays, LogInv, RequestsOK
<1>3. req \in Request /\ req.due = FALSE
  BY <1>1 DEF Request, Stage, Reply
<1>4. Sound(req)
  <2>1. /\ req.key = request[i].key /\ req.body = request[i].body /\ req.stage = "committed"
        /\ req.reply = IF was.accepted THEN "accepted" ELSE "rejected"
    BY <1>1 DEF Request
  <2> QED
    BY <1>1, <1>3, <2>1 DEF Sound, SoundIn
<1>5. RequestsOK' /\ OnceStep
  BY <1>1, <1>2, <1>3, <1>4, HandlerStep
<1>6. RestOK'
  BY <1>1, Quiet DEF LogInv, RestOK, runtime
<1> QED
  BY <1>5, <1>6 DEF LogInv

\* Handlers that wait for the probe, or learn what it says.
LEMMA ProbeSteps ==
  ASSUME LogInv, UnforcedRuntime \/ ProbeReads \/ ProbeEnds \/ SessionExpires
  PROVE  LogInv' /\ OnceStep
<1>1. UNCHANGED <<client, Promised, eligible>>
  BY DEF UnforcedRuntime, ProbeReads, ProbeEnds, SessionExpires, StartOrJoin, Promised, runtime
<1>2. RestOK'
  <2>1. CASE UNCHANGED session
    BY <1>1, <2>1, Quiet DEF UnforcedRuntime, ProbeReads, ProbeEnds, SessionExpires, StartOrJoin,
       runtime, LogInv, RestOK
  <2>2. CASE SessionExpires
    BY <1>1, <2>2 DEF SessionExpires, LogInv, RestOK, client, runtime, Promised
  <2> QED
    BY <2>1, <2>2 DEF UnforcedRuntime, ProbeReads, ProbeEnds
<1>3. CASE UNCHANGED request
  <2>1. RequestsOK' /\ Owed' = Owed
    BY <1>1, <1>3 DEF LogInv, RequestsOK, Sound, SoundIn, Owed, Promised
  <2> QED
    BY <1>1, <1>2, <2>1, Stutters DEF LogInv, Promised
<1>4. CASE ProbeEnds
  <2>1. ASSUME NEW i \in Requests
        PROVE  /\ request'[i] \in Request /\ Sound(request'[i])
               /\ request'[i].due = request[i].due /\ request'[i].key = request[i].key
    <3>1. request[i] \in Request /\ Sound(request[i])
      BY DEF LogInv, RequestsOK
    <3>2. \/ request'[i] = request[i]
          \/ Woken(i) /\ request'[i] = [request[i] EXCEPT !.stage = "cleared"]
          \/ /\ Woken(i)
             /\ request'[i] = [request[i] EXCEPT !.stage = "answered", !.reply = "forbidden",
                                                 !.ready = FALSE]
      BY <1>4 DEF ProbeEnds
    <3> QED
      BY <3>1, <3>2 DEF Woken, At, Request, Sound, SoundIn, Stage, Reply
  <2>2. request' \in [Requests -> Request]
    BY <1>4, <2>1 DEF ProbeEnds
  <2>3. RequestsOK' /\ Owed' = Owed
    BY <1>1, <2>1, <2>2, AllChange, OwedStays DEF LogInv, Promised
  <2> QED
    BY <1>1, <1>2, <2>3, Stutters DEF LogInv, Promised
<1> QED
  BY <1>3, <1>4 DEF UnforcedRuntime, ProbeReads, SessionExpires

LEMMA EligibilityStep ==
  ASSUME LogInv, EligibilityChanges
  PROVE  LogInv' /\ OnceStep
<1>1. /\ UNCHANGED <<client, session, Promised, probe, current>>
      /\ eligible' \in BOOLEAN /\ since' \in BOOLEAN
  BY DEF EligibilityChanges, Promised
<1>2. ASSUME NEW i \in Requests
      PROVE  /\ request'[i] \in Request /\ Sound(request'[i])
             /\ request'[i].due = request[i].due /\ request'[i].key = request[i].key
  <2>1. request[i] \in Request /\ Sound(request[i])
    BY DEF LogInv, RequestsOK
  <2>2. \/ request'[i] = request[i]
        \/ request'[i] = [request[i] EXCEPT !.ready = request[i].ready \/ eligible']
    BY DEF EligibilityChanges
  <2> QED
    BY <1>1, <2>1, <2>2 DEF Request, Sound, SoundIn
<1>3. request' \in [Requests -> Request]
  BY <1>2 DEF EligibilityChanges
<1>4. RequestsOK' /\ Owed' = Owed
  BY <1>1, <1>2, <1>3, AllChange, OwedStays DEF LogInv, Promised
<1>5. RestOK'
  BY <1>1 DEF LogInv, RestOK, client, Promised
<1> QED
  BY <1>1, <1>4, <1>5, Stutters DEF LogInv, Promised

-----------------------------------------------------------------------------
(* The commit and the effects                                              *)

\* No effect of a key is due before its decision.
LEMMA UndecidedOwesNothing ==
  ASSUME LogInv, NEW i \in Requests, NEW j \in Requests, request[j].due,
         log[request[i].key] = None
  PROVE  request[j].key # request[i].key
BY DEF LogInv, RequestsOK, Sound, SoundIn

LEMMA DecidesStep ==
  ASSUME LogInv, NEW i \in Requests, NEW accepted \in BOOLEAN, NEW due \in BOOLEAN,
         Decides(i, accepted, due)
  PROVE  LogInv' /\ OnceStep
<1> DEFINE r == request[i]
           k == r.key
           v == [body |-> r.body, accepted |-> accepted]
           req == [r EXCEPT !.stage = "committed", !.due = due, !.ready = FALSE,
                            !.reply = IF accepted THEN "accepted" ELSE "rejected"]
<1>1. /\ r \in Request /\ r.stage = "cleared" /\ r.due = FALSE
      /\ k \in Keys /\ r.body \in Bodies /\ log[k] = None
      /\ UNCHANGED <<client, session, runtime, done, told>>
  BY NotDue DEF LogInv, RequestsOK, Sound, SoundIn, Decides, Prior, At
<1>2. /\ request' = [request EXCEPT ![i] = req] /\ log' = [log EXCEPT ![k] = v]
      /\ intent' \in {intent, intent \cup {k}}
  BY DEF Decides, LogInv, RequestsOK
<1>3. v \in Verdict /\ v # None /\ v.accepted = accepted
  BY <1>1, VerdictAssumption DEF Verdict
<1>4. /\ req \in Request /\ req.due = due /\ req.key = k /\ req.body = r.body
      /\ req.stage = "committed" /\ req.reply = IF accepted THEN "accepted" ELSE "rejected"
  BY <1>1 DEF Request, Stage, Reply
<1>5. log' \in [Keys -> Verdict \cup {None}] /\ log'[k] = v
      /\ \A x \in Keys : x # k => log'[x] = log[x]
  BY <1>1, <1>2, <1>3 DEF LogInv, RestOK
<1>6. \A j \in Requests : request'[j] = IF j = i THEN req ELSE request[j]
  BY <1>2 DEF LogInv, RequestsOK
<1>7. ASSUME NEW j \in Requests PROVE SoundIn(request'[j], log')
  <2>1. CASE j = i
    <3>1. request'[j] = req /\ log'[req.key] = v
      BY <1>4, <1>5, <1>6, <2>1
    <3>2. req.key \in Keys /\ req.body \in Bodies
      BY <1>1, <1>4
    <3>3. req.reply = "accepted" <=> v.accepted
      BY <1>3, <1>4
    <3> HIDE DEF req, v
    <3> QED
      BY <1>3, <1>4, <3>1, <3>2, <3>3 DEF SoundIn
  <2>2. CASE j # i
    <3>1. request'[j] = request[j] /\ Sound(request[j])
      BY <1>6, <2>2 DEF LogInv, RequestsOK
    <3>2. CASE request[j].stage \in {"unused", "gone"}
      BY <3>1, <3>2 DEF Sound, SoundIn
    <3>3. CASE request[j].stage \notin {"unused", "gone"}
      <4>1. request[j].key \in Keys
        BY <3>1, <3>3 DEF Sound, SoundIn
      <4>2. log[request[j].key] # None => log'[request[j].key] = log[request[j].key]
        BY <1>1, <1>5, <4>1
      <4> QED
        BY <3>1, <4>2 DEF Sound, SoundIn
    <3> QED
      BY <3>2, <3>3
  <2> QED
    BY <2>1, <2>2
<1>8. ASSUME NEW j \in Requests, request[j].due PROVE request[j].key # k /\ j # i
  BY <1>1, <1>8, UndecidedOwesNothing
<1>9. request' \in [Requests -> Request]
  BY <1>2, <1>4 DEF LogInv, RequestsOK
<1>10. RequestsOK'
  <2>1. ASSUME NEW x \in Requests, NEW y \in Requests, request'[x].due, request'[y].due,
               request'[x].key = request'[y].key
        PROVE  x = y
    <3>1. CASE x = i \/ y = i
      <4>1. request'[i].key = k
        BY <1>4, <1>6
      <4>2. \A z \in Requests : z # i /\ request'[z].due => request'[z].key # k
        BY <1>6, <1>8
      <4> QED
        BY <2>1, <3>1, <4>1, <4>2
    <3>2. CASE x # i /\ y # i
      BY <1>6, <2>1, <3>2 DEF LogInv, RequestsOK
    <3> QED
      BY <3>1, <3>2
  <2>2. \A j \in Requests : Sound(request[j])'
    BY <1>7 DEF Sound
  <2> QED
    BY <1>9, <2>1, <2>2 DEF RequestsOK
<1>11. RestOK'
  BY <1>1, <1>2, <1>5 DEF LogInv, RestOK, client, runtime
<1>12. Owed' \in {Owed, Owed \cup {k}}
  <2>1. CASE due
    <3>1. request'[i].due /\ request'[i].key = k
      BY <1>4, <1>6, <2>1
    <3>2. \A j \in Requests : j # i => request'[j] = request[j]
      BY <1>6
    <3>3. Owed' = Owed \cup {k}
      BY <1>1, <3>1, <3>2 DEF Owed
    <3> QED
      BY <3>3
  <2>2. CASE ~due
    <3>1. \A j \in Requests : request'[j].due = request[j].due
                              /\ (request[j].due => request'[j].key = request[j].key)
      BY <1>1, <1>4, <1>6, <2>2
    <3> QED
      BY <3>1, OwedStays
  <2> QED
    BY <2>1, <2>2
<1>13. OnceStep
  BY <1>1, <1>2, <1>3, <1>12, IsDecide
<1> QED
  BY <1>10, <1>11, <1>13 DEF LogInv

\* An effect is applied, or fails for good.
LEMMA EffectSteps ==
  ASSUME LogInv, NEW i \in Requests, ApplyReceiptEffects(i) \/ EffectsThrow(i)
  PROVE  LogInv' /\ OnceStep
<1> DEFINE r == request[i]
           k == r.key
<1>1. /\ r \in Request /\ r.stage = "committed" /\ Sound(r) /\ k \in Keys
      /\ UNCHANGED <<client, session, log, intent, runtime, told>>
  BY DEF LogInv, RequestsOK, Sound, SoundIn, ApplyReceiptEffects, EffectsThrow, At
<1>2. PICK reply \in {r.reply, "failed"} :
        request' = [request EXCEPT ![i] = [r EXCEPT !.stage = "answered", !.due = FALSE,
                                                    !.reply = reply]]
  <2>1. r = [r EXCEPT !.reply = r.reply]
    BY <1>1 DEF Request
  <2>2. [r EXCEPT !.stage = "answered", !.due = FALSE]
          = [r EXCEPT !.stage = "answered", !.due = FALSE, !.reply = r.reply]
    BY <1>1 DEF Request
  <2> QED
    BY <2>2 DEF ApplyReceiptEffects, EffectsThrow, LogInv, RequestsOK
<1> DEFINE req == [r EXCEPT !.stage = "answered", !.due = FALSE, !.reply = reply]
<1>3. /\ req \in Request /\ req.key = k /\ req.body = r.body /\ req.due = FALSE
      /\ req.stage = "answered" /\ req.reply = reply
  BY <1>1 DEF Request, Stage, Reply
<1>4. Sound(req)
  BY <1>1, <1>3 DEF Sound, SoundIn
<1>5. RequestsOK'
  BY <1>1, <1>2, <1>3, <1>4, OneChanges DEF LogInv
<1>6. done' \in {done, [done EXCEPT ![k] = @ + 1]}
  BY DEF ApplyReceiptEffects, EffectsThrow
<1>7. RestOK'
  <2>1. done' \in [Keys -> Nat]
    BY <1>1, <1>6 DEF LogInv, RestOK
  <2> QED
    BY <1>1, <2>1 DEF LogInv, RestOK, client, runtime
<1>8. \A j \in Requests : request'[j] = IF j = i THEN req ELSE request[j]
  BY <1>2 DEF LogInv, RequestsOK
<1>9. CASE r.due
  <2>1. \A j \in Requests : request[j].due /\ request[j].key = k => j = i
    BY <1>9 DEF LogInv, RequestsOK
  <2>2. Owed' = Owed \ {k} /\ k \in Owed
    <3>1. request'[i].due = FALSE /\ \A j \in Requests : j # i => request'[j] = request[j]
      BY <1>3, <1>8
    <3> QED
      BY <1>9, <2>1, <3>1 DEF Owed
  <2>3. OnceStep
    BY <1>1, <1>6, <2>2, IsPerform
  <2> QED
    BY <1>5, <1>7, <2>3 DEF LogInv
<1>10. CASE ~r.due
  <2>1. Owed' = Owed
    BY <1>1, <1>3, <1>8, <1>10, OwedStays DEF Request
  <2>2. CASE k \in intent /\ done' = [done EXCEPT ![k] = @ + 1]
    BY <1>1, <1>5, <1>7, <2>1, <2>2, IsRepeat DEF LogInv
  <2>3. CASE UNCHANGED done
    BY <1>1, <1>5, <1>7, <2>1, <2>3, Stutters DEF LogInv
  <2> QED
    BY <1>10, <2>2, <2>3 DEF ApplyReceiptEffects, EffectsThrow, Applies
<1> QED
  BY <1>9, <1>10

LEMMA IntentStep ==
  ASSUME LogInv, NEW k \in Keys, IntentCloses(k)
  PROVE  LogInv' /\ OnceStep
<1>1. UNCHANGED <<client, session, request, log, runtime, done, told>> /\ intent' = intent \ {k}
  BY DEF IntentCloses
<1>2. RequestsOK' /\ Owed' = Owed
  BY <1>1 DEF LogInv, RequestsOK, Sound, SoundIn, Owed
<1>3. RestOK'
  BY <1>1 DEF LogInv, RestOK, client, runtime
<1> QED
  BY <1>1, <1>2, <1>3, IsClose DEF LogInv

\* What is due dies with the daemon.
LEMMA RestartStep ==
  ASSUME LogInv, Restart
  PROVE  LogInv' /\ OnceStep
<1>1. UNCHANGED <<client, session, Promised, eligible>>
  BY DEF Restart, Promised
<1>2. ASSUME NEW i \in Requests
      PROVE  request'[i] \in Request /\ Sound(request'[i]) /\ request'[i].due = FALSE
  <2>1. request[i] \in Request /\ Sound(request[i])
    BY DEF LogInv, RequestsOK
  <2>2. \/ request'[i] = Over(i)
        \/ request'[i] = request[i] /\ request[i].stage # "committed"
    BY DEF Restart
  <2> QED
    BY <2>1, <2>2, OverSound, NotDue DEF LogInv
<1>3. request' \in [Requests -> Request]
  BY <1>2 DEF Restart
<1>4. RequestsOK'
  BY <1>1, <1>2, <1>3, AllChange DEF LogInv, Promised
<1>5. Owed' = {}
  BY <1>2 DEF Owed
<1>6. RestOK'
  BY <1>1, Quiet DEF Restart
<1> QED
  BY <1>1, <1>4, <1>5, <1>6, IsLose DEF LogInv, Promised

-----------------------------------------------------------------------------
LEMMA LogInit == Init => LogInv /\ Once!Init
<1> SUFFICES ASSUME Init PROVE LogInv /\ Once!Init
  OBVIOUS
<1>1. RequestsOK
  BY UnsentSound DEF Init, RequestsOK
<1>2. RestOK
  BY DEF Init, RestOK, Nothing
<1>3. Once!Init
  BY UnsentSound DEF Init, Once!Init
<1> QED
  BY <1>1, <1>2, <1>3 DEF LogInv

\* Every step keeps the invariant and the promise.
LEMMA LogStep == LogInv /\ [Next]_vars => LogInv' /\ OnceStep
<1> SUFFICES ASSUME LogInv, [Next]_vars PROVE LogInv' /\ OnceStep
  OBVIOUS
<1>1. CASE UNCHANGED vars
  <2>1. UNCHANGED <<log, intent, done, told>> /\ Owed' = Owed
    BY <1>1 DEF vars, Owed
  <2>2. LogInv'
    BY <1>1 DEF vars, client, runtime, LogInv, RequestsOK, RestOK, Sound, SoundIn, Nothing
  <2> QED
    BY <2>1, <2>2, Stutters
<1>2. ASSUME NEW i \in Requests, Handler(i) PROVE LogInv' /\ OnceStep
  BY <1>2, RefusingSteps, AuthorizedStep, ProbingStep, DecidesStep, ReplaysStep, EffectSteps
     DEF Handler
<1>3. ASSUME NEW i \in Requests, Arrives(i) \/ ApiReply(i) \/ ReplyLost(i) PROVE LogInv' /\ OnceStep
  BY <1>3, DropStep, ReceiptStep DEF Arrives
<1> QED
  BY <1>1, <1>2, <1>3, PageStep, SendCommandStep, RetryCommandStep, ApiSendStep, ProbeSteps,
     EligibilityStep, IntentStep, RestartStep DEF Next, Probe

\* The types of the page, the requests and the command table.
THEOREM LogTyped == Spec => []TypeOK
<1>1. LogInv => TypeOK
  BY DEF LogInv, RequestsOK, RestOK, TypeOK
<1> QED
  BY <1>1, LogInit, LogStep, PTL DEF Spec

\* For any number of requests, keys and clients: the log decides a command once, has its
\* effect carried out once, and answers nothing but what it decided, across retries that
\* overlap, answers that are lost and restarts.
THEOREM LogImplementsOnce == Spec => ImplementsOnce
<1>1. LogInv /\ [Next]_vars => LogInv' /\ [Once!Next]_(Once!onceVars)
  BY LogStep DEF OnceStep
<1> QED
  BY <1>1, LogInit, PTL DEF Spec, ImplementsOnce, Once!OnceSpec

-----------------------------------------------------------------------------
(* Readiness                                                               *)

\* Who waits for the probe knows of every time the provider was ready since it began.
ReadyInv ==
  /\ probe = "ready" \/ (probe # "none" /\ eligible) => since
  /\ \A i \in Requests :
       /\ At(i, "probing") /\ (eligible \/ probe = "ready") => request[i].ready
       /\ At(i, "cleared") /\ NeedsProbe(i) => request[i].ready

\* Steps after which a request is as it was, or neither waits nor is cleared.
LEMMA ReadyStays ==
  ASSUME ReadyInv, UNCHANGED <<probe, eligible, since>>,
         \A j \in Requests : request'[j] = request[j] \/ request'[j].stage \notin {"probing", "cleared"}
  PROVE  ReadyInv'
BY DEF ReadyInv, At, NeedsProbe

LEMMA ReadyStep == LogInv /\ ReadyInv /\ [Next]_vars => ReadyInv'
<1> SUFFICES ASSUME LogInv, ReadyInv, [Next]_vars PROVE ReadyInv'
  OBVIOUS
<1>t. request \in [Requests -> Request] /\ eligible \in BOOLEAN /\ since \in BOOLEAN
  BY DEF LogInv, RequestsOK, RestOK
<1>1. ASSUME NEW i \in Requests, NEW req, request' = [request EXCEPT ![i] = req],
             req.stage \notin {"probing", "cleared"}, UNCHANGED <<probe, eligible, since>>
      PROVE  ReadyInv'
  BY <1>1, <1>t, ReadyStays
<1>2. ASSUME UNCHANGED <<request, probe, eligible, since>> PROVE ReadyInv'
  BY <1>2, ReadyStays
<1>3. ASSUME NEW i \in Requests, NEW k \in Keys, NEW b \in Bodies, SendCommand(i, k, b)
      PROVE  ReadyInv'
  <2>1. [Unsent EXCEPT !.key = k, !.body = b, !.page = TRUE, !.stage = "sent"].stage = "sent"
    BY DEF Unsent
  <2> QED
    BY <1>3, <1>1, <2>1 DEF SendCommand, Dispatch, runtime
<1>4. ASSUME NEW i \in Requests, RetryCommand(i) PROVE ReadyInv'
  <2>1. [Unsent EXCEPT !.key = retained.key, !.body = retained.body, !.page = TRUE,
                       !.stage = "sent"].stage = "sent"
    BY DEF Unsent
  <2> QED
    BY <1>4, <1>1, <2>1 DEF RetryCommand, Dispatch, runtime
<1>5. ASSUME NEW i \in Requests, NEW k \in Keys, NEW b \in Bodies, ApiSend(i, k, b)
      PROVE  ReadyInv'
  <2>1. [Unsent EXCEPT !.key = k, !.body = b, !.stage = "sent"].stage = "sent"
    BY DEF Unsent
  <2> QED
    BY <1>5, <1>1, <2>1 DEF ApiSend, runtime
<1>6. ASSUME NEW i \in Requests, Arrives(i) \/ ApiReply(i) \/ ReplyLost(i) PROVE ReadyInv'
  <2>1. Over(i).stage = "gone"
    BY DEF Over, Unsent
  <2>2. UNCHANGED request \/ request' = [request EXCEPT ![i] = Over(i)]
    BY <1>6 DEF Arrives, ReceiptArrives, RefusalArrives, ErrorArrives, ApiReply, ReplyLost
  <2>3. UNCHANGED <<probe, eligible, since>>
    BY <1>6 DEF Arrives, ReceiptArrives, RefusalArrives, ErrorArrives, ApiReply, ReplyLost, runtime
  <2> QED
    BY <1>1, <1>2, <2>1, <2>2, <2>3
<1>7. ASSUME NEW i \in Requests, Authorized(i) PROVE ReadyInv'
  <2>1. /\ ~NeedsProbe(i) /\ UNCHANGED <<probe, eligible, since>>
        /\ request' = [request EXCEPT ![i] = [request[i] EXCEPT !.stage = "cleared"]]
    BY <1>7, <1>t DEF Authorized, runtime
  <2>2. ~NeedsProbe(i)' /\ ~At(i, "probing")'
    BY <1>t, <2>1 DEF NeedsProbe, At, Request
  <2>3. \A j \in Requests : j # i => request'[j] = request[j]
    BY <1>t, <2>1
  <2> QED
    BY <2>1, <2>2, <2>3 DEF ReadyInv, At, NeedsProbe
<1>8. ASSUME NEW i \in Requests, ForcedRuntime(i) PROVE ReadyInv'
  <2>1. /\ request' = [request EXCEPT ![i] = [request[i] EXCEPT !.stage = "probing",
                                                !.ready = eligible \/ since]]
        /\ probe' = IF probe = "none" THEN "open" ELSE probe
        /\ since' = IF probe = "none" THEN eligible ELSE since
        /\ UNCHANGED eligible
    BY <1>8, <1>t DEF ForcedRuntime, StartOrJoin
  <2>2. request'[i].stage = "probing" /\ request'[i].ready = (eligible \/ since)
    BY <1>t, <2>1 DEF Request
  <2>3. \A j \in Requests : j # i => request'[j] = request[j]
    BY <1>t, <2>1
  <2>4. probe' = "ready" => probe = "ready"
    BY <2>1
  <2> QED
    BY <1>t, <2>1, <2>2, <2>3, <2>4 DEF ReadyInv, At, NeedsProbe
<1>9. ASSUME NEW i \in Requests, Handler(i), ~Authorized(i), ~ForcedRuntime(i) PROVE ReadyInv'
  <2>1. UNCHANGED <<probe, eligible, since>>
    BY <1>9 DEF Handler, Unauthorized, Decides, DispatchThrows, Conflicts, Replays,
       ApplyReceiptEffects, EffectsThrow, runtime
  <2>2. \A j \in Requests : j # i => request'[j] = request[j]
    BY <1>9, <1>t DEF Handler, Unauthorized, Decides, DispatchThrows, Conflicts, Replays, Answers,
       ApplyReceiptEffects, EffectsThrow
  <2>3. request'[i].stage \in {"answered", "committed"}
    <3>1. CASE Unauthorized(i) \/ DispatchThrows(i) \/ Conflicts(i)
      BY <3>1, <1>t DEF Unauthorized, DispatchThrows, Conflicts, Answers, Request
    <3>2. CASE \E accepted, due \in BOOLEAN : Decides(i, accepted, due)
      BY <3>2, <1>t DEF Decides, Request
    <3>3. CASE Replays(i)
      BY <3>3, <1>t DEF Replays, Request
    <3>4. CASE ApplyReceiptEffects(i) \/ EffectsThrow(i)
      BY <3>4, <1>t DEF ApplyReceiptEffects, EffectsThrow, Request
    <3> QED
      BY <1>9, <3>1, <3>2, <3>3, <3>4 DEF Handler
  <2> QED
    BY <2>1, <2>2, <2>3, ReadyStays
<1>10. CASE UnforcedRuntime
  BY <1>10, <1>t DEF UnforcedRuntime, StartOrJoin, ReadyInv, At, NeedsProbe
<1>11. CASE ProbeReads
  BY <1>11, <1>t DEF ProbeReads, ReadyInv, At, NeedsProbe
<1>12. CASE ProbeEnds
  <2>1. probe' = "none" /\ UNCHANGED eligible /\ probe \in {"ready", "refused"}
    BY <1>12 DEF ProbeEnds
  <2>2. ASSUME NEW j \in Requests
        PROVE  ~At(j, "probing")' /\ (At(j, "cleared")' /\ NeedsProbe(j)' => request'[j].ready)
    <3>1. CASE ~Woken(j)
      BY <1>12, <3>1 DEF ProbeEnds, Woken, At, NeedsProbe, ReadyInv
    <3>2. CASE Woken(j) /\ probe = "ready"
      <4>1. request'[j] = [request[j] EXCEPT !.stage = "cleared"]
        BY <1>12, <3>2 DEF ProbeEnds
      <4>2. request'[j].stage = "cleared" /\ request'[j].ready = request[j].ready
        BY <1>t, <4>1 DEF Request
      <4> QED
        BY <3>2, <4>2 DEF Woken, At, ReadyInv
    <3>3. CASE Woken(j) /\ probe # "ready"
      <4>1. request'[j] = [request[j] EXCEPT !.stage = "answered", !.reply = "forbidden",
                                              !.ready = FALSE]
        BY <1>12, <3>3 DEF ProbeEnds
      <4>2. request'[j].stage = "answered"
        BY <1>t, <4>1 DEF Request
      <4> QED
        BY <4>2 DEF At
    <3> QED
      BY <3>1, <3>2, <3>3
  <2> QED
    BY <2>1, <2>2 DEF ReadyInv
<1>13. CASE EligibilityChanges
  <2>1. /\ UNCHANGED probe /\ eligible' = ~eligible
        /\ since' = (since \/ (probe # "none" /\ eligible'))
    BY <1>13 DEF EligibilityChanges
  <2>2. ASSUME NEW j \in Requests
        PROVE  /\ request'[j].stage = request[j].stage /\ request'[j].page = request[j].page
               /\ request'[j].body = request[j].body
               /\ request'[j].ready = (request[j].ready \/ (At(j, "probing") /\ eligible'))
    <3>1. request[j] \in Request
      BY <1>t
    <3>2. CASE At(j, "probing")
      <4>1. request'[j] = [request[j] EXCEPT !.ready = request[j].ready \/ eligible']
        BY <1>13, <3>2 DEF EligibilityChanges
      <4> QED
        BY <3>1, <3>2, <4>1 DEF Request
    <3>3. CASE ~At(j, "probing")
      <4>1. request'[j] = request[j]
        BY <1>13, <3>3 DEF EligibilityChanges
      <4> QED
        BY <3>1, <3>3, <4>1 DEF Request
    <3> QED
      BY <3>2, <3>3
  <2> QED
    BY <1>t, <2>1, <2>2 DEF ReadyInv, At, NeedsProbe
<1>14. CASE Restart
  <2>1. probe' = "none"
    BY <1>14 DEF Restart
  <2>2. ASSUME NEW j \in Requests PROVE request'[j].stage \notin {"probing", "cleared"}
    BY <1>14 DEF Restart, Over, Unsent
  <2> QED
    BY <2>1, <2>2 DEF ReadyInv, At
<1>15. CASE SendAnother \/ ClearError \/ RefreshEnds \/ Reload \/ SessionExpires
            \/ \E k \in Keys : IntentCloses(k)
  BY <1>15, <1>2 DEF SendAnother, ClearError, RefreshEnds, Reload, SessionExpires, IntentCloses,
     runtime
<1>16. CASE UNCHANGED vars
  BY <1>16, <1>2 DEF vars, runtime
<1> QED
  BY <1>3, <1>4, <1>5, <1>6, <1>7, <1>8, <1>9, <1>10, <1>11, <1>12, <1>13, <1>14, <1>15, <1>16
     DEF Next, Probe

\* A submission of the browser is admitted only if the provider was ready at some time since
\* the probe began that it waited for, whoever else joined that probe.
THEOREM AdmissionWasReady == Spec => []AdmittedWasReady
<1>1. Init => ReadyInv
  BY DEF Init, ReadyInv, At, Unsent
<1>2. ReadyInv => AdmittedWasReady
  BY DEF ReadyInv, AdmittedWasReady
<1> QED
  BY <1>1, <1>2, LogInit, LogStep, ReadyStep, PTL DEF Spec
===============================================================================
