-------------------------- MODULE BrowserAccessProofs --------------------------
(***************************************************************************)
(* What a browser's authority rests on, for any number of codes, sessions, *)
(* tabs, sources and providers.  The strengthening says of a code that it  *)
(* is used up once a session came of it (`CodesUsed'), and of a request    *)
(* that it carries what the owner decided in the tab of its CSRF token     *)
(* (`CallsConsented').                                                     *)
(***************************************************************************)
EXTENDS BrowserAccess, TLAPS

CodesUsed ==
  \A s \in Sessions : session[s] # None => code[session[s].code].state \in {"consumed", "deleted"}

CallsConsented ==
  \A t \in Tabs :
    /\ call[t].stage = "authorized" => call[t].csrf = call[t].cookie /\ call[t].cookie \in Sessions
    /\ call[t].kind = "acknowledge" /\ call[t].stage \in {"sent", "authorized"} =>
         \A x \in call[t].sources : <<call[t].csrf, call[t].provider, x>> \in consent
    /\ call[t].kind = "exchange" /\ call[t].stage = "sent" => call[t].code \in Codes

AccessInv ==
  /\ TypeOK /\ CodesUsed /\ CallsConsented
  /\ OneSessionPerCode /\ AcknowledgedByOwner /\ AdmittedWithConsent

-----------------------------------------------------------------------------
(* Calls                                                                   *)

LEMMA NoCallType == NoCall \in Call
BY DEF NoCall, Call

\* What a tab sends.
LEMMA SentType ==
  ASSUME TypeOK, NEW kind \in {"exchange", "acknowledge", "submit"}
  PROVE  /\ Sent(kind) \in Call
         /\ Sent(kind).kind = kind /\ Sent(kind).stage = "sent"
BY DEF Sent, NoCall, Call, TypeOK

\* What a handler answers with.
LEMMA OverType ==
  ASSUME TypeOK, NEW t \in Tabs, NEW reply \in {"ok", "refused", "error"}
  PROVE  Over(t, reply) \in Call /\ Over(t, reply).stage = "answered"
BY DEF Over, NoCall, Call, TypeOK

-----------------------------------------------------------------------------
(* The steps that only touch calls and tabs                                *)

\* The parts of the invariant that a step leaves alone if it changes calls and tabs only.
LEMMA CallStep ==
  ASSUME AccessInv, UNCHANGED <<code, session, admitted, now>>,
         provider' \in Providers, consent \subseteq consent',
         TypeOK', CallsConsented'
  PROVE  AccessInv'
BY DEF AccessInv, CodesUsed, OneSessionPerCode, AcknowledgedByOwner, AdmittedWithConsent

\* A call that is over or not under way carries nothing.
LEMMA OverStep ==
  ASSUME AccessInv, NEW t \in Tabs, NEW c \in Call,
         c.stage = "answered" \/ c = NoCall,
         call' = [call EXCEPT ![t] = c], consent' = consent
  PROVE  CallsConsented' /\ call' \in [Tabs -> Call]
BY DEF AccessInv, TypeOK, CallsConsented, NoCall

LEMMA OpenUrlStep ==
  ASSUME AccessInv, NEW t \in Tabs, NEW c \in Codes, OpenUrl(t, c)
  PROVE  AccessInv'
<1> DEFINE d == [Sent("exchange") EXCEPT !.code = c]
<1>1. d \in Call /\ d.kind = "exchange" /\ d.stage = "sent"
  BY SentType DEF AccessInv, Call
<1>2. call' = [call EXCEPT ![t] = d] /\ UNCHANGED <<now, provider, code, session, jar, consent, admitted>>
  BY DEF OpenUrl, Send
<1>3. tab' \in [Tabs -> Tab]
  BY DEF OpenUrl, AccessInv, TypeOK, Tab
<1>4. TypeOK'
  BY <1>1, <1>2, <1>3 DEF AccessInv, TypeOK
<1>5. CallsConsented'
  BY <1>1, <1>2 DEF AccessInv, TypeOK, CallsConsented
<1> QED
  BY <1>2, <1>4, <1>5, CallStep DEF AccessInv, TypeOK

LEMMA AcknowledgeSetupStep ==
  ASSUME AccessInv, NEW t \in Tabs, NEW S \in SUBSET Sources, AcknowledgeSetup(t, S)
  PROVE  AccessInv'
<1> DEFINE d == [Sent("acknowledge") EXCEPT
                   !.csrf = tab[t].csrf, !.provider = tab[t].shows, !.sources = S]
<1>1. tab[t].csrf \in Sessions /\ tab[t].shows \in Providers
  BY DEF AcknowledgeSetup, Mutates, AccessInv, TypeOK, Tab
<1>2. /\ d \in Call /\ d.kind = "acknowledge" /\ d.stage = "sent"
      /\ d.csrf = tab[t].csrf /\ d.provider = tab[t].shows /\ d.sources = S
  BY <1>1, SentType DEF AccessInv, Call
<1>3. /\ call' = [call EXCEPT ![t] = d]
      /\ consent' = consent \cup ({tab[t].csrf} \X {tab[t].shows} \X S)
      /\ UNCHANGED <<now, provider, code, session, jar, tab, admitted>>
  BY DEF AcknowledgeSetup, Send
<1>4. TypeOK'
  BY <1>1, <1>2, <1>3 DEF AccessInv, TypeOK
<1>5. \A x \in S : <<tab[t].csrf, tab[t].shows, x>> \in consent'
  BY <1>3
<1>6. CallsConsented'
  BY <1>2, <1>3, <1>5 DEF AccessInv, TypeOK, CallsConsented
<1> QED
  BY <1>3, <1>4, <1>6, CallStep DEF AccessInv, TypeOK

LEMMA SubmitTaskStep ==
  ASSUME AccessInv, NEW t \in Tabs, NEW x \in Sources, SubmitTask(t, x)
  PROVE  AccessInv'
<1> DEFINE d == [Sent("submit") EXCEPT !.csrf = tab[t].csrf, !.sources = {x}]
<1>1. d \in Call /\ d.kind = "submit" /\ d.stage = "sent"
  BY SentType DEF AccessInv, TypeOK, Tab, Call
<1>2. call' = [call EXCEPT ![t] = d] /\ UNCHANGED <<now, provider, code, session, jar, tab, consent, admitted>>
  BY DEF SubmitTask, Send
<1>3. TypeOK'
  BY <1>1, <1>2 DEF AccessInv, TypeOK
<1>4. CallsConsented'
  BY <1>1, <1>2 DEF AccessInv, TypeOK, CallsConsented
<1> QED
  BY <1>2, <1>3, <1>4, CallStep DEF AccessInv, TypeOK

\* A tab that is loaded again, or shows a newer snapshot, changes nothing but itself.
LEMMA TabStep ==
  ASSUME AccessInv, NEW t \in Tabs, Reload(t) \/ Refresh(t)
  PROVE  AccessInv'
<1>1. UNCHANGED <<now, provider, code, session, jar, call, consent, admitted>>
  BY DEF Reload, Refresh
<1>2. tab' \in [Tabs -> Tab]
  <2>1. tab \in [Tabs -> Tab] /\ jar \in Sessions \cup {None} /\ provider \in Providers
    BY DEF AccessInv, TypeOK
  <2>2. /\ [csrf |-> jar, shows |-> provider, signedOut |-> FALSE] \in Tab
        /\ [csrf |-> jar, shows |-> None, signedOut |-> TRUE] \in Tab
        /\ [tab[t] EXCEPT !.shows = provider] \in Tab
        /\ [tab[t] EXCEPT !.signedOut = TRUE] \in Tab
    BY <2>1 DEF Tab
  <2>3. PICK d \in Tab : tab' = [tab EXCEPT ![t] = d]
    BY <2>2 DEF Reload, Refresh
  <2> QED
    BY <2>1, <2>3
<1>3. TypeOK'
  BY <1>1, <1>2 DEF AccessInv, TypeOK
<1>4. CallsConsented'
  BY <1>1 DEF AccessInv, CallsConsented
<1> QED
  BY <1>1, <1>3, <1>4, CallStep DEF AccessInv, TypeOK

-----------------------------------------------------------------------------
(* The handlers                                                            *)

\* A handler that answers and writes nothing.
LEMMA ReplyStep ==
  ASSUME AccessInv, NEW t \in Tabs, NEW reply \in {"ok", "refused", "error"}, Reply(t, reply),
         UNCHANGED <<now, provider, code, session, jar, tab, consent, admitted>>
  PROVE  AccessInv'
<1>1. Over(t, reply) \in Call /\ Over(t, reply).stage = "answered"
  BY OverType DEF AccessInv
<1>2. call' = [call EXCEPT ![t] = Over(t, reply)]
  BY DEF Reply
<1>3. CallsConsented' /\ call' \in [Tabs -> Call]
  BY <1>1, <1>2, OverStep
<1>4. TypeOK'
  BY <1>3 DEF AccessInv, TypeOK
<1> QED
  BY <1>3, <1>4, CallStep DEF AccessInv, TypeOK

LEMMA AuthorizesStep ==
  ASSUME AccessInv, NEW t \in Tabs, Authorizes(t)
  PROVE  AccessInv'
<1>1. CASE Authorized(t)
  <2> DEFINE d == [call[t] EXCEPT !.stage = "authorized"]
  <2>1. /\ call' = [call EXCEPT ![t] = d]
        /\ UNCHANGED <<now, provider, code, session, jar, tab, consent, admitted>>
    BY <1>1 DEF Authorizes, AccessInv, TypeOK
  <2>2. d \in Call /\ d.csrf = d.cookie /\ d.cookie \in Sessions
    BY <1>1 DEF Authorized, Live, AccessInv, TypeOK, Call
  <2>3. TypeOK'
    BY <2>1, <2>2 DEF AccessInv, TypeOK
  <2>4. /\ d.kind = call[t].kind /\ d.sources = call[t].sources /\ d.csrf = call[t].csrf
        /\ d.provider = call[t].provider /\ d.stage = "authorized" /\ call[t].stage = "sent"
    BY DEF Authorizes, AccessInv, TypeOK, Call
  <2>5. CallsConsented'
    BY <2>1, <2>2, <2>4 DEF AccessInv, TypeOK, CallsConsented
  <2> QED
    BY <2>1, <2>3, <2>5, CallStep DEF AccessInv, TypeOK
<1>2. CASE ~Authorized(t)
  BY <1>2, ReplyStep DEF Authorizes
<1> QED
  BY <1>1, <1>2

\* The one session of its code.
LEMMA ExchangeStep ==
  ASSUME AccessInv, NEW t \in Tabs, NEW s \in Sessions, Exchange(t, s)
  PROVE  AccessInv'
<1> DEFINE c == call[t].code
           row == [code |-> c, provider |-> provider, acknowledged |-> None,
                   sources |-> Unacknowledged, expires |-> now + SessionTtl]
           d == [Over(t, "ok") EXCEPT !.csrf = s]
<1>1. /\ code' = [code EXCEPT ![c].state = "consumed"]
      /\ session' = [session EXCEPT ![s] = row]
      /\ call' = [call EXCEPT ![t] = d]
      /\ UNCHANGED <<now, provider, jar, tab, consent, admitted>>
      /\ code[c].state = "open" /\ session[s] = None
  BY DEF Exchange, Exchangeable
<1>2. c \in Codes
  BY DEF Exchange, AccessInv, CallsConsented
<1>3. row \in Row
  <2>1. now + SessionTtl \in Expiry
    BY AccessAssumption DEF AccessInv, TypeOK, Time, Expiry
  <2> QED
    BY <1>2, <2>1 DEF Row, Acks, Unacknowledged, AccessInv, TypeOK
<1>4. d \in Call /\ d.stage = "answered"
  BY OverType DEF AccessInv, Call
<1>5. CallsConsented' /\ call' \in [Tabs -> Call]
  BY <1>1, <1>4, OverStep
<1>6. TypeOK'
  BY <1>1, <1>2, <1>3, <1>5 DEF AccessInv, TypeOK, Code
<1>7. row # None /\ row.code = c /\ \A x \in Sources : row.sources[x] = None
  BY <1>3, RowAssumption DEF Unacknowledged
<1>8. \A z \in Sessions : session[z] # None => session[z].code # c
  BY <1>1 DEF AccessInv, CodesUsed
<1>9. CodesUsed'
  BY <1>1, <1>2, <1>7 DEF AccessInv, TypeOK, Code, CodesUsed
<1>10. OneSessionPerCode'
  BY <1>1, <1>7, <1>8 DEF AccessInv, TypeOK, OneSessionPerCode
<1>11. AcknowledgedByOwner' /\ AdmittedWithConsent'
  BY <1>1, <1>7 DEF AccessInv, TypeOK, AcknowledgedByOwner, AdmittedWithConsent
<1> QED
  BY <1>5, <1>6, <1>9, <1>10, <1>11 DEF AccessInv

\* What is written into a row, the owner has decided in the tab of its own session.
LEMMA AcknowledgesStep ==
  ASSUME AccessInv, NEW t \in Tabs, Acknowledges(t)
  PROVE  AccessInv'
<1> DEFINE s == call[t].cookie
           row == Acknowledged(session[s], call[t].sources)
<1>1. CASE Live(s) /\ session[s].provider = provider
  <2>1. /\ session' = [session EXCEPT ![s] = row] /\ Reply(t, "ok")
        /\ UNCHANGED <<now, provider, code, jar, tab, consent, admitted>>
    BY <1>1 DEF Acknowledges
  <2>2. /\ s \in Sessions /\ session[s] # None /\ session[s] \in Row
        /\ call[t].csrf = s /\ call[t].sources \subseteq Sources
    BY <1>1 DEF Acknowledges, Live, AccessInv, TypeOK, Call, CallsConsented
  <2>3. \A x \in call[t].sources : <<s, session[s].provider, x>> \in consent
    BY <1>1, <2>2 DEF Acknowledges, AccessInv, CallsConsented
  <2>4. row \in Row /\ row.code = session[s].code /\ row.provider = session[s].provider
    BY <2>2 DEF Acknowledged, Row, Acks, AccessInv, TypeOK
  <2>5. \A x \in Sources : row.sources[x] # None =>
          session[s].sources[x] # None \/ x \in call[t].sources
    BY <2>2 DEF Acknowledged, Row
  <2>6. CallsConsented' /\ call' \in [Tabs -> Call]
    BY <2>1, OverType, OverStep DEF Reply, AccessInv
  <2>7. TypeOK'
    BY <2>1, <2>2, <2>4, <2>6 DEF AccessInv, TypeOK
  <2>8. CodesUsed' /\ OneSessionPerCode'
    BY <2>1, <2>2, <2>4 DEF AccessInv, TypeOK, CodesUsed, OneSessionPerCode
  <2>9. AcknowledgedByOwner' /\ AdmittedWithConsent'
    BY <2>1, <2>2, <2>3, <2>4, <2>5
       DEF AccessInv, TypeOK, AcknowledgedByOwner, AdmittedWithConsent
  <2> QED
    BY <2>6, <2>7, <2>8, <2>9 DEF AccessInv
<1>2. CASE ~(Live(s) /\ session[s].provider = provider)
  <2>1. Reply(t, "error") /\ UNCHANGED <<now, provider, code, session, jar, tab, consent, admitted>>
    BY <1>2 DEF Acknowledges
  <2> QED
    BY <2>1, ReplyStep
<1> QED
  BY <1>1, <1>2

\* A submission is admitted on the strength of its row.
LEMMA SubmitsStep ==
  ASSUME AccessInv, NEW t \in Tabs, Submits(t)
  PROVE  AccessInv'
<1> DEFINE s == call[t].cookie
<1>1. /\ Reply(t, "ok") /\ UNCHANGED <<now, provider, code, session, jar, tab, consent>>
      /\ s \in Sessions /\ call[t].sources \subseteq Sources
  BY DEF Submits, AccessInv, TypeOK, Call, CallsConsented
<1>2. PICK x \in call[t].sources :
        admitted' = IF MaySubmit(s, x) THEN admitted \cup {<<s, provider, x>>} ELSE admitted
  BY DEF Submits
<1>3. MaySubmit(s, x) => <<s, provider, x>> \in consent
  BY <1>1 DEF MaySubmit, AccessInv, AcknowledgedByOwner
<1>4. admitted' \subseteq consent
  BY <1>2, <1>3 DEF AccessInv, AdmittedWithConsent
<1>5. CallsConsented' /\ call' \in [Tabs -> Call]
  BY <1>1, OverType, OverStep DEF Reply, AccessInv
<1>6. TypeOK'
  BY <1>1, <1>4, <1>5 DEF AccessInv, TypeOK
<1> QED
  BY <1>1, <1>4, <1>5, <1>6
     DEF AccessInv, CodesUsed, OneSessionPerCode, AcknowledgedByOwner, AdmittedWithConsent

\* The end of a call in its tab.
LEMMA ArrivalStep ==
  ASSUME AccessInv, NEW t \in Tabs, ReplyArrives(t) \/ ReplyLost(t)
  PROVE  AccessInv'
<1>1. /\ call' = [call EXCEPT ![t] = NoCall]
      /\ UNCHANGED <<now, provider, code, session, consent, admitted>>
  BY DEF ReplyArrives, ReplyLost
<1>2. CallsConsented' /\ call' \in [Tabs -> Call]
  BY <1>1, NoCallType, OverStep
<1>3. jar' \in Sessions \cup {None}
  BY DEF ReplyArrives, ReplyLost, AccessInv, TypeOK, Call
<1>4. tab' \in [Tabs -> Tab]
  <2>1. /\ tab \in [Tabs -> Tab] /\ call[t].csrf \in Sessions \cup {None}
        /\ provider \in Providers
    BY DEF AccessInv, TypeOK, Call
  <2>2. /\ [csrf |-> call[t].csrf, shows |-> provider, signedOut |-> FALSE] \in Tab
        /\ [tab[t] EXCEPT !.signedOut = TRUE] \in Tab
    BY <2>1 DEF Tab
  <2>3. PICK d \in Tab : tab' = [tab EXCEPT ![t] = d] \/ tab' = tab
    BY <2>1, <2>2 DEF ReplyArrives, ReplyLost, Answered
  <2> QED
    BY <2>1, <2>3
<1>5. TypeOK'
  BY <1>1, <1>2, <1>3, <1>4 DEF AccessInv, TypeOK
<1> QED
  BY <1>1, <1>2, <1>5, CallStep DEF AccessInv, TypeOK

-----------------------------------------------------------------------------
(* The daemon and the clock                                                *)

LEMMA IssueStep ==
  ASSUME AccessInv, NEW c \in Codes, IssueBootstrap(c)
  PROVE  AccessInv'
<1>1. UNCHANGED <<now, provider, session, jar, tab, call, consent, admitted>>
  BY DEF IssueBootstrap
<1>2. code' \in [Codes -> Code]
  <2>1. now + CodeTtl \in Expiry /\ 0 \in Expiry
    BY AccessAssumption DEF AccessInv, TypeOK, Time, Expiry
  <2>2. \A x \in Codes : Swept(x) \in Code
    BY <2>1 DEF Swept, Code, AccessInv, TypeOK
  <2> QED
    BY <2>1, <2>2 DEF IssueBootstrap, Code
<1>3. TypeOK'
  BY <1>1, <1>2 DEF AccessInv, TypeOK
<1>4. \A x \in Codes : code[x].state \in {"consumed", "deleted"} =>
        code'[x].state \in {"consumed", "deleted"}
  BY DEF IssueBootstrap, Swept
<1>5. CodesUsed'
  BY <1>1, <1>4 DEF AccessInv, TypeOK, Row, CodesUsed
<1> QED
  BY <1>1, <1>3, <1>5
     DEF AccessInv, CallsConsented, OneSessionPerCode, AcknowledgedByOwner, AdmittedWithConsent

\* The handlers of a daemon that stops are gone, the requests that it has not read are not.
LEMMA RestartStep ==
  ASSUME AccessInv, NEW p \in Providers, Restart(p)
  PROVE  AccessInv'
<1>1. provider' = p /\ UNCHANGED <<now, code, session, jar, tab, consent, admitted>>
  BY DEF Restart
<1>2. \A t \in Tabs :
        \/ call'[t] = call[t] /\ call[t].stage \in {"none", "sent"}
        \/ call'[t] = Over(t, "error")
  BY DEF Restart
<1>3. call' \in [Tabs -> Call]
  BY OverType DEF Restart, AccessInv, TypeOK
<1>4. TypeOK'
  BY <1>1, <1>3 DEF AccessInv, TypeOK
<1>5. CallsConsented'
  BY <1>1, <1>2, OverType DEF AccessInv, CallsConsented
<1> QED
  BY <1>1, <1>4, <1>5, CallStep

LEMMA TickStep ==
  ASSUME AccessInv, Tick
  PROVE  AccessInv'
<1>1. /\ now' = now + 1 /\ now < MaxTime
      /\ UNCHANGED <<provider, code, session, tab, call, consent, admitted>>
      /\ jar' \in {jar, None}
  BY DEF Tick
<1>2. TypeOK'
  BY <1>1, AccessAssumption DEF AccessInv, TypeOK, Time
<1> QED
  BY <1>1, <1>2
     DEF AccessInv, CodesUsed, CallsConsented, OneSessionPerCode, AcknowledgedByOwner,
         AdmittedWithConsent

-----------------------------------------------------------------------------
LEMMA AccessInit == Init => AccessInv
<1> SUFFICES ASSUME Init PROVE AccessInv
  OBVIOUS
<1>1. TypeOK
  BY AccessAssumption, NoCallType DEF Init, TypeOK, Time, Expiry, Code, Tab
<1> QED
  BY <1>1 DEF Init, NoCall, AccessInv, CodesUsed, CallsConsented, OneSessionPerCode,
              AcknowledgedByOwner, AdmittedWithConsent

\* Every step keeps the invariant.
LEMMA AccessStep == AccessInv /\ [Next]_vars => AccessInv'
<1> SUFFICES ASSUME AccessInv, [Next]_vars PROVE AccessInv'
  OBVIOUS
<1>1. ASSUME NEW t \in Tabs, ExchangeRefused(t) \/ NotReady(t) PROVE AccessInv'
  <2>1. PICK reply \in {"ok", "refused", "error"} : Reply(t, reply)
    BY <1>1 DEF ExchangeRefused, NotReady
  <2> QED
    BY <1>1, <2>1, ReplyStep DEF ExchangeRefused, NotReady
<1>2. CASE UNCHANGED vars
  BY <1>2 DEF vars, AccessInv, TypeOK, CodesUsed, CallsConsented, OneSessionPerCode,
              AcknowledgedByOwner, AdmittedWithConsent
<1> QED
  BY <1>1, <1>2, IssueStep, OpenUrlStep, TabStep, AcknowledgeSetupStep, SubmitTaskStep,
     ExchangeStep, AuthorizesStep, AcknowledgesStep, SubmitsStep, ArrivalStep, RestartStep,
     TickStep DEF Next

\* The invariant holds of every behaviour.
LEMMA AccessAlways == Spec => []AccessInv
BY AccessInit, AccessStep, PTL DEF Spec

\* A bootstrap code is good for one session, however often its URL is opened and whenever
\* the daemon stops.
THEOREM CodeOpensOnce == Spec => []OneSessionPerCode
BY AccessAlways, PTL DEF AccessInv

\* Nothing is acknowledged in a session that the owner did not acknowledge in its own tab.
THEOREM OwnerAcknowledges == Spec => []AcknowledgedByOwner
BY AccessAlways, PTL DEF AccessInv

\* No submission of a browser is admitted without the owner's acknowledgement for the
\* provider and the source that it goes to.
THEOREM ConsentBeforeAdmission == Spec => []AdmittedWithConsent
BY AccessAlways, PTL DEF AccessInv

-----------------------------------------------------------------------------
(* What no step may do                                                     *)

\* The ways in which a row changes.
LEMMA RowChanges ==
  ASSUME AccessInv, [Next]_vars, NEW s \in Sessions, session[s] # None, session'[s] # session[s]
  PROVE  \E S \in SUBSET Sources :
           session'[s] = Acknowledged(session[s], S) /\ Live(s)
<1>1. ASSUME NEW t \in Tabs, NEW z \in Sessions, Exchange(t, z) PROVE FALSE
  BY <1>1 DEF Exchange, AccessInv, TypeOK
<1>2. PICK t \in Tabs : Acknowledges(t)
  <2>1. session' # session
    OBVIOUS
  <2> QED
    BY <1>1, <2>1 DEF Next, vars, IssueBootstrap, OpenUrl, Reload, Refresh, AcknowledgeSetup,
         SubmitTask, ExchangeRefused, Authorizes, NotReady, Submits, ReplyArrives, ReplyLost,
         Restart, Tick
<1>3. Live(call[t].cookie) /\ call[t].sources \subseteq Sources
      /\ session' = [session EXCEPT ![call[t].cookie] =
                       Acknowledged(session[call[t].cookie], call[t].sources)]
  BY <1>2 DEF Acknowledges, AccessInv, TypeOK, Call
<1>4. call[t].cookie = s
  BY <1>3 DEF AccessInv, TypeOK
<1> QED
  BY <1>3, <1>4 DEF AccessInv, TypeOK

\* No handler, retry or second tab undoes or redates an acknowledgement.
THEOREM AcknowledgementsLast == Spec => AcknowledgementsStay
<1> DEFINE Stays(s) ==
      /\ session'[s] # None
      /\ session[s].acknowledged # None => session'[s].acknowledged = session[s].acknowledged
      /\ \A x \in Sources :
           session[s].sources[x] # None => session'[s].sources[x] = session[s].sources[x]
<1>1. ASSUME AccessInv, [Next]_vars, NEW s \in Sessions, session[s] # None PROVE Stays(s)
  <2>1. CASE session'[s] = session[s]
    BY <1>1, <2>1
  <2>2. CASE session'[s] # session[s]
    <3>1. PICK S \in SUBSET Sources : session'[s] = Acknowledged(session[s], S)
      BY <1>1, <2>2, RowChanges
    <3>2. session[s] \in Row /\ now \in Time
      BY <1>1 DEF AccessInv, TypeOK
    <3>3. Acknowledged(session[s], S) \in Row
      BY <3>2 DEF Acknowledged, Row, Acks
    <3>4. session'[s] # None
      BY <3>1, <3>3, RowAssumption
    <3>5. session[s].acknowledged # None => session'[s].acknowledged = session[s].acknowledged
      BY <3>1, <3>2 DEF Acknowledged, Row
    <3>6. \A x \in Sources :
            session[s].sources[x] # None => session'[s].sources[x] = session[s].sources[x]
      BY <3>1, <3>2 DEF Acknowledged, Row, Acks
    <3> QED
      BY <3>4, <3>5, <3>6
  <2> QED
    BY <2>1, <2>2
<1>2. AccessInv /\ [Next]_vars =>
        [\A s \in Sessions : session[s] # None => Stays(s)]_vars
  BY <1>1
<1> QED
  BY <1>2, AccessAlways, PTL DEF Spec, AcknowledgementsStay

\* A handler that outlives its session gets nothing from it.
THEOREM ExpiryIsFinal == Spec => ExpiredGetsNothing
<1> DEFINE Nothing(s) ==
      /\ session'[s] = session[s]
      /\ \A p \in Providers, x \in Sources : <<s, p, x>> \in admitted' => <<s, p, x>> \in admitted
<1>1. ASSUME AccessInv, [Next]_vars, NEW s \in Sessions, session[s] # None,
             session[s].expires <= now
      PROVE  Nothing(s)
  <2>1. now \in Nat /\ session[s].expires \in Nat
    BY <1>1, AccessAssumption DEF AccessInv, TypeOK, Row, Time, Expiry
  <2>2. session'[s] = session[s]
    BY <1>1, <2>1, RowChanges DEF Live
  <2>3. ASSUME NEW t \in Tabs, Submits(t), NEW p \in Providers, NEW x \in Sources,
               <<s, p, x>> \in admitted', <<s, p, x>> \notin admitted
        PROVE  FALSE
    <3>1. PICK y \in call[t].sources :
            admitted' = IF MaySubmit(call[t].cookie, y)
                        THEN admitted \cup {<<call[t].cookie, provider, y>>} ELSE admitted
      BY <2>3 DEF Submits
    <3>2. call[t].cookie = s /\ MaySubmit(s, y)
      BY <2>3, <3>1
    <3> QED
      BY <1>1, <2>1, <3>2 DEF MaySubmit
  <2>4. ASSUME admitted' # admitted PROVE \E t \in Tabs : Submits(t)
    BY <1>1, <2>4
       DEF Next, vars, IssueBootstrap, OpenUrl, Reload, Refresh, AcknowledgeSetup, SubmitTask,
           Exchange, ExchangeRefused, Authorizes, NotReady, Acknowledges, ReplyArrives, ReplyLost,
           Restart, Tick
  <2> QED
    BY <2>2, <2>3, <2>4
<1>2. AccessInv /\ [Next]_vars =>
        [\A s \in Sessions : session[s] # None /\ session[s].expires <= now => Nothing(s)]_vars
  BY <1>1
<1> QED
  BY <1>2, AccessAlways, PTL DEF Spec, ExpiredGetsNothing

\* The row of a session only gains what is missing, and nothing once it has expired
\* (store.ts:762-838, 1294-1328).
THEOREM SessionsAreStanding == Spec => SessionsStand
BY AcknowledgementsLast, ExpiryIsFinal DEF SessionsStand

=============================================================================
