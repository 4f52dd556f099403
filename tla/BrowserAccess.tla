---------------------------- MODULE BrowserAccess ----------------------------
(***************************************************************************)
(* How the owner's browser gets its authority: one-time bootstrap codes,   *)
(* sessions with a cookie and a CSRF token, the acknowledgement of the     *)
(* provider and of sources, and the submission that needs both (store.ts,  *)
(* http-api.ts, workspace-store.ts).                                       *)
(*                                                                         *)
(* The tabs of one browser share its cookies but not the CSRF token they   *)
(* hold in memory.  A handler awaits the provider's readiness between the  *)
(* check of the authority and the write; time passes, the session expires  *)
(* or the daemon comes back with another provider in between.              *)
(***************************************************************************)
EXTENDS Integers, FiniteSets

CONSTANTS
  Codes,      \* bootstrap codes, each drawn once
  Sessions,   \* session tokens, each with its CSRF token, drawn once
  Tabs,
  Sources,    \* pasted, github_briefing
  Providers,  \* what the daemon may be started with
  CodeTtl,    \* BROWSER_BOOTSTRAP_TTL_MS
  SessionTtl, \* BROWSER_SESSION_TTL_MS
  MaxTime,    \* bound of the clock
  None

ASSUME AccessAssumption ==
  /\ CodeTtl \in Nat /\ SessionTtl \in Nat /\ MaxTime \in Nat
  /\ None \notin Sessions \cup Codes \cup Providers \cup Sources

VARIABLES
  now,
  provider,  \* of the running daemon
  code,      \* browser_bootstraps, and what is known of codes not in it
  session,   \* browser_sessions
  jar,       \* the session and CSRF cookies of the browser
  tab,       \* the CSRF token that the tab holds, and the provider it shows
  call,      \* the request of each tab and its handler
  consent,   \* what the owner has acknowledged in a tab (history)
  admitted   \* the submissions that were accepted (history)

vars == <<now, provider, code, session, jar, tab, call, consent, admitted>>

Time == 0..MaxTime
Expiry == 0..(MaxTime + CodeTtl + SessionTtl)

Code == [state : {"undrawn", "open", "consumed", "deleted"}, expires : Expiry]
Acks == [Sources -> Time \cup {None}]
Row  == [code : Codes, provider : Providers, acknowledged : Time \cup {None}, sources : Acks,
         expires : Expiry]
Tab  == [csrf : Sessions \cup {None}, shows : Providers \cup {None}, signedOut : BOOLEAN]
Call ==
  [kind : {"none", "exchange", "acknowledge", "submit"},
   stage : {"none", "sent", "authorized", "answered"},
   code : Codes \cup {None}, cookie : Sessions \cup {None}, csrf : Sessions \cup {None},
   provider : Providers \cup {None}, sources : SUBSET Sources,
   reply : {"none", "ok", "refused", "error"}]

\* What is not there is neither a row nor a time
ASSUME RowAssumption == None \notin Row /\ None \notin Time

TypeOK ==
  /\ now \in Time /\ provider \in Providers
  /\ code \in [Codes -> Code]
  /\ session \in [Sessions -> Row \cup {None}]
  /\ jar \in Sessions \cup {None}
  /\ tab \in [Tabs -> Tab]
  /\ call \in [Tabs -> Call]
  /\ consent \subseteq Sessions \X Providers \X Sources
  /\ admitted \subseteq Sessions \X Providers \X Sources

NoCall ==
  [kind |-> "none", stage |-> "none", code |-> None, cookie |-> None, csrf |-> None,
   provider |-> None, sources |-> {}, reply |-> "none"]

-----------------------------------------------------------------------------
(* The store                                                               *)

Unacknowledged == [x \in Sources |-> None]

\* browserSession: the row of a token, while it is live
Live(s) == s # None /\ session[s] # None /\ session[s].expires > now

\* issueBrowserBootstrap, which deletes what is used up
Swept(c) ==
  IF code[c].state = "consumed" \/ (code[c].state = "open" /\ code[c].expires <= now)
  THEN [state |-> "deleted", expires |-> 0] ELSE code[c]

IssueBootstrap(c) ==
  /\ code[c].state = "undrawn"
  /\ code' = [x \in Codes |->
       IF x = c THEN [state |-> "open", expires |-> now + CodeTtl] ELSE Swept(x)]
  /\ UNCHANGED <<now, provider, session, jar, tab, call, consent, admitted>>

Exchangeable_Consumed(c) == code[c].state \in {"open", "consumed"} /\ code[c].expires > now

Exchangeable(c) == code[c].state = "open" /\ code[c].expires > now

\* acknowledgeBrowserSetup: times that are set stay
Acknowledged_Replaced(row, S) ==
  [row EXCEPT !.acknowledged = now, !.sources = [x \in Sources |-> IF x \in S THEN now ELSE None]]

Acknowledged(row, S) ==
  [row EXCEPT !.acknowledged = IF row.acknowledged = None THEN now ELSE row.acknowledged,
     !.sources = [x \in Sources |->
       IF x \in S /\ row.sources[x] = None THEN now ELSE row.sources[x]]]

\* submitTask for a browser
MaySubmit_AnyProvider(s, x) ==
  /\ session[s] # None /\ session[s].expires > now
  /\ session[s].acknowledged # None /\ session[s].sources[x] # None

MaySubmit(s, x) ==
  /\ session[s] # None /\ session[s].expires > now
  /\ session[s].provider = provider
  /\ session[s].acknowledged # None /\ session[s].sources[x] # None

-----------------------------------------------------------------------------
(* The tabs                                                                *)

Send(t, c) ==
  /\ call[t].stage = "none"
  /\ call' = [call EXCEPT ![t] = c]

Sent(kind) ==
  [NoCall EXCEPT !.kind = kind, !.stage = "sent",
                 !.cookie = IF kind = "exchange" THEN None ELSE jar]

\* A URL with a code, opened in a tab, maybe for the second time
OpenUrl(t, c) ==
  /\ code[c].state # "undrawn"
  /\ Send(t, [Sent("exchange") EXCEPT !.code = c])
  /\ tab' = [tab EXCEPT ![t] = [csrf |-> None, shows |-> None, signedOut |-> FALSE]]
  /\ UNCHANGED <<now, provider, code, session, jar, consent, admitted>>

\* start without a code takes the token from the cookie; the session is read, and a snapshot
\* shows the provider of the daemon
Reload(t) ==
  /\ call[t].stage = "none"
  /\ tab' = [tab EXCEPT ![t] =
       IF Live(jar) THEN [csrf |-> jar, shows |-> provider, signedOut |-> FALSE]
       ELSE [csrf |-> jar, shows |-> None, signedOut |-> TRUE]]
  /\ UNCHANGED <<now, provider, code, session, jar, call, consent, admitted>>

\* A refresh of a tab that holds a token, by the session of the cookie
Refresh(t) ==
  /\ tab[t].csrf # None /\ ~tab[t].signedOut
  /\ tab' = [tab EXCEPT ![t] =
       IF Live(jar) THEN [tab[t] EXCEPT !.shows = provider]
       ELSE [tab[t] EXCEPT !.signedOut = TRUE]]
  /\ UNCHANGED <<now, provider, code, session, jar, call, consent, admitted>>

\* A tab that is set up or not yet; the owner decides for the provider that is shown
Mutates(t) == tab[t].csrf # None /\ tab[t].shows # None /\ ~tab[t].signedOut

AcknowledgeSetup(t, S) ==
  /\ Mutates(t) /\ S # {}
  /\ Send(t, [Sent("acknowledge") EXCEPT
       !.csrf = tab[t].csrf, !.provider = tab[t].shows, !.sources = S])
  /\ consent' = consent \cup ({tab[t].csrf} \X {tab[t].shows} \X S)
  /\ UNCHANGED <<now, provider, code, session, jar, tab, admitted>>

SubmitTask(t, x) ==
  /\ Mutates(t)
  /\ Send(t, [Sent("submit") EXCEPT !.csrf = tab[t].csrf, !.sources = {x}])
  /\ UNCHANGED <<now, provider, code, session, jar, tab, consent, admitted>>

-----------------------------------------------------------------------------
(* The handlers                                                            *)

Over(t, reply) ==
  [NoCall EXCEPT !.kind = call[t].kind, !.stage = "answered", !.reply = reply]

Reply(t, reply) == call' = [call EXCEPT ![t] = Over(t, reply)]

\* exchangeBootstrap: the code is consumed and the session created in one transaction
Exchange(t, s) ==
  /\ call[t].kind = "exchange" /\ call[t].stage = "sent"
  /\ Exchangeable(call[t].code) /\ session[s] = None
  /\ code' = [code EXCEPT ![call[t].code].state = "consumed"]
  /\ session' = [session EXCEPT ![s] =
       [code |-> call[t].code, provider |-> provider, acknowledged |-> None,
        sources |-> Unacknowledged, expires |-> now + SessionTtl]]
  /\ call' = [call EXCEPT ![t] = [Over(t, "ok") EXCEPT !.csrf = s]]
  /\ UNCHANGED <<now, provider, jar, tab, consent, admitted>>

ExchangeRefused(t) ==
  /\ call[t].kind = "exchange" /\ call[t].stage = "sent"
  /\ ~Exchangeable(call[t].code)
  /\ Reply(t, "error")
  /\ UNCHANGED <<now, provider, code, session, jar, tab, consent, admitted>>

\* authorizeRead and authorizeBrowserMutation
Authorized(t) == Live(call[t].cookie) /\ call[t].csrf = call[t].cookie

\* The handler goes on to await the readiness of the provider
Authorizes(t) ==
  /\ call[t].kind \in {"acknowledge", "submit"} /\ call[t].stage = "sent"
  /\ IF Authorized(t) THEN call' = [call EXCEPT ![t].stage = "authorized"]
     ELSE Reply(t, "refused")
  /\ UNCHANGED <<now, provider, code, session, jar, tab, consent, admitted>>

\* The provider is not ready, or the payload names another one
NotReady(t) ==
  /\ call[t].stage = "authorized"
  /\ Reply(t, "refused")
  /\ UNCHANGED <<now, provider, code, session, jar, tab, consent, admitted>>

Acknowledges(t) ==
  LET s == call[t].cookie IN
  /\ call[t].kind = "acknowledge" /\ call[t].stage = "authorized"
  /\ call[t].provider = provider
  /\ IF Live(s) /\ session[s].provider = provider
     THEN /\ session' = [session EXCEPT ![s] = Acknowledged(session[s], call[t].sources)]
          /\ Reply(t, "ok")
     ELSE Reply(t, "error") /\ UNCHANGED session
  /\ UNCHANGED <<now, provider, code, jar, tab, consent, admitted>>

\* A receipt, accepted or not
Submits(t) ==
  LET s == call[t].cookie IN
  /\ call[t].kind = "submit" /\ call[t].stage = "authorized"
  /\ \E x \in call[t].sources :
       admitted' = IF MaySubmit(s, x) THEN admitted \cup {<<s, provider, x>>} ELSE admitted
  /\ Reply(t, "ok")
  /\ UNCHANGED <<now, provider, code, session, jar, tab, consent>>

\* The answer: cookies and token of an exchange, a snapshot, or the end of the tab
Answered(t) ==
  IF call[t].reply = "refused" \/ (call[t].kind = "exchange" /\ call[t].reply = "error")
  THEN [tab[t] EXCEPT !.signedOut = TRUE]
  ELSE IF call[t].kind = "exchange" THEN [csrf |-> call[t].csrf, shows |-> provider, signedOut |-> FALSE]
  ELSE tab[t]

ReplyArrives(t) ==
  /\ call[t].stage = "answered"
  /\ jar' = IF call[t].kind = "exchange" /\ call[t].reply = "ok" THEN call[t].csrf ELSE jar
  /\ tab' = [tab EXCEPT ![t] = Answered(t)]
  /\ call' = [call EXCEPT ![t] = NoCall]
  /\ UNCHANGED <<now, provider, code, session, consent, admitted>>

\* Lost with the connection or with the daemon: the tab shows an error, a new tab that it
\* could not start
ReplyLost(t) ==
  /\ call[t].stage = "answered"
  /\ tab' = IF call[t].kind = "exchange" THEN [tab EXCEPT ![t].signedOut = TRUE] ELSE tab
  /\ call' = [call EXCEPT ![t] = NoCall]
  /\ UNCHANGED <<now, provider, code, session, jar, consent, admitted>>

-----------------------------------------------------------------------------
\* The daemon stops, with its handlers, and is started again; the store stays
Restart(p) ==
  /\ provider' = p
  /\ call' = [t \in Tabs |->
       IF call[t].stage \in {"none", "sent"} THEN call[t]
       ELSE Over(t, "error")]
  /\ UNCHANGED <<now, code, session, jar, tab, consent, admitted>>

\* Cookies expire with their session
Tick ==
  /\ now < MaxTime
  /\ now' = now + 1
  /\ jar' = IF jar # None /\ session[jar].expires <= now' THEN None ELSE jar
  /\ UNCHANGED <<provider, code, session, tab, call, consent, admitted>>

Init ==
  /\ now = 0 /\ provider \in Providers
  /\ code = [c \in Codes |-> [state |-> "undrawn", expires |-> 0]]
  /\ session = [s \in Sessions |-> None]
  /\ jar = None
  /\ tab = [t \in Tabs |-> [csrf |-> None, shows |-> None, signedOut |-> TRUE]]
  /\ call = [t \in Tabs |-> NoCall]
  /\ consent = {} /\ admitted = {}

Next ==
  \/ \E c \in Codes : IssueBootstrap(c)
  \/ \E t \in Tabs :
       \/ \E c \in Codes : OpenUrl(t, c)
       \/ Reload(t) \/ Refresh(t)
       \/ \E S \in SUBSET Sources : AcknowledgeSetup(t, S)
       \/ \E x \in Sources : SubmitTask(t, x)
       \/ \E s \in Sessions : Exchange(t, s)
       \/ ExchangeRefused(t) \/ Authorizes(t) \/ NotReady(t) \/ Acknowledges(t) \/ Submits(t)
       \/ ReplyArrives(t) \/ ReplyLost(t)
  \/ \E p \in Providers : Restart(p)
  \/ Tick

Spec == Init /\ [][Next]_vars

-----------------------------------------------------------------------------
(* Properties                                                              *)

\* A code makes one session and no more, whether its URL is opened in two tabs, its answer is
\* lost or the daemon dies over it (store.ts:707-749).
OneSessionPerCode ==
  \A s, z \in Sessions :
    session[s] # None /\ session[z] # None /\ session[s].code = session[z].code => s = z

\* Whatever is acknowledged in a session, the owner has acknowledged in a tab of that very
\* session, and for its provider: no tab writes into the session of another one that took over
\* the cookie (http-api.ts:165-188; store.ts:791-838).
AcknowledgedByOwner ==
  \A s \in Sessions : session[s] # None =>
    \A x \in Sources : session[s].sources[x] # None => <<s, session[s].provider, x>> \in consent

\* Every accepted submission of a browser was made after the owner acknowledged, in its session,
\* that source for the provider that got it, restarts with another provider included
\* (store.ts:1294-1328).
AdmittedWithConsent == admitted \subseteq consent

\* Two tabs, retries and slow handlers never undo or redate an acknowledgement.
AcknowledgementsStay ==
  [][\A s \in Sessions : session[s] # None =>
       /\ session'[s] # None
       /\ session[s].acknowledged # None => session'[s].acknowledged = session[s].acknowledged
       /\ \A x \in Sources :
            session[s].sources[x] # None => session'[s].sources[x] = session[s].sources[x]]_vars

\* A session that has expired gets no further authority from a handler that was waiting.
ExpiredGetsNothing ==
  [][\A s \in Sessions : session[s] # None /\ session[s].expires <= now =>
       /\ session'[s] = session[s]
       /\ \A p \in Providers, x \in Sources :
            <<s, p, x>> \in admitted' => <<s, p, x>> \in admitted]_vars

\* The row of a session only ever gains what is still missing, and nothing once it has
\* expired, whatever handlers were waiting (store.ts:762-838, 1294-1328).
SessionsStand == AcknowledgementsStay /\ ExpiredGetsNothing

=============================================================================
