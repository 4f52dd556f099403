-------------------------- MODULE WorkspaceClient ---------------------------
(***************************************************************************)
(* The browser's WorkspaceStore (web/src/workspace-store.ts): it shows the   *)
(* latest snapshot of the daemon and keeps it fresh by following the event  *)
(* stream from the snapshot's cursor.  A transition above the cursor starts *)
(* a refresh, at most one refresh is in flight, a broken stream is          *)
(* reconnected after a delay from a fresh snapshot.                         *)
(*                                                                         *)
(* A snapshot stands for its cursor.  The daemon appears as its log, the    *)
(* status route, which reads the log at one moment of the request, and one  *)
(* stream that keeps the promise of EventFeed.  Reconnect delays are not    *)
(* counted: the timer may fire at any time.                                 *)
(***************************************************************************)
EXTENDS TransitionLog, Naturals

CONSTANT
  MaxRegressions \* snapshots below the cursor that are put up with (3)

ASSUME ClientAssumption ==
  /\ MaxCursor \in Nat
  /\ ReplayLimit \in Nat
  /\ MaxRegressions \in Nat \ {0}

VARIABLES
  valid,       \* the owner session is accepted by the daemon
  link,        \* the EventSource: "closed", "connecting" or "open"
  at,          \* the cursor it was created with, or has last delivered
  phase,       \* state.phase; "ready" stands for "setup" too
  snapshot,    \* the cursor of state.snapshot, 0 before the first
  pending,     \* #pendingCursor
  flight,      \* #refreshFlight: "none", "asked" or, on its way back, "answered"
  reply,       \* the cursor of the answer on its way
  reconnect,   \* the flight was started to reconnect
  regressions, \* of this flight
  waiters,     \* who acts on the failure of the flight: start, the timer
  timer,       \* #reconnectTimer # null
  calling,     \* a command or acknowledgeSetup is under way
  lapse,       \* the last refresh failed, or put up with an older snapshot
  revived      \* history: a snapshot opened the page after it was signed out, and asks
               \* again; neither a stream nor a timer was set since

daemonVars == <<high, valid>>
streamVars == <<link, at>>
flightVars == <<flight, reply, reconnect, regressions, waiters>>
clientVars == <<daemonVars, streamVars, phase, snapshot, pending, flightVars,
                timer, calling, lapse, revived>>

ClientTypeOK ==
  /\ high \in 0..MaxCursor
  /\ valid \in BOOLEAN
  /\ link \in {"closed", "connecting", "open"}
  /\ at \in 0..MaxCursor
  /\ phase \in {"starting", "ready", "signed_out"}
  /\ snapshot \in 0..MaxCursor
  /\ pending \in 0..MaxCursor
  /\ flight \in {"none", "asked", "answered"}
  /\ reply \in 0..MaxCursor
  /\ reconnect \in BOOLEAN
  /\ regressions \in 0..MaxRegressions
  /\ waiters \subseteq {"start", "timer"}
  /\ timer \in BOOLEAN
  /\ calling \in BOOLEAN
  /\ lapse \in BOOLEAN
  /\ revived \in BOOLEAN

-----------------------------------------------------------------------------
(* The daemon                                                              *)

Commit ==
  /\ high < MaxCursor
  /\ high' = high + 1
  /\ UNCHANGED <<valid, streamVars, phase, snapshot, pending, flightVars, timer,
                 calling, lapse, revived>>

SessionExpires ==
  /\ valid
  /\ valid' = FALSE
  /\ UNCHANGED <<high, streamVars, phase, snapshot, pending, flightVars, timer,
                 calling, lapse, revived>>

\* The status route checks the session and reads the log in one transaction.
Answer ==
  /\ flight = "asked"
  /\ valid
  /\ flight' = "answered"
  /\ reply' = high
  /\ UNCHANGED <<daemonVars, streamVars, phase, snapshot, pending, reconnect,
                 regressions, waiters, timer, calling, lapse, revived>>

-----------------------------------------------------------------------------
(* Refreshing                                                              *)

\* refresh: join the flight, or start one.
Refresh(again, waiter) ==
  /\ IF flight # "none"
     THEN /\ waiters' = waiters \cup waiter
          /\ UNCHANGED <<flight, reconnect, regressions>>
     ELSE /\ flight' = "asked"
          /\ reconnect' = again
          /\ regressions' = 0
          /\ waiters' = waiter
  /\ reply' = reply

\* #connectEvents at the snapshot just read
Connect_KeepsTimer ==
  /\ link' = "connecting"
  /\ at' = reply
  /\ revived' = FALSE
  /\ timer' = timer

Connect ==
  /\ link' = "connecting"
  /\ at' = reply
  /\ revived' = FALSE
  /\ timer' = FALSE

\* start, after the bootstrap exchange and the session request
Start ==
  /\ phase = "starting"
  /\ flight = "none"
  /\ Refresh(TRUE, {"start"})
  /\ UNCHANGED <<daemonVars, streamVars, phase, snapshot, pending, timer, calling,
                 lapse, revived>>

\* #signedOut
SignOut ==
  /\ phase' = "signed_out"
  /\ link' = "closed"
  /\ timer' = FALSE
  /\ revived' = FALSE
  /\ UNCHANGED at

\* The bootstrap exchange or the session request of start fails.
StartFails ==
  /\ phase = "starting"
  /\ flight = "none"
  /\ phase' = "signed_out"
  /\ UNCHANGED <<daemonVars, streamVars, snapshot, pending, flightVars, timer,
                 calling, lapse, revived>>

\* checkConnection
OwnerChecks ==
  /\ phase = "ready"
  /\ ~calling
  /\ Refresh(FALSE, {})
  /\ UNCHANGED <<daemonVars, streamVars, phase, snapshot, pending, timer, calling,
                 lapse, revived>>

\* A command or acknowledgeSetup is sent: one at a time (busy), from an open page.
OwnerCalls ==
  /\ phase = "ready"
  /\ ~calling
  /\ calling' = TRUE
  /\ UNCHANGED <<daemonVars, streamVars, phase, snapshot, pending, flightVars, timer,
                 lapse, revived>>

\* It is accepted, and followed by a refresh (again for acknowledgeSetup), even if the
\* page was signed out meanwhile; or it is rejected for another reason, or lost.
CallReturns ==
  /\ calling
  /\ calling' = FALSE
  /\ \/ \E again \in BOOLEAN : Refresh(again, {})
     \/ UNCHANGED flightVars
  /\ UNCHANGED <<daemonVars, streamVars, phase, snapshot, pending, timer, lapse,
                 revived>>

\* It is refused as unauthorized or forbidden: for want of a session, but a valid
\* session is refused too (its CSRF token, or a provider that is not eligible).  The
\* flight under way goes on.
CallIsRefused ==
  /\ calling
  /\ calling' = FALSE
  /\ SignOut
  /\ UNCHANGED <<daemonVars, snapshot, pending, flightVars, lapse>>

\* A response of the status route: the snapshot is shown; the loop asks again
\* while it is older than the cursor, up to MaxRegressions times.
GivesUp == reply < pending /\ regressions + 1 >= MaxRegressions

Cursor == IF reply < pending /\ ~GivesUp THEN pending ELSE reply

AsksAgain_Never == FALSE

AsksAgain == reply < Cursor

SnapshotArrives ==
  /\ flight = "answered"
  /\ snapshot' = reply
  /\ phase' = "ready"
  /\ pending' = Cursor
  /\ lapse' = GivesUp
  /\ IF AsksAgain
     THEN /\ flight' = "asked"
          /\ regressions' = regressions + 1
          /\ revived' = (revived \/ phase = "signed_out")
          /\ UNCHANGED <<streamVars, timer, reconnect, waiters>>
     ELSE /\ flight' = "none"
          /\ reconnect' = FALSE
          /\ regressions' = 0
          /\ waiters' = {}
          /\ IF reconnect \/ link = "closed"
             THEN Connect
             ELSE UNCHANGED <<streamVars, timer, revived>>
  /\ reply' = 0
  /\ UNCHANGED <<daemonVars, calling>>

\* #scheduleResync
ScheduleResync ==
  /\ link' = IF timer THEN link ELSE "closed"
  /\ timer' = TRUE
  /\ revived' = FALSE
  /\ UNCHANGED at

\* The status request fails: for want of a session, or because it or its
\* response is lost.  start gives the page up; the timer tries again later.
RefreshFails ==
  /\ flight # "none"
  /\ flight' = "none"
  /\ reply' = 0
  /\ reconnect' = FALSE
  /\ regressions' = 0
  /\ waiters' = {}
  /\ lapse' = TRUE
  /\ \/ /\ flight = "asked" /\ ~valid
        /\ SignOut
     \/ /\ IF "start" \in waiters
           THEN /\ phase' = "signed_out"
                /\ link' = "closed"
                /\ UNCHANGED <<at, timer, revived>>
           ELSE /\ phase' = phase
                /\ IF "timer" \in waiters
                   THEN ScheduleResync
                   ELSE UNCHANGED <<streamVars, timer, revived>>
  /\ UNCHANGED <<daemonVars, snapshot, pending, calling>>

-----------------------------------------------------------------------------
(* The event stream                                                        *)

\* The daemon serves the stream from its cursor (onopen).
StreamOpens ==
  /\ link = "connecting"
  /\ valid
  /\ high <= at + ReplayLimit
  /\ link' = "open"
  /\ UNCHANGED <<daemonVars, at, phase, snapshot, pending, flightVars,
                 timer, calling, lapse, revived>>

\* A refused or expired cursor, resync_required, a lost connection (onerror)
StreamFails ==
  /\ link # "closed"
  /\ ScheduleResync
  /\ UNCHANGED <<daemonVars, phase, snapshot, pending, flightVars, calling, lapse>>

\* The next transition: one above the cursor starts a refresh.
Ignored(cursor) == cursor <= pending

Transition ==
  /\ link = "open"
  /\ at < high
  /\ at' = at + 1
  /\ IF Ignored(at + 1)
     THEN UNCHANGED <<pending, flightVars>>
     ELSE pending' = at + 1 /\ Refresh(FALSE, {})
  /\ UNCHANGED <<daemonVars, link, phase, snapshot, timer, calling, lapse, revived>>

\* The reconnect timer fires.
Resync ==
  /\ timer
  /\ timer' = FALSE
  /\ Refresh(TRUE, {"timer"})
  /\ UNCHANGED <<daemonVars, streamVars, phase, snapshot, pending, calling, lapse,
                 revived>>

-----------------------------------------------------------------------------

ClientInit ==
  /\ high \in 0..MaxCursor
  /\ valid = TRUE
  /\ link = "closed" /\ at = 0
  /\ phase = "starting"
  /\ snapshot = 0
  /\ pending = 0
  /\ flight = "none" /\ reply = 0 /\ reconnect = FALSE /\ regressions = 0
  /\ waiters = {}
  /\ timer = FALSE
  /\ calling = FALSE /\ lapse = FALSE /\ revived = FALSE

ClientNext ==
  \/ Commit \/ SessionExpires \/ Answer
  \/ Start \/ StartFails
  \/ OwnerChecks \/ OwnerCalls \/ CallReturns \/ CallIsRefused
  \/ SnapshotArrives \/ RefreshFails
  \/ StreamOpens \/ StreamFails \/ Transition \/ Resync

ClientSpec == ClientInit /\ [][ClientNext]_clientVars

\* A request is answered or fails, a stream opens, delivers or fails, a timer
\* fires: nothing is assumed of how often they fail.
StatusResolves == Answer \/ SnapshotArrives \/ RefreshFails
StreamResolves == link = "connecting" /\ (StreamOpens \/ StreamFails)

FairClientSpec ==
  /\ ClientSpec
  /\ WF_clientVars(StatusResolves)
  /\ WF_clientVars(StreamResolves)
  /\ WF_clientVars(Transition)
  /\ WF_clientVars(Resync)

-----------------------------------------------------------------------------
(* Properties                                                              *)

\* A page that is open follows the log: it has a stream, or a refresh under way
\* that will open one, or a timer that will start one, whatever fails in between.
\* (Excepted is the page that a late snapshot opens after a refused call has signed it
\* out, if that snapshot is older than the cursor and the next one it asks for is lost.)
NeverDeaf ==
  phase = "ready" => link # "closed" \/ timer \/ flight # "none" \/ revived

\* No stream while a reconnection is waiting, so a page never follows two
\* (#connectEvents clears the timer, #scheduleResync closes the stream).
OneReconnection == timer => link = "closed"

\* A page that is signed out holds no stream (#signedOut, start).
SignedOutIsClosed == phase = "signed_out" => link = "closed"

\* A page follows the log by one stream at a time and goes on trying, whatever fails, until
\* it is signed out; then it follows nothing (workspace-store.ts:207-404).
FollowsOnce == ClientTypeOK /\ NeverDeaf /\ OneReconnection /\ SignedOutIsClosed

\* With no refresh under way, the snapshot includes every transition the stream
\* has delivered, unless the last refresh failed or gave up: events that arrive
\* while a refresh is in flight are not forgotten (refresh, "transition").
SnapshotIsFresh ==
  phase = "ready" /\ flight = "none" /\ link = "open" /\ ~lapse =>
    at <= snapshot /\ pending = snapshot

\* Whatever is committed is shown, unless a refresh fails or gives up, or the
\* page is signed out: streams may fail and cursors expire as often as they like.
ChangesAreShown ==
  \A n \in 1..MaxCursor :
    (phase = "ready" /\ n <= high) ~>
      (n <= snapshot \/ lapse \/ phase = "signed_out")

\* docs/runtime/client-state-ownership.md:9: "The cursor only moves forward
\* (`Math.max`)."  The third snapshot in a row that is older than the cursor
\* moves it back.
CursorMovesForward == [][pending' >= pending]_pending

=============================================================================
