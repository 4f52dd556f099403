--------------------------- MODULE TransitionHub ----------------------------
(***************************************************************************)
(* The event stream of the daemon (sse.ts): subscribers replay the          *)
(* transition log from a cursor, and a pump run every 100 ms sends each of   *)
(* them what was committed since.  The socket of a slow subscriber refuses  *)
(* more until it drains; its transitions wait in a queue, and a subscriber  *)
(* whose queue is full is told to take a new snapshot and is dropped.       *)
(*                                                                         *)
(* `subscribe` and the pump read the log before an await and use what they  *)
(* read after it, so each is two actions here.                              *)
(***************************************************************************)
EXTENDS TransitionLog, Naturals, Sequences

CONSTANTS
  Subscribers, \* one per GET /v1/events request
  QueueLimit   \* EVENT_SUBSCRIBER_QUEUE_LIMIT

ASSUME HubAssumption ==
  /\ ReplayLimit \in Nat
  /\ QueueLimit \in Nat \ {0}
  /\ MaxCursor \in Nat

VARIABLES
  sub,    \* the Subscriber objects, with the frames written to their sockets
  pump,   \* the pass under way: whom it serves and what it has read
  closed  \* #closed of the hub

hubVars == <<high, sub, pump, closed>>

Phase == {"new", "replaying", "active", "resynced", "gone", "refused"}

\* What transitionsAfter returned: whether the cursor was served, and the
\* events it read, those after `from` and up to `to`
Window == [ok: BOOLEAN, from: 0..MaxCursor, to: 0..MaxCursor]

Subscriber ==
  [phase: Phase,
   base: 0..MaxCursor,      \* the cursor of the request
   accepted: 0..MaxCursor,  \* acceptedCursor
   queue: {q \in Seq(1..MaxCursor) : Len(q) <= QueueLimit},
   draining: BOOLEAN,
   window: Window,          \* the replay `subscribe` has read
   frames: Seq(1..MaxCursor)]

\* Type invariant, with the bound the hub's comment gives for a queue (sse.ts:28).
TypeOK ==
  /\ high \in 0..MaxCursor
  /\ sub \in [Subscribers -> Subscriber]
  /\ pump \in [on: BOOLEAN, set: SUBSET Subscribers, window: Window]
  /\ closed \in BOOLEAN

-----------------------------------------------------------------------------
(* Operators                                                               *)

\* transitionsAfter: the replay floor and the high-water mark bound the cursors
\* that are served.
After(cursor) ==
  [ok |-> high <= cursor + ReplayLimit /\ cursor <= high,
   from |-> cursor, to |-> high]

Nothing == [ok |-> FALSE, from |-> 0, to |-> 0]

\* The n cursors that follow c
Consecutive(c, n) == [i \in 1..n |-> c + i]

\* The events of a window that a subscriber has not accepted yet
Fresh_All(u, w) ==
  IF w.to > w.from THEN Consecutive(w.from, w.to - w.from) ELSE <<>>

Fresh(u, w) ==
  LET c == IF w.from > u.accepted THEN w.from ELSE u.accepted
  IN IF w.to > c THEN Consecutive(c, w.to - c) ELSE <<>>

\* #flush: the socket takes `room` frames, the last of which fills it; later
\* ones wait for its drain.
Flushed(u, room) ==
  LET k == IF u.draining THEN 0
           ELSE IF Len(u.queue) < room THEN Len(u.queue) ELSE room
  IN [u EXCEPT !.frames = @ \o SubSeq(u.queue, 1, k),
               !.queue = SubSeq(u.queue, k + 1, Len(u.queue)),
               !.draining = @ \/ room <= Len(u.queue)]

\* #overflow of a subscriber that is still open
Overflowed(u) == [u EXCEPT !.phase = "resynced", !.queue = <<>>]

\* #enqueue and #flush for every fresh event: a subscriber left with more than a
\* queue of them is sent resync_required.
Enqueued(u, w, room) ==
  IF Fresh(u, w) = <<>> THEN u
  ELSE LET v == Flushed([u EXCEPT !.queue = @ \o Fresh(u, w),
                                  !.accepted = w.to], room)
       IN IF Len(v.queue) > QueueLimit THEN Overflowed(v) ELSE v

Live(subs) == {s \in Subscribers : subs[s].phase = "active"}

\* #pump up to its await: nothing to do, or read what follows the least
\* accepted cursor.
Fastest(subs) ==
  CHOOSE c \in {subs[s].accepted : s \in Live(subs)} :
    \A s \in Live(subs) : c >= subs[s].accepted

Slowest(subs) ==
  CHOOSE c \in {subs[s].accepted : s \in Live(subs)} :
    \A s \in Live(subs) : c <= subs[s].accepted

Pumped(subs) ==
  IF pump.on \/ closed \/ Live(subs) = {}
  THEN pump
  ELSE [on |-> TRUE, set |-> Live(subs), window |-> After(Slowest(subs))]

-----------------------------------------------------------------------------
(* Actions                                                                 *)

Init ==
  /\ high \in 0..MaxCursor
  /\ sub = [s \in Subscribers |->
              [phase |-> "new", base |-> 0, accepted |-> 0, queue |-> <<>>,
               draining |-> FALSE, window |-> Nothing, frames |-> <<>>]]
  /\ pump = [on |-> FALSE, set |-> {}, window |-> Nothing]
  /\ closed = FALSE

\* appendEvent, in some transaction of the store
Log ==
  /\ high < MaxCursor
  /\ high' = high + 1
  /\ UNCHANGED <<sub, pump, closed>>

\* subscribe up to its await: any cursor may be asked for.
Subscribe(s) ==
  /\ sub[s].phase = "new"
  /\ \E c \in 0..MaxCursor :
       sub' = [sub EXCEPT ![s] =
                 [@ EXCEPT !.phase = IF closed THEN "refused" ELSE "replaying",
                           !.base = c, !.accepted = c, !.window = After(c)]]
  /\ UNCHANGED <<high, pump, closed>>

\* subscribe after its await, and the pump it starts
Activates(s) == sub[s].window.ok /\ ~closed

Activate(s) ==
  /\ sub[s].phase = "replaying"
  /\ \E room \in 1..(MaxCursor + 1) :
       LET u == [sub[s] EXCEPT !.phase = "active"]
       IN sub' = [sub EXCEPT
                    ![s] = IF Activates(s)
                           THEN Enqueued(u, u.window, room)
                           ELSE [@ EXCEPT !.phase = "refused"]]
  /\ pump' = IF Activates(s) THEN Pumped(sub') ELSE pump
  /\ UNCHANGED <<high, closed>>

\* The timer calls #pump.
PumpReads ==
  /\ ~pump.on
  /\ pump' = Pumped(sub)
  /\ pump' # pump
  /\ UNCHANGED <<high, sub, closed>>

\* #pump after its await: it serves those it had selected and that are open.
Served(room) ==
  [s \in Subscribers |->
     IF s \notin pump.set \/ sub[s].phase # "active" THEN sub[s]
     ELSE IF pump.window.ok THEN Enqueued(sub[s], pump.window, room[s])
     ELSE Overflowed(sub[s])]

PumpSends ==
  /\ pump.on
  /\ \E room \in [Subscribers -> 1..(MaxCursor + 1)] : sub' = Served(room)
  /\ pump' = [pump EXCEPT !.on = FALSE, !.set = {}, !.window = Nothing]
  /\ UNCHANGED <<high, closed>>

\* The socket's drain event: #flush goes on.
Drained(u, room) == Flushed([u EXCEPT !.draining = FALSE], room)

Drain(s) ==
  /\ sub[s].draining
  /\ sub[s].phase = "active"
  /\ \E room \in 1..(MaxCursor + 1) : sub' = [sub EXCEPT ![s] = Drained(@, room)]
  /\ UNCHANGED <<high, pump, closed>>

\* The response's error event, also while `subscribe` awaits
Failed(u) == [u EXCEPT !.phase = IF u.phase = "active" THEN "gone" ELSE "refused"]

Fails(s) ==
  /\ sub[s].phase \in {"replaying", "active"}
  /\ sub' = [sub EXCEPT ![s] = Failed(@)]
  /\ UNCHANGED <<high, pump, closed>>

\* #closeSubscriber of the browser's closed request, or of every subscriber
Left_Drained(u) ==
  [u EXCEPT !.phase = IF u.draining THEN @
                      ELSE CASE @ = "active" -> "gone"
                             [] @ = "replaying" -> "refused"
                             [] OTHER -> @]

Left(u) ==
  [u EXCEPT !.phase = CASE @ = "active" -> "gone"
                        [] @ = "replaying" -> "refused"
                        [] OTHER -> @,
            !.queue = IF u.phase \in {"active", "replaying"} THEN <<>> ELSE @]

Leaves(s) ==
  /\ sub[s].phase = "active"
  /\ sub' = [sub EXCEPT ![s] = Left(@)]
  /\ UNCHANGED <<high, pump, closed>>

\* close
Close ==
  /\ ~closed
  /\ closed' = TRUE
  /\ sub' = [s \in Subscribers |-> Left(sub[s])]
  /\ UNCHANGED <<high, pump>>

Next ==
  \/ Log \/ PumpReads \/ PumpSends \/ Close
  \/ \E s \in Subscribers :
       Subscribe(s) \/ Activate(s) \/ Drain(s) \/ Fails(s) \/ Leaves(s)

HubSpec == Init /\ [][Next]_hubVars

\* The timer fires and awaits end; sockets drain only if the browser reads.
FairHubSpec == HubSpec /\ WF_hubVars(PumpReads) /\ WF_hubVars(PumpSends)

-----------------------------------------------------------------------------
(* Properties                                                              *)

\* What a subscriber sees of the hub
Link ==
  [s \in Subscribers |->
     CASE sub[s].phase = "active"               -> "open"
       [] sub[s].phase \in {"resynced", "gone"} -> "ended"
       [] OTHER                                 -> "idle"]
Base ==
  [s \in Subscribers |-> IF Link[s] = "idle" THEN 0 ELSE sub[s].base]
Received == [s \in Subscribers |-> sub[s].frames]

Feed == INSTANCE EventFeed WITH link <- Link, base <- Base, received <- Received

\* Replays, pump passes, drains, resyncs and disconnections in any order send a
\* subscriber the transitions after its cursor, each once and in order, and
\* nothing after the stream has ended.
HubIsFeed == Feed!Spec

\* A transition waits in a queue only while a drain is awaited: flushing leaves
\* none behind that no event would send (sse.ts #flush and its drain callback).
NothingStranded ==
  \A s \in Live(sub) : sub[s].queue # <<>> => sub[s].draining

\* A subscription that was awaiting its replay when the hub closed is not
\* activated: closing leaves no response open (sse.ts subscribe, close).
ClosedHubIsEmpty == closed => Live(sub) = {}

\* Queues are bounded, none holds what no event will send, and closing leaves no response
\* open, in any order of reads, drains, subscriptions and the close (sse.ts:45-160).
StreamsAccounted == TypeOK /\ NothingStranded /\ ClosedHubIsEmpty

\* What the log holds reaches every open subscriber whose socket keeps draining,
\* or the subscriber is told to resync.
EveryTransitionArrives ==
  (\A s \in Subscribers : WF_hubVars(Drain(s))) =>
    \A s \in Subscribers, n \in 1..MaxCursor :
      (sub[s].phase = "active" /\ sub[s].base < n /\ n <= high) ~>
        (sub[s].phase # "active" \/ \E i \in DOMAIN sub[s].frames : sub[s].frames[i] = n)

=============================================================================
