---------------------------- MODULE StreamProofs ----------------------------
(***************************************************************************)
(* The transition stream at both ends, for any number of subscribers and   *)
(* any limits: the hub keeps the promise of EventFeed and strands no       *)
(* transition (TransitionHub), and the page that follows a stream goes on  *)
(* and shows what it was sent (WorkspaceClient).                           *)
(***************************************************************************)
EXTENDS TransitionHub, WorkspaceClient, TLAPS, WellFoundedInduction

-----------------------------------------------------------------------------
(* Runs of consecutive cursors                                             *)

\* A run is a sequence of the length it names.
LEMMA RunIsSeq ==
  ASSUME NEW c \in Nat, NEW n \in Nat, c + n <= MaxCursor
  PROVE  /\ Consecutive(c, n) \in Seq(1..MaxCursor)
         /\ Len(Consecutive(c, n)) = n
         /\ \A i \in 1..n : Consecutive(c, n)[i] = c + i
BY HubAssumption DEF Consecutive

\* A run of none is empty.
LEMMA RunEmpty == ASSUME NEW c \in Nat PROVE Consecutive(c, 0) = <<>>
<1>1. 1..0 = {}
  OBVIOUS
<1>2. Consecutive(c, 0) \in Seq(Nat) /\ Len(Consecutive(c, 0)) = 0
  BY DEF Consecutive
<1>. QED
  BY <1>2

\* Two runs that meet are one.
LEMMA RunConcat ==
  ASSUME NEW c \in Nat, NEW m \in Nat, NEW n \in Nat, c + m + n <= MaxCursor
  PROVE  Consecutive(c, m) \o Consecutive(c + m, n) = Consecutive(c, m + n)
<1>1. Consecutive(c, m) \in Seq(1..MaxCursor) /\ Len(Consecutive(c, m)) = m
  BY RunIsSeq, HubAssumption
<1>2. /\ Consecutive(c + m, n) \in Seq(1..MaxCursor)
      /\ Len(Consecutive(c + m, n)) = n
  BY RunIsSeq, HubAssumption
<1>. QED
  BY <1>1, <1>2 DEF Consecutive

\* A run is cut into two that meet.
LEMMA RunSplit ==
  ASSUME NEW c \in Nat, NEW n \in Nat, NEW k \in 0..n, c + n <= MaxCursor
  PROVE  /\ SubSeq(Consecutive(c, n), 1, k) = Consecutive(c, k)
         /\ SubSeq(Consecutive(c, n), k + 1, n) = Consecutive(c + k, n - k)
<1>. Consecutive(c, n) \in Seq(1..MaxCursor) /\ Len(Consecutive(c, n)) = n
  BY RunIsSeq
<1>1. SubSeq(Consecutive(c, n), 1, k) = Consecutive(c, k)
  BY DEF Consecutive
<1>2. SubSeq(Consecutive(c, n), k + 1, n) = Consecutive(c + k, n - k)
  BY DEF Consecutive
<1>. QED
  BY <1>1, <1>2

-----------------------------------------------------------------------------
(* One subscriber                                                          *)

\* A subscriber whose queue has not been checked against its limit yet
Backlogged ==
  [phase: Phase, base: 0..MaxCursor, accepted: 0..MaxCursor,
   queue: Seq(1..MaxCursor), draining: BOOLEAN, window: Window,
   frames: Seq(1..MaxCursor)]

\* What was sent and what is queued are two runs: from the cursor asked for to
\* the last one accepted, which the log holds.
Lined(u, h) ==
  /\ u.frames = Consecutive(u.base, Len(u.frames))
  /\ u.queue = Consecutive(u.base + Len(u.frames), Len(u.queue))
  /\ u.accepted = u.base + Len(u.frames) + Len(u.queue)
  /\ u.accepted <= h

\* Something is queued only while a drain is awaited.
Tidy(u) == u.queue # <<>> => u.draining

\* Flushing moves the head of the queue to the frames, and strands nothing.
LEMMA FlushedLined ==
  ASSUME NEW u \in Backlogged, NEW h \in 0..MaxCursor, Lined(u, h),
         NEW room \in Nat \ {0}
  PROVE  LET v == Flushed(u, room)
         IN /\ v \in Backlogged
            /\ v.phase = u.phase /\ v.base = u.base
            /\ Len(u.frames) <= Len(v.frames)
            /\ Lined(v, h)
            /\ Tidy(v)
            /\ v.accepted = u.accepted
            /\ Len(v.queue) <= Len(u.queue)
<1>. DEFINE b == u.base
            m == Len(u.frames)
            n == Len(u.queue)
            k == IF u.draining THEN 0 ELSE IF n < room THEN n ELSE room
            v == Flushed(u, room)
<1>1. /\ u.frames \in Seq(1..MaxCursor) /\ u.queue \in Seq(1..MaxCursor)
      /\ b \in Nat /\ m \in Nat /\ n \in Nat /\ u.draining \in BOOLEAN
  BY DEF Backlogged
<1>2. k \in 0..n
  BY <1>1
<1>3. /\ MaxCursor \in Nat
      /\ u.frames = Consecutive(b, m)
      /\ u.queue = Consecutive(b + m, n)
      /\ u.accepted = b + m + n
      /\ u.accepted <= h /\ b + m + n <= MaxCursor
  BY HubAssumption, <1>1 DEF Lined
<1>4. v = [u EXCEPT !.frames = @ \o SubSeq(u.queue, 1, k),
                    !.queue = SubSeq(u.queue, k + 1, n),
                    !.draining = @ \/ room <= n]
  BY DEF Flushed
<1>5. k < n => u.draining \/ room <= n
  BY <1>1
<1>. HIDE DEF k, b, m, n
<1>6. /\ b + m \in Nat /\ b + m + k \in Nat /\ n - k \in Nat /\ m + k \in Nat
      /\ k \in Nat
      /\ (b + m) + n <= MaxCursor
      /\ b + m + k <= MaxCursor
      /\ b + (m + k) <= MaxCursor
      /\ (b + m + k) + (n - k) <= MaxCursor
      /\ b + (m + k) = b + m + k
      /\ b + (m + k) + (n - k) = b + m + n
      /\ m <= m + k /\ n - k <= n
  BY <1>1, <1>2, <1>3
<1>7. /\ SubSeq(u.queue, 1, k) = Consecutive(b + m, k)
      /\ SubSeq(u.queue, k + 1, n) = Consecutive(b + m + k, n - k)
  <2>. DEFINE c == b + m
  <2>1. c \in Nat /\ n \in Nat /\ c + n <= MaxCursor
    BY <1>1, <1>6
  <2>. HIDE DEF c
  <2>2. /\ SubSeq(Consecutive(c, n), 1, k) = Consecutive(c, k)
        /\ SubSeq(Consecutive(c, n), k + 1, n) = Consecutive(c + k, n - k)
    BY <2>1, <1>2, RunSplit
  <2>. QED
    BY <2>2, <1>3 DEF c
<1>8. u.frames \o SubSeq(u.queue, 1, k) = Consecutive(b, m + k)
  <2>1. b \in Nat /\ m \in Nat /\ k \in Nat /\ b + m + k <= MaxCursor
    BY <1>1, <1>6
  <2>2. Consecutive(b, m) \o Consecutive(b + m, k) = Consecutive(b, m + k)
    BY <2>1, RunConcat
  <2>. QED
    BY <2>2, <1>3, <1>7
<1>9. /\ Consecutive(b, m + k) \in Seq(1..MaxCursor)
      /\ Len(Consecutive(b, m + k)) = m + k
  BY <1>1, <1>6, RunIsSeq
<1>10. /\ Consecutive(b + m + k, n - k) \in Seq(1..MaxCursor)
       /\ Len(Consecutive(b + m + k, n - k)) = n - k
  BY <1>6, RunIsSeq
<1>11. v = [u EXCEPT !.frames = Consecutive(b, m + k),
                     !.queue = Consecutive(b + m + k, n - k),
                     !.draining = @ \/ room <= n]
  BY <1>4, <1>7, <1>8
<1>. HIDE DEF v
<1>12. /\ v.frames = Consecutive(b, m + k)
       /\ v.queue = Consecutive(b + m + k, n - k)
       /\ v.draining = (u.draining \/ room <= n)
       /\ v.phase = u.phase /\ v.base = u.base /\ v.accepted = u.accepted
  BY <1>11 DEF Backlogged
<1>13. v \in Backlogged
  BY <1>1, <1>9, <1>10, <1>11 DEF Backlogged
<1>14. /\ v.base = b
       /\ Len(v.frames) = m + k
       /\ Len(v.queue) = n - k
  BY <1>9, <1>10, <1>12 DEF b
<1>15. Lined(v, h)
  BY <1>3, <1>6, <1>12, <1>14 DEF Lined
<1>16. Tidy(v)
  <2>1. CASE k < n
    BY <2>1, <1>5, <1>12 DEF Tidy
  <2>2. CASE ~(k < n)
    <3>1. n - k = 0
      BY <2>2, <1>1, <1>2
    <3>2. v.queue = <<>>
      BY <3>1, <1>10, <1>12
    <3>. QED
      BY <3>2 DEF Tidy
  <2>. QED
    BY <2>1, <2>2
<1>17. Len(u.frames) <= Len(v.frames) /\ Len(v.queue) <= Len(u.queue)
  BY <1>6, <1>14 DEF m, n
<1>. QED
  BY <1>12, <1>13, <1>15, <1>16, <1>17 DEF v

\* Enqueueing a window that starts no later than the last accepted cursor keeps
\* the runs together; the queue is within its limit or the stream has ended.
LEMMA EnqueuedLined ==
  ASSUME NEW u \in Subscriber, NEW h \in 0..MaxCursor, Lined(u, h), Tidy(u),
         u.phase = "active",
         NEW w \in Window, w.to <= h, w.from <= u.accepted,
         NEW room \in Nat \ {0}
  PROVE  LET v == Enqueued(u, w, room)
         IN /\ v \in Subscriber
            /\ v.phase \in {"active", "resynced"} /\ v.base = u.base
            /\ v.frames = Consecutive(u.base, Len(v.frames))
            /\ Len(v.frames) \in Len(u.frames)..(h - u.base)
            /\ v.phase = "active" => Lined(v, h) /\ Tidy(v)
<1>. DEFINE a == u.accepted
            new == Consecutive(a, w.to - a)
            x == [u EXCEPT !.queue = @ \o new, !.accepted = w.to]
            v == Enqueued(u, w, room)
<1>1. /\ u.frames \in Seq(1..MaxCursor) /\ u.queue \in Seq(1..MaxCursor)
      /\ u.base \in 0..MaxCursor /\ a \in 0..MaxCursor
      /\ w.to \in 0..MaxCursor /\ w.from \in 0..MaxCursor
      /\ Len(u.frames) \in Nat /\ Len(u.queue) \in Nat
      /\ Len(u.queue) <= QueueLimit
  BY DEF Subscriber, Window
<1>2. u \in Backlogged
  BY DEF Backlogged, Subscriber
<1>3. MaxCursor \in Nat /\ QueueLimit \in Nat
  BY HubAssumption
<1>4. /\ u.frames = Consecutive(u.base, Len(u.frames))
      /\ u.queue = Consecutive(u.base + Len(u.frames), Len(u.queue))
      /\ a = u.base + Len(u.frames) + Len(u.queue)
      /\ a <= h
  BY DEF Lined
<1>5. CASE w.to <= a
  <2>1. Fresh(u, w) = <<>>
    BY <1>1, <1>3, <1>5 DEF Fresh
  <2>2. v = u
    BY <2>1 DEF Enqueued
  <2>3. Len(u.frames) \in Len(u.frames)..(h - u.base)
    BY <1>1, <1>3, <1>4
  <2>. QED
    BY <2>2, <2>3, <1>4
<1>6. CASE w.to > a
  <2>. DEFINE f == Len(u.frames)
              q == Len(u.queue)
              n == w.to - a
  <2>1. Fresh(u, w) = new
    BY <1>1, <1>3, <1>6 DEF Fresh
  <2>2. x.accepted = w.to /\ x.frames = u.frames /\ x.base = u.base
        /\ x.phase = "active" /\ x.queue = u.queue \o new
    BY <1>2 DEF Backlogged
  <2>3. v = IF new = <<>> THEN u
            ELSE LET y == Flushed(x, room)
                 IN IF Len(y.queue) > QueueLimit THEN Overflowed(y) ELSE y
    BY <2>1 DEF Enqueued
  <2>. HIDE DEF f, q, v
  <2>4. /\ f \in Nat /\ q \in Nat /\ n \in Nat \ {0}
        /\ u.base + f \in Nat /\ (u.base + f) + q = a
        /\ (u.base + f) + q + n <= MaxCursor
        /\ a + n <= MaxCursor
        /\ q + n \in Nat
        /\ w.to = u.base + f + (q + n)
    <3>1. f \in Nat /\ q \in Nat /\ u.base \in Nat /\ a \in Nat /\ w.to \in Nat
      BY <1>1 DEF f, q
    <3>2. a = u.base + f + q
      BY <1>4 DEF f, q
    <3>3. w.to > a /\ w.to <= MaxCursor
      BY <1>1, <1>6
    <3>. QED
      BY <3>1, <3>2, <3>3, <1>3
  <2>5. new \in Seq(1..MaxCursor) /\ Len(new) = n
    BY <2>4, <1>1, RunIsSeq
  <2>6. new # <<>>
    BY <2>4, <2>5
  <2>7. u.queue \o new = Consecutive(u.base + f, q + n)
    <3>. DEFINE c == u.base + f
    <3>1. c \in Nat /\ c + q = a /\ c + q + n <= MaxCursor
      BY <2>4
    <3>. HIDE DEF c, n
    <3>2. Consecutive(c, q) \o Consecutive(c + q, n) = Consecutive(c, q + n)
      BY <3>1, <2>4, RunConcat
    <3>3. u.queue = Consecutive(c, q)
      BY <1>4 DEF c, f, q
    <3>. QED
      BY <3>1, <3>2, <3>3 DEF c, n
  <2>8. u.queue \o new \in Seq(1..MaxCursor) /\ Len(u.queue \o new) = q + n
    <3>1. u.queue \in Seq(1..MaxCursor) /\ Len(u.queue) = q
      BY <1>1 DEF q
    <3>2. q + n \in Nat /\ q \in Nat /\ n \in Nat
      BY <2>4
    <3>. HIDE DEF new, n
    <3>. QED
      BY <3>1, <3>2, <2>5
  <2>9. x \in Backlogged
    BY <2>8, <1>1, <1>2 DEF Backlogged
  <2>. HIDE DEF x
  <2>10. Lined(x, h)
    BY <2>2, <2>4, <2>7, <2>8, <1>4 DEF Lined, f
  <2>. DEFINE y == Flushed(x, room)
  <2>11. /\ y \in Backlogged /\ y.phase = "active" /\ y.base = u.base
         /\ Len(u.frames) <= Len(y.frames) /\ Lined(y, h) /\ Tidy(y)
    BY <2>2, <2>9, <2>10, FlushedLined
  <2>12. v = IF Len(y.queue) > QueueLimit THEN Overflowed(y) ELSE y
    BY <2>3, <2>6
  <2>. HIDE DEF y
  <2>13. /\ Len(y.frames) \in Nat /\ Len(y.queue) \in Nat
         /\ y.frames \in Seq(1..MaxCursor) /\ y.queue \in Seq(1..MaxCursor)
    BY <2>11 DEF Backlogged
  <2>14. /\ y.frames = Consecutive(u.base, Len(y.frames))
         /\ u.base + Len(y.frames) + Len(y.queue) <= h
    BY <2>11 DEF Lined
  <2>15. Len(y.frames) \in Len(u.frames)..(h - u.base)
    BY <2>11, <2>13, <2>14, <1>1, <1>3
  <2>16. CASE Len(y.queue) > QueueLimit
    <3>1. v = [y EXCEPT !.phase = "resynced", !.queue = <<>>]
      BY <2>12, <2>16 DEF Overflowed
    <3>2. v.phase = "resynced" /\ v.base = y.base /\ v.frames = y.frames
      BY <3>1, <2>11 DEF Backlogged
    <3>3. /\ <<>> \in {s \in Seq(1..MaxCursor) : Len(s) <= QueueLimit}
          /\ "resynced" \in Phase
      BY <1>3 DEF Phase
    <3>4. v \in Subscriber
      BY <3>1, <3>3, <2>11 DEF Backlogged, Subscriber
    <3>. QED
      BY <3>2, <3>4, <2>11, <2>14, <2>15 DEF v
  <2>17. CASE ~(Len(y.queue) > QueueLimit)
    <3>1. v = y
      BY <2>12, <2>17
    <3>2. y.queue \in {s \in Seq(1..MaxCursor) : Len(s) <= QueueLimit}
      BY <2>13, <2>17, <1>3
    <3>3. y \in Subscriber
      BY <2>11, <3>2 DEF Backlogged, Subscriber
    <3>. QED
      BY <3>1, <3>3, <2>11, <2>14, <2>15 DEF v
  <2>. QED
    BY <2>16, <2>17
<1>. QED
  BY <1>1, <1>3, <1>5, <1>6

-----------------------------------------------------------------------------
(* What one step does to one subscriber                                    *)

\* The invariant of a subscriber, given the high-water cursor
Sound(u, h) ==
  /\ u.phase = "active" => Lined(u, h) /\ Tidy(u)
  /\ u.phase \in {"new", "replaying", "refused"} => u.frames = <<>>
  /\ u.phase \in {"new", "replaying"} => u.queue = <<>>
  /\ u.phase = "replaying" =>
       /\ u.accepted = u.base
       /\ u.window.from = u.base
       /\ u.window.ok => u.base <= u.window.to
       /\ u.window.to <= h

LinkOf(u) ==
  CASE u.phase = "active"               -> "open"
    [] u.phase \in {"resynced", "gone"} -> "ended"
    [] OTHER                            -> "idle"

BaseOf(u) == IF LinkOf(u) = "idle" THEN 0 ELSE u.base

\* The step of a subscriber is one that EventFeed allows.
Kept(u, v, h) ==
  \/ LinkOf(v) = LinkOf(u) /\ BaseOf(v) = BaseOf(u) /\ v.frames = u.frames
  \/ /\ LinkOf(u) # "open"
     /\ LinkOf(v) \in {"open", "ended"}
     /\ BaseOf(v) \in 0..h
     /\ \E n \in 0..(h - BaseOf(v)) : v.frames = Consecutive(BaseOf(v), n)
  \/ /\ LinkOf(u) = "open"
     /\ LinkOf(v) \in {"open", "ended"}
     /\ BaseOf(v) = BaseOf(u)
     /\ \E n \in Len(u.frames)..(h - BaseOf(u)) :
          v.frames = Consecutive(BaseOf(u), n)

Moves(u, v, h) == v \in Subscriber /\ Sound(v, h) /\ Kept(u, v, h)

\* A subscriber that is not touched
LEMMA RestMoves ==
  ASSUME NEW u \in Subscriber, NEW h \in 0..MaxCursor, Sound(u, h)
  PROVE  Moves(u, u, h)
BY DEF Moves, Kept

\* subscribe up to its await
LEMMA SubscribeMoves ==
  ASSUME NEW u \in Subscriber, NEW h \in 0..MaxCursor, Sound(u, h),
         u.phase = "new", NEW ph \in {"refused", "replaying"},
         NEW c \in 0..MaxCursor, NEW w \in Window,
         w.from = c, w.to = h, w.ok => c <= h
  PROVE  Moves(u, [u EXCEPT !.phase = ph, !.base = c, !.accepted = c,
                            !.window = w], h)
<1>. DEFINE v == [u EXCEPT !.phase = ph, !.base = c, !.accepted = c, !.window = w]
<1>1. /\ v.phase = ph /\ v.base = c /\ v.accepted = c /\ v.window = w
      /\ v.queue = u.queue /\ v.frames = u.frames
      /\ v \in Subscriber
  BY DEF Subscriber, Phase
<1>. HIDE DEF v
<1>2. u.queue = <<>> /\ u.frames = <<>>
  BY DEF Sound
<1>3. Sound(v, h)
  BY <1>1, <1>2, HubAssumption DEF Sound
<1>4. Kept(u, v, h)
  BY <1>1 DEF Kept, LinkOf, BaseOf
<1>. QED
  BY <1>1, <1>3, <1>4 DEF Moves, v

\* An open subscriber that is sent a window
LEMMA EnqueueMoves ==
  ASSUME NEW u \in Subscriber, NEW h \in 0..MaxCursor, Sound(u, h),
         u.phase = "active", NEW w \in Window, w.to <= h, w.from <= u.accepted,
         NEW room \in Nat \ {0}
  PROVE  Moves(u, Enqueued(u, w, room), h)
<1>. DEFINE v == Enqueued(u, w, room)
<1>1. Lined(u, h) /\ Tidy(u)
  BY DEF Sound
<1>2. /\ v \in Subscriber
      /\ v.phase \in {"active", "resynced"} /\ v.base = u.base
      /\ v.frames = Consecutive(u.base, Len(v.frames))
      /\ Len(v.frames) \in Len(u.frames)..(h - u.base)
      /\ v.phase = "active" => Lined(v, h) /\ Tidy(v)
  BY <1>1, EnqueuedLined
<1>. HIDE DEF v
<1>3. Sound(v, h)
  BY <1>2 DEF Sound
<1>4. Kept(u, v, h)
  BY <1>2 DEF Kept, LinkOf, BaseOf
<1>. QED
  BY <1>2, <1>3, <1>4 DEF Moves, v

\* subscribe after its await
LEMMA ActivateMoves ==
  ASSUME NEW u \in Subscriber, NEW h \in 0..MaxCursor, Sound(u, h),
         u.phase = "replaying", u.window.ok, NEW room \in Nat \ {0}
  PROVE  Moves(u, Enqueued([u EXCEPT !.phase = "active"], u.window, room), h)
<1>. DEFINE x == [u EXCEPT !.phase = "active"]
            v == Enqueued(x, u.window, room)
<1>1. /\ x \in Subscriber /\ x.phase = "active" /\ x.window = u.window
      /\ x.base = u.base /\ x.accepted = u.accepted /\ x.queue = u.queue
      /\ x.frames = u.frames
  BY DEF Subscriber, Phase
<1>2. /\ u.base \in 0..MaxCursor /\ u.window \in Window
      /\ u.window.to \in 0..MaxCursor
  BY DEF Subscriber, Window
<1>3. /\ u.queue = <<>> /\ u.frames = <<>> /\ u.accepted = u.base
      /\ u.window.from = u.base /\ u.base <= u.window.to /\ u.window.to <= h
      /\ u.base <= h
  BY <1>2, HubAssumption DEF Sound
<1>. HIDE DEF x
<1>4. Lined(x, h)
  <2>1. Consecutive(u.base, 0) = <<>>
    BY <1>2, HubAssumption, RunEmpty
  <2>2. u.base + 0 = u.base /\ u.base + 0 + 0 = u.base /\ Len(<<>>) = 0
    BY <1>2
  <2>3. Consecutive(u.base + 0, 0) = <<>>
    BY <2>1, <2>2
  <2>. QED
    BY <1>1, <1>3, <2>1, <2>2, <2>3 DEF Lined
<1>5. Tidy(x)
  BY <1>1, <1>3 DEF Tidy
<1>6. /\ v \in Subscriber
      /\ v.phase \in {"active", "resynced"} /\ v.base = x.base
      /\ v.frames = Consecutive(x.base, Len(v.frames))
      /\ Len(v.frames) \in Len(x.frames)..(h - x.base)
      /\ v.phase = "active" => Lined(v, h) /\ Tidy(v)
  BY <1>1, <1>2, <1>3, <1>4, <1>5, EnqueuedLined
<1>. HIDE DEF v
<1>7. Sound(v, h)
  BY <1>6 DEF Sound
<1>8. Len(v.frames) \in 0..(h - u.base)
  BY <1>1, <1>2, <1>3, <1>6, HubAssumption
<1>9. Kept(u, v, h)
  BY <1>1, <1>2, <1>3, <1>6, <1>8, HubAssumption DEF Kept, LinkOf, BaseOf
<1>. QED
  BY <1>6, <1>7, <1>9 DEF Moves, v, x

\* A socket that drains
LEMMA DrainMoves ==
  ASSUME NEW u \in Subscriber, NEW h \in 0..MaxCursor, Sound(u, h),
         u.phase = "active", NEW room \in Nat \ {0}
  PROVE  /\ Moves(u, Drained(u, room), h)
         /\ Drained(u, room).phase = "active"
         /\ Drained(u, room).accepted = u.accepted
<1>. DEFINE x == [u EXCEPT !.draining = FALSE]
            v == Flushed(x, room)
<1>1. /\ x \in Backlogged /\ x.phase = "active" /\ x.base = u.base
      /\ x.accepted = u.accepted /\ x.queue = u.queue /\ x.frames = u.frames
  BY DEF Subscriber, Backlogged
<1>2. /\ u.queue \in Seq(1..MaxCursor) /\ Len(u.queue) <= QueueLimit
      /\ Len(u.queue) \in Nat /\ Len(u.frames) \in Nat /\ u.base \in Nat
      /\ QueueLimit \in Nat
  BY HubAssumption DEF Subscriber
<1>. HIDE DEF x
<1>3. Lined(x, h)
  BY <1>1 DEF Sound, Lined
<1>4. /\ v \in Backlogged /\ v.phase = x.phase /\ v.base = x.base
      /\ Len(x.frames) <= Len(v.frames) /\ Lined(v, h) /\ Tidy(v)
      /\ v.accepted = x.accepted
      /\ Len(v.queue) <= Len(x.queue)
  BY <1>1, <1>3, FlushedLined
<1>5. v = Drained(u, room)
  BY DEF Drained, x
<1>. HIDE DEF v
<1>6. v.queue \in Seq(1..MaxCursor) /\ Len(v.queue) \in Nat /\ Len(v.frames) \in Nat
  BY <1>4 DEF Backlogged
<1>7. v.queue \in {q \in Seq(1..MaxCursor) : Len(q) <= QueueLimit}
  BY <1>1, <1>2, <1>4, <1>6
<1>8. v \in Subscriber
  BY <1>4, <1>7 DEF Backlogged, Subscriber
<1>9. Sound(v, h)
  BY <1>1, <1>4 DEF Sound
<1>10. Len(v.frames) \in Len(u.frames)..(h - u.base)
  BY <1>1, <1>2, <1>4, <1>6 DEF Lined
<1>11. Kept(u, v, h)
  BY <1>1, <1>4, <1>10 DEF Kept, LinkOf, BaseOf, Lined
<1>. QED
  BY <1>1, <1>4, <1>5, <1>8, <1>9, <1>11 DEF Moves

\* A stream that ends without a frame: overflow by the pump, an error, a
\* request that closes, a subscription that is refused
LEMMA EndMoves ==
  ASSUME NEW u \in Subscriber, NEW h \in 0..MaxCursor, Sound(u, h),
         NEW v \in Subscriber, v.base = u.base, v.frames = u.frames,
         \/ u.phase = "active" /\ v.phase \in {"resynced", "gone"}
         \/ u.phase = "replaying" /\ v.phase = "refused"
  PROVE  Moves(u, v, h)
<1>1. CASE u.phase = "active" /\ v.phase \in {"resynced", "gone"}
  <2>1. /\ u.base \in Nat /\ Len(u.frames) \in Nat /\ Len(u.queue) \in Nat
        /\ u.accepted = u.base + Len(u.frames) + Len(u.queue)
        /\ u.accepted <= h
        /\ u.frames = Consecutive(u.base, Len(u.frames))
    BY <1>1 DEF Sound, Lined, Subscriber
  <2>2. Len(u.frames) \in Len(u.frames)..(h - u.base)
    BY <2>1
  <2>3. Kept(u, v, h)
    BY <1>1, <2>1, <2>2 DEF Kept, LinkOf, BaseOf
  <2>. QED
    BY <1>1, <2>3 DEF Moves, Sound
<1>2. CASE u.phase = "replaying" /\ v.phase = "refused"
  BY <1>2 DEF Moves, Sound, Kept, LinkOf, BaseOf
<1>. QED
  BY <1>1, <1>2

-----------------------------------------------------------------------------
(* The pump                                                                *)

\* Cursors have a least one.
LEMMA LeastExists ==
  ASSUME NEW T \in SUBSET Nat, T # {}
  PROVE  \E c \in T : \A d \in T : c <= d
<1>1. \E c \in T : \A d \in T : ~(<<d, c>> \in OpToRel(<, Nat))
  BY NatLessThanWellFounded, WFMin
<1>2. PICK c \in T : \A d \in T : ~(<<d, c>> \in OpToRel(<, Nat))
  BY <1>1
<1>3. \A d \in T : ~(d < c)
  BY <1>2 DEF OpToRel
<1>. QED
  BY <1>3

\* The pump reads from a cursor no open subscriber is behind.
LEMMA SlowestIsLeast ==
  ASSUME NEW subs \in [Subscribers -> Subscriber], Live(subs) # {}
  PROVE  /\ Slowest(subs) \in 0..MaxCursor
         /\ \A s \in Live(subs) : Slowest(subs) <= subs[s].accepted
<1>. DEFINE T == {subs[s].accepted : s \in Live(subs)}
<1>1. T \subseteq 0..MaxCursor /\ T # {}
  <2>1. \A s \in Subscribers : subs[s].accepted \in 0..MaxCursor
    BY DEF Subscriber
  <2>2. Live(subs) \subseteq Subscribers
    BY DEF Live
  <2>. QED
    BY <2>1, <2>2
<1>2. \E c \in T : \A d \in T : c <= d
  <2>1. T \in SUBSET Nat
    BY <1>1, HubAssumption
  <2>. HIDE DEF T
  <2>. QED
    BY <1>1, <2>1, LeastExists
<1>3. \E c \in T : \A s \in Live(subs) : c <= subs[s].accepted
  BY <1>2
<1>4. Slowest(subs) \in T /\ \A s \in Live(subs) : Slowest(subs) <= subs[s].accepted
  BY <1>3 DEF Slowest
<1>. QED
  BY <1>1, <1>4

\* Those a pass is to serve have been opened, and its window starts no later
\* than what any of them has accepted.
Timely(p, subs, h) ==
  p.on =>
    /\ p.window.to <= h
    /\ \A s \in p.set :
         /\ subs[s].phase \in {"active", "resynced", "gone"}
         /\ subs[s].phase = "active" => p.window.from <= subs[s].accepted

PumpType == [on: BOOLEAN, set: SUBSET Subscribers, window: Window]

\* Starting a pass, or finding nothing to do, keeps the pump timely.
LEMMA PumpedTimely ==
  ASSUME NEW subs \in [Subscribers -> Subscriber], high \in 0..MaxCursor,
         pump \in PumpType, Timely(pump, subs, high)
  PROVE  Pumped(subs) \in PumpType /\ Timely(Pumped(subs), subs, high)
<1>1. CASE pump.on \/ closed \/ Live(subs) = {}
  BY <1>1 DEF Pumped
<1>2. CASE ~(pump.on \/ closed \/ Live(subs) = {})
  <2>. DEFINE w == After(Slowest(subs))
  <2>1. /\ Slowest(subs) \in 0..MaxCursor
        /\ \A s \in Live(subs) : Slowest(subs) <= subs[s].accepted
    BY <1>2, SlowestIsLeast
  <2>2. w \in Window /\ w.to = high /\ w.from = Slowest(subs)
    BY <2>1 DEF After, Window
  <2>3. Pumped(subs) = [on |-> TRUE, set |-> Live(subs), window |-> w]
    BY <1>2 DEF Pumped
  <2>. HIDE DEF w
  <2>4. Live(subs) \subseteq Subscribers /\ \A s \in Live(subs) : subs[s].phase = "active"
    BY DEF Live
  <2>5. Pumped(subs) \in PumpType
    BY <2>2, <2>3, <2>4 DEF PumpType
  <2>6. Timely(Pumped(subs), subs, high)
    BY <2>1, <2>2, <2>3, <2>4 DEF Timely
  <2>. QED
    BY <2>5, <2>6
<1>. QED
  BY <1>1, <1>2

-----------------------------------------------------------------------------
(* The inductive invariant                                                 *)

HubInv ==
  /\ TypeOK
  /\ \A s \in Subscribers : Sound(sub[s], high)
  /\ Timely(pump, sub, high)
  /\ ClosedHubIsEmpty

\* A step of the hub, as its subscribers see it
Progress ==
  \/ high' = high + 1 /\ UNCHANGED sub
  \/ high' = high /\ \A s \in Subscribers : Kept(sub[s], sub'[s], high)

\* A step that moves subscribers and keeps the log is sound.
LEMMA ServeStep ==
  ASSUME HubInv, high' = high, sub' \in [Subscribers -> Subscriber],
         \A s \in Subscribers : Moves(sub[s], sub'[s], high),
         pump' \in PumpType, Timely(pump', sub', high), closed' \in BOOLEAN,
         closed' => Live(sub') = {}
  PROVE  HubInv' /\ Progress
<1>1. TypeOK'
  BY DEF HubInv, TypeOK, PumpType
<1>2. \A s \in Subscribers : Sound(sub'[s], high')
  BY DEF Moves
<1>3. Progress
  BY DEF Progress, Moves
<1>4. ClosedHubIsEmpty'
  BY DEF ClosedHubIsEmpty, Live
<1>. QED
  BY <1>1, <1>2, <1>3, <1>4 DEF HubInv

LEMMA InitHubInv == Init => HubInv
<1>. SUFFICES ASSUME Init PROVE HubInv
  OBVIOUS
<1>1. /\ MaxCursor \in Nat /\ QueueLimit \in Nat /\ 0 \in 0..MaxCursor
      /\ <<>> \in {q \in Seq(1..MaxCursor) : Len(q) <= QueueLimit}
  BY HubAssumption
<1>2. Nothing \in Window
  BY <1>1 DEF Nothing, Window
<1>3. TypeOK
  BY <1>1, <1>2 DEF Init, TypeOK, Subscriber, Phase
<1>4. \A s \in Subscribers : Sound(sub[s], high)
  BY DEF Init, Sound
<1>5. Timely(pump, sub, high) /\ ClosedHubIsEmpty
  BY DEF Init, Timely, ClosedHubIsEmpty
<1>. QED
  BY <1>3, <1>4, <1>5 DEF HubInv

\* What the invariant says of the subscribers, in the form the steps use
LEMMA HubTypes ==
  ASSUME HubInv
  PROVE  /\ high \in 0..MaxCursor /\ sub \in [Subscribers -> Subscriber]
         /\ pump \in PumpType /\ closed \in BOOLEAN
         /\ \A s \in Subscribers : sub[s] \in Subscriber /\ Sound(sub[s], high)
         /\ \A s \in Subscribers : Moves(sub[s], sub[s], high)
<1>1. /\ high \in 0..MaxCursor /\ sub \in [Subscribers -> Subscriber]
      /\ pump \in PumpType /\ closed \in BOOLEAN
      /\ \A s \in Subscribers : sub[s] \in Subscriber /\ Sound(sub[s], high)
  BY DEF HubInv, TypeOK, PumpType
<1>. QED
  BY <1>1, RestMoves

\* A commit makes the log longer and touches no subscriber.
LEMMA LogStep == HubInv /\ Log => HubInv' /\ Progress
<1>. SUFFICES ASSUME HubInv, Log PROVE HubInv' /\ Progress
  OBVIOUS
<1>1. high \in 0..MaxCursor /\ high' \in 0..MaxCursor /\ high' = high + 1
  BY HubTypes, HubAssumption DEF Log
<1>2. UNCHANGED <<sub, pump, closed>>
  BY DEF Log
<1>3. \A s \in Subscribers : Sound(sub'[s], high')
  <2>. SUFFICES ASSUME NEW s \in Subscribers PROVE Sound(sub[s], high')
    BY <1>2
  <2>1. Sound(sub[s], high) /\ sub[s] \in Subscriber
    BY HubTypes
  <2>2. sub[s].accepted \in 0..MaxCursor /\ sub[s].window.to \in 0..MaxCursor
    BY <2>1 DEF Subscriber, Window
  <2>. QED
    BY <1>1, <2>1, <2>2 DEF Sound, Lined
<1>4. Timely(pump, sub, high)'
  <2>1. pump.window.to \in 0..MaxCursor
    BY HubTypes DEF PumpType, Window
  <2>. QED
    BY <1>1, <1>2, <2>1 DEF HubInv, Timely
<1>5. TypeOK' /\ ClosedHubIsEmpty'
  BY <1>1, <1>2 DEF HubInv, TypeOK, ClosedHubIsEmpty, Live
<1>. QED
  BY <1>1, <1>2, <1>3, <1>4, <1>5 DEF HubInv, Progress

\* The pump's own variables do not change in most steps: it stays timely if no
\* one it is to serve is reset.
LEMMA PumpStays ==
  ASSUME HubInv, pump' = pump, high' = high, sub' \in [Subscribers -> Subscriber],
         \A s \in Subscribers :
           sub[s].phase \in {"active", "resynced", "gone"} =>
             /\ sub'[s].phase \in {"active", "resynced", "gone"}
             /\ sub'[s].phase = "active" =>
                  sub[s].phase = "active" /\ sub'[s].accepted = sub[s].accepted
  PROVE  pump' \in PumpType /\ Timely(pump', sub', high)
<1>1. pump \in PumpType /\ pump.set \subseteq Subscribers
  BY HubTypes DEF PumpType
<1>. QED
  BY <1>1 DEF HubInv, Timely

LEMMA SubscribeStep ==
  ASSUME HubInv, NEW s \in Subscribers, Subscribe(s)
  PROVE  HubInv' /\ Progress
<1>1. PICK c \in 0..MaxCursor :
        sub' = [sub EXCEPT ![s] =
                  [@ EXCEPT !.phase = IF closed THEN "refused" ELSE "replaying",
                            !.base = c, !.accepted = c, !.window = After(c)]]
  BY DEF Subscribe
<1>. DEFINE ph == IF closed THEN "refused" ELSE "replaying"
            v == [sub[s] EXCEPT !.phase = ph, !.base = c, !.accepted = c,
                                !.window = After(c)]
<1>2. sub' = [sub EXCEPT ![s] = v]
  BY <1>1
<1>3. Moves(sub[s], v, high)
  <2>1. /\ After(c) \in Window /\ After(c).from = c /\ After(c).to = high
        /\ After(c).ok => c <= high
    BY HubTypes DEF After, Window
  <2>. QED
    BY <2>1, HubTypes, SubscribeMoves DEF Subscribe
<1>4. v.phase \in {"refused", "replaying"}
  BY HubTypes DEF Subscriber
<1>. HIDE DEF v
<1>5. v \in Subscriber
  BY <1>3 DEF Moves
<1>6. sub' \in [Subscribers -> Subscriber]
  BY <1>2, <1>5, HubTypes
<1>7. \A t \in Subscribers : Moves(sub[t], sub'[t], high)
  BY <1>2, <1>3, HubTypes
<1>8. pump' \in PumpType /\ Timely(pump', sub', high)
  BY <1>2, <1>6, HubTypes, PumpStays DEF Subscribe
<1>9. closed' \in BOOLEAN /\ (closed' => Live(sub') = {})
  BY <1>2, <1>4, HubTypes DEF Subscribe, HubInv, ClosedHubIsEmpty, Live
<1>. QED
  BY <1>6, <1>7, <1>8, <1>9, ServeStep DEF Subscribe

LEMMA ActivateStep ==
  ASSUME HubInv, NEW s \in Subscribers, Activate(s)
  PROVE  HubInv' /\ Progress
<1>1. sub[s] \in Subscriber /\ Sound(sub[s], high) /\ sub[s].phase = "replaying"
  BY HubTypes DEF Activate
<1>2. high' = high /\ closed' = closed
  BY DEF Activate
<1>3. CASE Activates(s)
  <2>1. PICK room \in 1..(MaxCursor + 1) :
          sub' = [sub EXCEPT ![s] =
                    Enqueued([@ EXCEPT !.phase = "active"], sub[s].window, room)]
    <3>1. [sub[s] EXCEPT !.phase = "active"].window = sub[s].window
      BY <1>1 DEF Subscriber
    <3>. QED
      BY <1>3, <3>1, HubTypes DEF Activate
  <2>. DEFINE v == Enqueued([sub[s] EXCEPT !.phase = "active"], sub[s].window, room)
  <2>2. sub' = [sub EXCEPT ![s] = v]
    BY <2>1
  <2>3. Moves(sub[s], v, high)
    <3>1. sub[s].window.ok /\ room \in Nat \ {0} /\ high \in 0..MaxCursor
      BY <1>3, HubTypes, HubAssumption DEF Activates
    <3>. QED
      BY <3>1, <1>1, ActivateMoves
  <2>. HIDE DEF v
  <2>4. v \in Subscriber
    BY <2>3 DEF Moves
  <2>5. sub' \in [Subscribers -> Subscriber]
    BY <2>2, <2>4, HubTypes
  <2>6. \A t \in Subscribers : Moves(sub[t], sub'[t], high)
    BY <2>2, <2>3, HubTypes
  <2>7. Timely(pump, sub', high)
    BY <1>1, <2>2, HubTypes DEF HubInv, Timely, PumpType
  <2>8. pump' \in PumpType /\ Timely(pump', sub', high)
    <3>1. pump' = Pumped(sub')
      BY <1>3 DEF Activate
    <3>. QED
      BY <3>1, <2>5, <2>7, HubTypes, PumpedTimely
  <2>9. closed' \in BOOLEAN /\ ~closed'
    BY <1>2, <1>3, HubTypes DEF Activates
  <2>. QED
    BY <1>2, <2>5, <2>6, <2>8, <2>9, ServeStep
<1>4. CASE ~Activates(s)
  <2>. DEFINE v == [sub[s] EXCEPT !.phase = "refused"]
  <2>1. sub' = [sub EXCEPT ![s] = v] /\ pump' = pump
    BY <1>4 DEF Activate
  <2>2. /\ v \in Subscriber /\ v.base = sub[s].base /\ v.frames = sub[s].frames
        /\ v.phase = "refused"
    BY <1>1 DEF Subscriber, Phase
  <2>. HIDE DEF v
  <2>3. Moves(sub[s], v, high)
    BY <1>1, <2>2, HubTypes, EndMoves
  <2>4. sub' \in [Subscribers -> Subscriber]
    BY <2>1, <2>2, HubTypes
  <2>5. \A t \in Subscribers : Moves(sub[t], sub'[t], high)
    BY <2>1, <2>3, HubTypes
  <2>6. pump' \in PumpType /\ Timely(pump', sub', high)
    BY <1>1, <1>2, <2>1, <2>4, HubTypes, PumpStays
  <2>7. closed' \in BOOLEAN /\ (closed' => Live(sub') = {})
    BY <1>2, <2>1, <2>2, HubTypes DEF HubInv, ClosedHubIsEmpty, Live
  <2>. QED
    BY <1>2, <2>4, <2>5, <2>6, <2>7, ServeStep
<1>. QED
  BY <1>3, <1>4

LEMMA PumpReadsStep ==
  ASSUME HubInv, PumpReads
  PROVE  HubInv' /\ Progress
<1>1. UNCHANGED <<high, sub, closed>> /\ pump' = Pumped(sub)
  BY DEF PumpReads
<1>2. Pumped(sub) \in PumpType /\ Timely(Pumped(sub), sub, high)
  BY HubTypes, PumpedTimely DEF HubInv
<1>3. closed' \in BOOLEAN /\ (closed' => Live(sub') = {})
  BY <1>1, HubTypes DEF HubInv, ClosedHubIsEmpty
<1>4. /\ sub' \in [Subscribers -> Subscriber]
      /\ \A s \in Subscribers : Moves(sub[s], sub'[s], high)
  BY <1>1, HubTypes
<1>. QED
  BY <1>1, <1>2, <1>3, <1>4, ServeStep

LEMMA PumpSendsStep ==
  ASSUME HubInv, PumpSends
  PROVE  HubInv' /\ Progress
<1>1. PICK room \in [Subscribers -> 1..(MaxCursor + 1)] : sub' = Served(room)
  BY DEF PumpSends
<1>2. /\ high' = high /\ closed' = closed
      /\ pump' = [pump EXCEPT !.on = FALSE, !.set = {}, !.window = Nothing]
      /\ pump.on
  BY DEF PumpSends
<1>3. /\ pump \in PumpType /\ pump.window \in Window
      /\ pump.window.to <= high
      /\ \A s \in pump.set : sub[s].phase = "active" =>
           pump.window.from <= sub[s].accepted
  BY <1>2, HubTypes DEF HubInv, Timely, PumpType
<1>4. \A s \in Subscribers :
        /\ Moves(sub[s], sub'[s], high)
        /\ sub[s].phase # "active" => sub'[s].phase # "active"
  <2>. SUFFICES ASSUME NEW s \in Subscribers
                PROVE  /\ Moves(sub[s], sub'[s], high)
                       /\ sub[s].phase # "active" => sub'[s].phase # "active"
    OBVIOUS
  <2>1. sub[s] \in Subscriber /\ Sound(sub[s], high) /\ high \in 0..MaxCursor
    BY HubTypes
  <2>2. CASE s \notin pump.set \/ sub[s].phase # "active"
    BY <1>1, <2>2, HubTypes DEF Served
  <2>3. CASE s \in pump.set /\ sub[s].phase = "active" /\ pump.window.ok
    <3>1. sub'[s] = Enqueued(sub[s], pump.window, room[s])
      BY <1>1, <2>3 DEF Served
    <3>2. room[s] \in Nat \ {0}
      BY HubAssumption
    <3>. QED
      BY <1>3, <2>1, <2>3, <3>1, <3>2, EnqueueMoves
  <2>4. CASE s \in pump.set /\ sub[s].phase = "active" /\ ~pump.window.ok
    <3>1. sub'[s] = [sub[s] EXCEPT !.phase = "resynced", !.queue = <<>>]
      BY <1>1, <2>4 DEF Served, Overflowed
    <3>2. /\ <<>> \in {q \in Seq(1..MaxCursor) : Len(q) <= QueueLimit}
          /\ "resynced" \in Phase
      BY HubAssumption DEF Phase
    <3>3. /\ sub'[s] \in Subscriber /\ sub'[s].base = sub[s].base
          /\ sub'[s].frames = sub[s].frames /\ sub'[s].phase = "resynced"
      BY <2>1, <3>1, <3>2 DEF Subscriber
    <3>. QED
      BY <2>1, <2>4, <3>3, EndMoves
  <2>. QED
    BY <2>2, <2>3, <2>4
<1>5. sub' \in [Subscribers -> Subscriber]
  <2>1. sub' = [s \in Subscribers |-> sub'[s]]
    BY <1>1 DEF Served
  <2>2. \A s \in Subscribers : sub'[s] \in Subscriber
    BY <1>4 DEF Moves
  <2>. QED
    BY <2>1, <2>2
<1>6. pump' \in PumpType /\ Timely(pump', sub', high)
  <2>1. Nothing \in Window
    BY HubAssumption DEF Nothing, Window
  <2>. QED
    BY <1>2, <1>3, <2>1 DEF PumpType, Timely
<1>7. closed' \in BOOLEAN /\ (closed' => Live(sub') = {})
  BY <1>2, <1>4, HubTypes DEF HubInv, ClosedHubIsEmpty, Live
<1>. QED
  BY <1>2, <1>4, <1>5, <1>6, <1>7, ServeStep

LEMMA DrainStep ==
  ASSUME HubInv, NEW s \in Subscribers, Drain(s)
  PROVE  HubInv' /\ Progress
<1>1. PICK room \in 1..(MaxCursor + 1) :
        sub' = [sub EXCEPT ![s] = Drained(@, room)]
  BY DEF Drain
<1>. DEFINE v == Drained(sub[s], room)
<1>2. sub' = [sub EXCEPT ![s] = v] /\ UNCHANGED <<high, pump, closed>>
  BY <1>1 DEF Drain
<1>3. Moves(sub[s], v, high) /\ v.phase = "active" /\ v.accepted = sub[s].accepted
  <2>1. room \in Nat \ {0} /\ sub[s].phase = "active"
    BY HubAssumption DEF Drain
  <2>. QED
    BY <2>1, HubTypes, DrainMoves
<1>. HIDE DEF v
<1>4. v \in Subscriber
  BY <1>3 DEF Moves
<1>5. sub' \in [Subscribers -> Subscriber]
  BY <1>2, <1>4, HubTypes
<1>6. \A t \in Subscribers : Moves(sub[t], sub'[t], high)
  BY <1>2, <1>3, HubTypes
<1>7. pump' \in PumpType /\ Timely(pump', sub', high)
  BY <1>2, <1>3, <1>5, HubTypes, PumpStays DEF Drain
<1>8. closed' \in BOOLEAN /\ (closed' => Live(sub') = {})
  BY <1>2, HubTypes DEF HubInv, ClosedHubIsEmpty, Live, Drain
<1>. QED
  BY <1>2, <1>5, <1>6, <1>7, <1>8, ServeStep

\* A subscriber that ends, by an error or by its request
LEMMA EndStep ==
  ASSUME HubInv, NEW s \in Subscribers, NEW v \in Subscriber,
         sub' = [sub EXCEPT ![s] = v], UNCHANGED <<high, pump, closed>>,
         v.base = sub[s].base, v.frames = sub[s].frames,
         \/ sub[s].phase = "active" /\ v.phase = "gone"
         \/ sub[s].phase = "replaying" /\ v.phase = "refused"
  PROVE  HubInv' /\ Progress
<1>1. Moves(sub[s], v, high)
  BY HubTypes, EndMoves
<1>2. sub' \in [Subscribers -> Subscriber]
  BY HubTypes
<1>3. \A t \in Subscribers : Moves(sub[t], sub'[t], high)
  BY <1>1, HubTypes
<1>4. pump' \in PumpType /\ Timely(pump', sub', high)
  BY <1>2, HubTypes, PumpStays
<1>5. closed' \in BOOLEAN /\ (closed' => Live(sub') = {})
  BY HubTypes DEF HubInv, ClosedHubIsEmpty, Live
<1>. QED
  BY <1>2, <1>3, <1>4, <1>5, ServeStep

LEMMA FailsStep ==
  ASSUME HubInv, NEW s \in Subscribers, Fails(s)
  PROVE  HubInv' /\ Progress
<1>. DEFINE u == sub[s]
            v == Failed(u)
<1>1. u \in Subscriber
  BY HubTypes
<1>2. sub' = [sub EXCEPT ![s] = v] /\ UNCHANGED <<high, pump, closed>>
  BY DEF Fails
<1>3. /\ v \in Subscriber /\ v.base = u.base /\ v.frames = u.frames
      /\ \/ u.phase = "active" /\ v.phase = "gone"
         \/ u.phase = "replaying" /\ v.phase = "refused"
  BY <1>1 DEF Failed, Fails, Subscriber, Phase
<1>. HIDE DEF v
<1>. QED
  BY <1>2, <1>3, EndStep

\* What #closeSubscriber makes of a subscriber
LEMMA LeftMoves ==
  ASSUME NEW u \in Subscriber, NEW h \in 0..MaxCursor, Sound(u, h)
  PROVE  /\ Moves(u, Left(u), h)
         /\ Left(u).base = u.base /\ Left(u).frames = u.frames
         /\ Left(u).phase # "active"
         /\ u.phase = "active" => Left(u).phase = "gone"
         /\ u.phase \in {"resynced", "gone"} => Left(u).phase = u.phase
<1>1. CASE u.phase \in {"active", "replaying"}
  <2>. DEFINE ph == IF u.phase = "active" THEN "gone" ELSE "refused"
              v == [u EXCEPT !.phase = ph, !.queue = <<>>]
  <2>1. Left(u) = v
    BY <1>1 DEF Left, Subscriber
  <2>2. <<>> \in {q \in Seq(1..MaxCursor) : Len(q) <= QueueLimit} /\ ph \in Phase
    BY HubAssumption DEF Phase
  <2>3. v \in Subscriber /\ v.base = u.base /\ v.frames = u.frames /\ v.phase = ph
    BY <2>2 DEF Subscriber
  <2>. HIDE DEF v
  <2>4. Moves(u, v, h)
    BY <1>1, <2>3, EndMoves
  <2>. QED
    BY <1>1, <2>1, <2>3, <2>4
<1>2. CASE u.phase \notin {"active", "replaying"}
  <2>1. Left(u) = u
    BY <1>2 DEF Left, Subscriber
  <2>. QED
    BY <1>2, <2>1, RestMoves
<1>. QED
  BY <1>1, <1>2

LEMMA LeavesStep ==
  ASSUME HubInv, NEW s \in Subscribers, Leaves(s)
  PROVE  HubInv' /\ Progress
<1>1. sub[s] \in Subscriber /\ Sound(sub[s], high) /\ high \in 0..MaxCursor
  BY HubTypes
<1>2. /\ Moves(sub[s], Left(sub[s]), high)
      /\ Left(sub[s]).base = sub[s].base /\ Left(sub[s]).frames = sub[s].frames
      /\ sub[s].phase = "active" /\ Left(sub[s]).phase = "gone"
  BY <1>1, LeftMoves DEF Leaves
<1>3. Left(sub[s]) \in Subscriber
  BY <1>2 DEF Moves
<1>. QED
  BY <1>2, <1>3, EndStep DEF Leaves

LEMMA CloseStep ==
  ASSUME HubInv, Close
  PROVE  HubInv' /\ Progress
<1>1. /\ sub' = [s \in Subscribers |-> Left(sub[s])] /\ closed' = TRUE
      /\ UNCHANGED <<high, pump>>
  BY DEF Close
<1>2. \A s \in Subscribers :
        /\ Moves(sub[s], sub'[s], high)
        /\ sub'[s].phase # "active"
        /\ sub[s].phase = "active" => sub'[s].phase = "gone"
        /\ sub[s].phase \in {"resynced", "gone"} => sub'[s].phase = sub[s].phase
  BY <1>1, HubTypes, LeftMoves
<1>3. sub' \in [Subscribers -> Subscriber]
  <2>1. \A s \in Subscribers : Left(sub[s]) \in Subscriber
    BY <1>1, <1>2 DEF Moves
  <2>. QED
    BY <1>1, <2>1
<1>4. pump' \in PumpType /\ Timely(pump', sub', high)
  BY <1>1, <1>2, <1>3, PumpStays
<1>5. closed' \in BOOLEAN /\ (closed' => Live(sub') = {})
  BY <1>1, <1>2 DEF Live
<1>. QED
  BY <1>1, <1>2, <1>3, <1>4, <1>5, ServeStep

\* Every step of the hub keeps the invariant and is a progress of its feed.
LEMMA HubStep == HubInv /\ [Next]_hubVars => HubInv' /\ (Progress \/ UNCHANGED hubVars)
<1>. SUFFICES ASSUME HubInv, [Next]_hubVars
              PROVE  HubInv' /\ (Progress \/ UNCHANGED hubVars)
  OBVIOUS
<1>1. CASE UNCHANGED hubVars
  BY <1>1 DEF hubVars, HubInv, TypeOK, Timely, ClosedHubIsEmpty, Live
<1>2. CASE Log
  BY <1>2, LogStep
<1>3. CASE PumpReads
  BY <1>3, PumpReadsStep
<1>4. CASE PumpSends
  BY <1>4, PumpSendsStep
<1>5. CASE Close
  BY <1>5, CloseStep
<1>6. ASSUME NEW s \in Subscribers,
             Subscribe(s) \/ Activate(s) \/ Drain(s) \/ Fails(s) \/ Leaves(s)
      PROVE  HubInv' /\ Progress
  BY <1>6, SubscribeStep, ActivateStep, DrainStep, FailsStep, LeavesStep
<1>. QED
  BY <1>1, <1>2, <1>3, <1>4, <1>5, <1>6 DEF Next

-----------------------------------------------------------------------------
(* Theorems                                                                *)

\* The invariant holds of every state of the hub.
LEMMA HubInvariant == HubSpec => []HubInv
<1>1. Init => HubInv
  BY InitHubInv
<1>2. HubInv /\ [Next]_hubVars => HubInv'
  BY HubStep
<1>. QED
  BY <1>1, <1>2, PTL DEF HubSpec

\* For any log, subscribers and limits, every record has its type: a queue never
\* holds more than EVENT_SUBSCRIBER_QUEUE_LIMIT events between two calls.
THEOREM HubTypeCorrect == HubSpec => []TypeOK
<1>1. HubInv => TypeOK
  BY DEF HubInv
<1>. QED
  BY <1>1, HubInvariant, PTL

\* An open subscriber has a queue only while it awaits the drain that sends it.
THEOREM HubStrandsNothing == HubSpec => []NothingStranded
<1>1. HubInv => NothingStranded
  BY DEF HubInv, Sound, Tidy, NothingStranded, Live
<1>. QED
  BY <1>1, HubInvariant, PTL

\* No response is left open by a hub that has been closed.
THEOREM ClosingEndsEveryStream == HubSpec => []ClosedHubIsEmpty
<1>1. HubInv => ClosedHubIsEmpty
  BY DEF HubInv
<1>. QED
  BY <1>1, HubInvariant, PTL

\* Queues are bounded, nothing is stranded, and a closed hub has no open stream
\* (sse.ts:45-160).
THEOREM StreamsAreAccounted == HubSpec => []StreamsAccounted
<1>1. TypeOK /\ NothingStranded /\ ClosedHubIsEmpty => StreamsAccounted
  BY DEF StreamsAccounted
<1>. QED
  BY <1>1, HubTypeCorrect, HubStrandsNothing, ClosingEndsEveryStream, PTL

\* The mapped variables, one subscriber at a time
LEMMA Mapped ==
  /\ Link = [s \in Subscribers |-> LinkOf(sub[s])]
  /\ Base = [s \in Subscribers |-> BaseOf(sub[s])]
  /\ Received = [s \in Subscribers |-> sub[s].frames]
<1>1. Link = [s \in Subscribers |-> LinkOf(sub[s])]
  BY DEF Link, LinkOf
<1>2. \A s \in Subscribers : Link[s] = LinkOf(sub[s])
  BY <1>1
<1>3. Base = [s \in Subscribers |-> BaseOf(sub[s])]
  BY <1>2 DEF Base, BaseOf
<1>. QED
  BY <1>1, <1>3 DEF Received

\* The same of the next state
LEMMA MappedNext ==
  /\ Link' = [s \in Subscribers |-> LinkOf(sub'[s])]
  /\ Base' = [s \in Subscribers |-> BaseOf(sub'[s])]
  /\ Received' = [s \in Subscribers |-> sub'[s].frames]
<1>1. Link' = [s \in Subscribers |-> LinkOf(sub'[s])]
  BY DEF Link, LinkOf
<1>2. \A s \in Subscribers : Link'[s] = LinkOf(sub'[s])
  BY <1>1
<1>3. Base' = [s \in Subscribers |-> BaseOf(sub'[s])]
  BY <1>2 DEF Base, BaseOf
<1>. QED
  BY <1>1, <1>3 DEF Received

\* The initial state of the hub is one of its feed.
LEMMA InitFeed == Init => Feed!Init
<1>. SUFFICES ASSUME Init PROVE Feed!Init
  OBVIOUS
<1>1. \A s \in Subscribers :
        LinkOf(sub[s]) = "idle" /\ BaseOf(sub[s]) = 0 /\ sub[s].frames = <<>>
  BY DEF Init, LinkOf, BaseOf
<1>2. high \in Nat
  BY HubAssumption DEF Init
<1>. QED
  BY <1>1, <1>2, Mapped DEF Feed!Init

\* A step of one subscriber is a step of its feed.
LEMMA KeptIsServed ==
  ASSUME HubInv, HubInv', high' = high, NEW s \in Subscribers,
         Kept(sub[s], sub'[s], high)
  PROVE  Feed!Open(s) \/ Feed!Send(s) \/ Feed!Rest(s)
<1>1. /\ Link[s] = LinkOf(sub[s]) /\ Base[s] = BaseOf(sub[s])
      /\ Received[s] = sub[s].frames
  BY Mapped
<1>2. /\ Link'[s] = LinkOf(sub'[s]) /\ Base'[s] = BaseOf(sub'[s])
      /\ Received'[s] = sub'[s].frames
  BY MappedNext
<1>3. \A c, n : Feed!Consecutive(c, n) = Consecutive(c, n)
  BY DEF Consecutive, Feed!Consecutive
<1>. QED
  BY <1>1, <1>2, <1>3 DEF Kept, Feed!Open, Feed!Send, Feed!Rest

\* Every step of the hub is one of its feed, or leaves it alone.
LEMMA StepFeed ==
  ASSUME HubInv, HubInv', Progress \/ UNCHANGED hubVars
  PROVE  [Feed!Next]_(Feed!feedVars)
<1>1. CASE UNCHANGED sub
  <2>1. UNCHANGED <<Link, Base, Received>>
    BY <1>1 DEF Link, Base, Received
  <2>2. high' = high + 1 \/ high' = high
    BY DEF Progress, hubVars
  <2>. QED
    BY <2>1, <2>2 DEF Feed!Next, Feed!Log, Feed!feedVars
<1>2. CASE high' = high /\ \A s \in Subscribers : Kept(sub[s], sub'[s], high)
  <2>1. \A s \in Subscribers : Feed!Open(s) \/ Feed!Send(s) \/ Feed!Rest(s)
    BY <1>2, KeptIsServed
  <2>2. Link' \in [Subscribers -> {"idle", "open", "ended"}]
    <3>1. \A s \in Subscribers : LinkOf(sub'[s]) \in {"idle", "open", "ended"}
      BY DEF LinkOf
    <3>. QED
      BY <3>1, MappedNext
  <2>3. Base' \in [Subscribers -> Nat]
    <3>1. \A s \in Subscribers : BaseOf(sub'[s]) \in Nat
      BY HubAssumption DEF BaseOf, HubInv, TypeOK, Subscriber
    <3>. QED
      BY <3>1, MappedNext
  <2>4. DOMAIN Received' = Subscribers
    BY DEF Received
  <2>. QED
    BY <1>2, <2>1, <2>2, <2>3, <2>4 DEF Feed!Next, Feed!Serve
<1>. QED
  BY <1>1, <1>2 DEF Progress, hubVars

\* The hub implements the feed: whatever replays, passes, drains, resyncs and
\* disconnections do, a subscriber receives the transitions after its cursor,
\* each once and in order, and none after its stream has ended.
THEOREM HubImplementsFeed == HubSpec => HubIsFeed
<1>1. Init => Feed!Init
  BY InitFeed
<1>2. HubInv /\ HubInv' /\ [Next]_hubVars => [Feed!Next]_(Feed!feedVars)
  BY HubStep, StepFeed
<1>. QED
  BY <1>1, <1>2, HubInvariant, PTL DEF HubSpec, HubIsFeed, Feed!Spec

-----------------------------------------------------------------------------
(* The page that follows the stream                                        *)

\* What the page does next in each of its phases: while it starts there is nothing to follow
\* or to come back to, a page that is signed out has no stream, and an open page without
\* stream and timer has a refresh that the timer has asked for, so that its failure sets the
\* timer again, or was opened again after it was signed out.
PageFits ==
  /\ phase = "starting" =>
       pending = 0 /\ link = "closed" /\ ~timer /\ ~calling /\ "timer" \notin waiters
  /\ "start" \in waiters => phase = "starting"
  /\ phase = "signed_out" => link = "closed"
  /\ timer => link = "closed"
  /\ flight = "none" => waiters = {}
  /\ phase = "ready" /\ link = "closed" /\ ~timer => "timer" \in waiters \/ revived

\* What the stream has delivered is in the snapshot, or in the answer on its way, or the
\* page remembers that it asked for less.
Counted ==
  /\ at <= high /\ reply <= high
  /\ flight = "answered" /\ link # "closed" => at <= reply \/ at <= pending
  /\ phase = "ready" /\ flight = "none" /\ link # "closed" /\ ~lapse =>
       at <= snapshot /\ pending = snapshot

PageInv == ClientTypeOK /\ PageFits /\ Counted

\* A page keeps its types.
LEMMA PageTyped ==
  ASSUME ClientTypeOK, [ClientNext]_clientVars
  PROVE  ClientTypeOK'
<1>z. 0 \in 0..MaxCursor /\ 0 \in 0..MaxRegressions
  BY ClientAssumption
<1> USE <1>z, ClientAssumption DEF ClientTypeOK, daemonVars, streamVars,
    flightVars
<1>1. CASE Commit
  BY <1>1 DEF Commit
<1>2. CASE SessionExpires
  BY <1>2 DEF SessionExpires
<1>3. CASE Answer
  BY <1>3 DEF Answer
<1>4. CASE Start
  BY <1>4 DEF Start, Refresh
<1>5. CASE StartFails
  BY <1>5 DEF StartFails
<1>6. CASE OwnerChecks
  <2>1. CASE flight # "none"
    BY <1>6, <2>1 DEF OwnerChecks, Refresh
  <2>2. CASE flight = "none"
    BY <1>6, <2>2 DEF OwnerChecks, Refresh
  <2> QED BY <2>1, <2>2
<1>7. CASE OwnerCalls
  BY <1>7 DEF OwnerCalls
<1>8. CASE CallReturns
  <2>1. CASE UNCHANGED flightVars
    BY <1>8, <2>1 DEF CallReturns
  <2>2. CASE \E again \in BOOLEAN : Refresh(again, {})
    <3>1. PICK again \in BOOLEAN : Refresh(again, {})
      BY <2>2
    <3>2. CASE flight # "none"
      BY <1>8, <3>1, <3>2 DEF CallReturns, Refresh
    <3>3. CASE flight = "none"
      BY <1>8, <3>1, <3>3 DEF CallReturns, Refresh
    <3> QED BY <3>2, <3>3
  <2> QED BY <1>8, <2>1, <2>2 DEF CallReturns
<1>9. CASE CallIsRefused
  BY <1>9 DEF CallIsRefused, SignOut
<1>10. CASE SnapshotArrives
  <2>1. CASE AsksAgain
    <3>1. Cursor = pending /\ reply < pending /\ ~GivesUp
      BY <2>1 DEF AsksAgain, Cursor
    <3>2. regressions + 1 < MaxRegressions
      BY <3>1 DEF GivesUp
    <3>3. /\ flight' = "asked" /\ regressions' = regressions + 1 /\ phase' = "ready"
          /\ snapshot' = reply /\ pending' = pending /\ lapse' = FALSE /\ reply' = 0
          /\ revived' = (revived \/ phase = "signed_out") /\ calling' = calling
          /\ UNCHANGED <<high, valid, link, at, timer, reconnect, waiters>>
      BY <1>10, <2>1, <3>1 DEF SnapshotArrives
    <3>4. regressions' \in 0..MaxRegressions
      BY <3>2, <3>3
    <3> QED BY <1>10, <3>1, <3>3, <3>4 DEF SnapshotArrives
  <2>2. CASE ~AsksAgain
    <3>1. Cursor = reply /\ (~GivesUp => pending <= reply)
      BY <2>2 DEF AsksAgain, Cursor
    <3>2. /\ flight = "answered" /\ flight' = "none" /\ regressions' = 0 /\ phase' = "ready"
          /\ snapshot' = reply /\ pending' = reply /\ lapse' = GivesUp /\ reply' = 0
          /\ reconnect' = FALSE /\ waiters' = {}
          /\ UNCHANGED <<high, valid, calling>>
      BY <1>10, <2>2, <3>1 DEF SnapshotArrives
    <3>3. \/ link' = "connecting" /\ at' = reply /\ timer' = FALSE /\ revived' = FALSE
          \/ link # "closed" /\ UNCHANGED <<link, at, timer, revived>>
      BY <1>10, <2>2 DEF SnapshotArrives, Connect
    <3>4. GivesUp \in BOOLEAN
      BY DEF GivesUp
    <3> QED BY <3>1, <3>2, <3>3, <3>4
  <2> QED BY <2>1, <2>2
<1>11. CASE RefreshFails
  <2>1. CASE flight = "asked" /\ ~valid /\ SignOut
    BY <1>11, <2>1 DEF RefreshFails, SignOut
  <2>2. CASE "start" \in waiters /\ phase' = "signed_out" /\ link' = "closed"
             /\ UNCHANGED <<at, timer, revived>>
    BY <1>11, <2>2 DEF RefreshFails
  <2>3. CASE "start" \notin waiters /\ phase' = phase /\ "timer" \in waiters
        /\ ScheduleResync
    BY <1>11, <2>3 DEF RefreshFails, ScheduleResync
  <2>4. CASE "start" \notin waiters /\ phase' = phase /\ "timer" \notin waiters
             /\ UNCHANGED <<streamVars, timer, revived>>
    BY <1>11, <2>4 DEF RefreshFails
  <2> QED BY <1>11, <2>1, <2>2, <2>3, <2>4 DEF RefreshFails
<1>12. CASE StreamOpens
  BY <1>12 DEF StreamOpens
<1>13. CASE StreamFails
  BY <1>13 DEF StreamFails, ScheduleResync
<1>14. CASE Transition
  <2>0. at' = at + 1 /\ at + 1 \in 0..MaxCursor /\ at + 1 <= high
    BY <1>14 DEF Transition
  <2>1. CASE Ignored(at + 1)
    BY <1>14, <2>0, <2>1 DEF Transition, Ignored
  <2>2. CASE ~Ignored(at + 1) /\ flight # "none"
    BY <1>14, <2>0, <2>2 DEF Transition, Ignored, Refresh
  <2>3. CASE ~Ignored(at + 1) /\ flight = "none"
    BY <1>14, <2>0, <2>3 DEF Transition, Ignored, Refresh
  <2> QED BY <2>1, <2>2, <2>3 DEF Ignored
<1>15. CASE Resync
  BY <1>15 DEF Resync, Refresh
<1>16. CASE UNCHANGED clientVars
  BY <1>16 DEF clientVars
<1>. QED
  BY <1>1, <1>2, <1>3, <1>4, <1>5, <1>6, <1>7, <1>8, <1>9, <1>10, <1>11, <1>12, <1>13,
     <1>14, <1>15, <1>16 DEF ClientNext

\* A page never comes to be without a way to go on.
LEMMA PageStep ==
  ASSUME ClientTypeOK, PageFits, [ClientNext]_clientVars
  PROVE  PageFits'
<1>z. 0 \in 0..MaxCursor /\ 0 \in 0..MaxRegressions
  BY ClientAssumption
<1> USE <1>z, ClientAssumption DEF ClientTypeOK, PageFits, daemonVars,
    streamVars, flightVars
<1>1. CASE Commit
  BY <1>1 DEF Commit
<1>2. CASE SessionExpires
  BY <1>2 DEF SessionExpires
<1>3. CASE Answer
  BY <1>3 DEF Answer
<1>4. CASE Start
  BY <1>4 DEF Start, Refresh
<1>5. CASE StartFails
  BY <1>5 DEF StartFails
<1>6. CASE OwnerChecks
  <2>1. CASE flight # "none"
    BY <1>6, <2>1 DEF OwnerChecks, Refresh
  <2>2. CASE flight = "none"
    BY <1>6, <2>2 DEF OwnerChecks, Refresh
  <2> QED BY <2>1, <2>2
<1>7. CASE OwnerCalls
  BY <1>7 DEF OwnerCalls
<1>8. CASE CallReturns
  <2>1. CASE UNCHANGED flightVars
    BY <1>8, <2>1 DEF CallReturns
  <2>2. CASE \E again \in BOOLEAN : Refresh(again, {})
    <3>1. PICK again \in BOOLEAN : Refresh(again, {})
      BY <2>2
    <3>2. CASE flight # "none"
      BY <1>8, <3>1, <3>2 DEF CallReturns, Refresh
    <3>3. CASE flight = "none"
      BY <1>8, <3>1, <3>3 DEF CallReturns, Refresh
    <3> QED BY <3>2, <3>3
  <2> QED BY <1>8, <2>1, <2>2 DEF CallReturns
<1>9. CASE CallIsRefused
  BY <1>9 DEF CallIsRefused, SignOut
<1>10. CASE SnapshotArrives
  <2>1. CASE AsksAgain
    <3>1. Cursor = pending /\ reply < pending /\ ~GivesUp
      BY <2>1 DEF AsksAgain, Cursor
    <3>2. regressions + 1 < MaxRegressions
      BY <3>1 DEF GivesUp
    <3>3. /\ flight' = "asked" /\ regressions' = regressions + 1 /\ phase' = "ready"
          /\ snapshot' = reply /\ pending' = pending /\ lapse' = FALSE /\ reply' = 0
          /\ revived' = (revived \/ phase = "signed_out") /\ calling' = calling
          /\ UNCHANGED <<high, valid, link, at, timer, reconnect, waiters>>
      BY <1>10, <2>1, <3>1 DEF SnapshotArrives
    <3>4. regressions' \in 0..MaxRegressions
      BY <3>2, <3>3
    <3>5. phase # "starting" /\ "start" \notin waiters
      BY <3>1
    <3>6. flight' = "asked" /\ "start" \notin waiters'
      BY <3>3, <3>5
    <3>7. CASE phase = "signed_out"
      BY <3>3, <3>5, <3>6, <3>7
    <3>8. CASE phase = "ready"
      BY <3>3, <3>5, <3>6, <3>8
    <3> QED BY <3>5, <3>7, <3>8
  <2>2. CASE ~AsksAgain
    <3>1. Cursor = reply /\ (~GivesUp => pending <= reply)
      BY <2>2 DEF AsksAgain, Cursor
    <3>2. /\ flight = "answered" /\ flight' = "none" /\ regressions' = 0 /\ phase' = "ready"
          /\ snapshot' = reply /\ pending' = reply /\ lapse' = GivesUp /\ reply' = 0
          /\ reconnect' = FALSE /\ waiters' = {}
          /\ UNCHANGED <<high, valid, calling>>
      BY <1>10, <2>2, <3>1 DEF SnapshotArrives
    <3>3. \/ link' = "connecting" /\ at' = reply /\ timer' = FALSE /\ revived' = FALSE
          \/ link # "closed" /\ UNCHANGED <<link, at, timer, revived>>
      BY <1>10, <2>2 DEF SnapshotArrives, Connect
    <3>4. GivesUp \in BOOLEAN
      BY DEF GivesUp
    <3> QED BY <3>1, <3>2, <3>3, <3>4
  <2> QED BY <2>1, <2>2
<1>11. CASE RefreshFails
  <2>1. CASE flight = "asked" /\ ~valid /\ SignOut
    BY <1>11, <2>1 DEF RefreshFails, SignOut
  <2>2. CASE "start" \in waiters /\ phase' = "signed_out" /\ link' = "closed"
             /\ UNCHANGED <<at, timer, revived>>
    BY <1>11, <2>2 DEF RefreshFails
  <2>3. CASE "start" \notin waiters /\ phase' = phase /\ "timer" \in waiters
        /\ ScheduleResync
    BY <1>11, <2>3 DEF RefreshFails, ScheduleResync
  <2>4. CASE "start" \notin waiters /\ phase' = phase /\ "timer" \notin waiters
             /\ UNCHANGED <<streamVars, timer, revived>>
    BY <1>11, <2>4 DEF RefreshFails
  <2> QED BY <1>11, <2>1, <2>2, <2>3, <2>4 DEF RefreshFails
<1>12. CASE StreamOpens
  BY <1>12 DEF StreamOpens
<1>13. CASE StreamFails
  BY <1>13 DEF StreamFails, ScheduleResync
<1>14. CASE Transition
  <2>0. at' = at + 1 /\ at + 1 \in 0..MaxCursor /\ at + 1 <= high
    BY <1>14 DEF Transition
  <2>1. CASE Ignored(at + 1)
    BY <1>14, <2>0, <2>1 DEF Transition, Ignored
  <2>2. CASE ~Ignored(at + 1) /\ flight # "none"
    BY <1>14, <2>0, <2>2 DEF Transition, Ignored, Refresh
  <2>3. CASE ~Ignored(at + 1) /\ flight = "none"
    BY <1>14, <2>0, <2>3 DEF Transition, Ignored, Refresh
  <2> QED BY <2>1, <2>2, <2>3 DEF Ignored
<1>15. CASE Resync
  BY <1>15 DEF Resync, Refresh
<1>16. CASE UNCHANGED clientVars
  BY <1>16 DEF clientVars
<1>. QED
  BY <1>1, <1>2, <1>3, <1>4, <1>5, <1>6, <1>7, <1>8, <1>9, <1>10, <1>11, <1>12, <1>13,
     <1>14, <1>15, <1>16 DEF ClientNext

\* No transition is forgotten while refreshes are under way.
LEMMA CountedStep ==
  ASSUME ClientTypeOK, PageFits, Counted,
      [ClientNext]_clientVars
  PROVE  Counted'
<1>z. 0 \in 0..MaxCursor /\ 0 \in 0..MaxRegressions
  BY ClientAssumption
<1> USE <1>z, ClientAssumption DEF ClientTypeOK, PageFits, Counted, daemonVars,
    streamVars, flightVars
<1>1. CASE Commit
  BY <1>1 DEF Commit
<1>2. CASE SessionExpires
  BY <1>2 DEF SessionExpires
<1>3. CASE Answer
  BY <1>3 DEF Answer
<1>4. CASE Start
  BY <1>4 DEF Start, Refresh
<1>5. CASE StartFails
  BY <1>5 DEF StartFails
<1>6. CASE OwnerChecks
  <2>1. CASE flight # "none"
    BY <1>6, <2>1 DEF OwnerChecks, Refresh
  <2>2. CASE flight = "none"
    BY <1>6, <2>2 DEF OwnerChecks, Refresh
  <2> QED BY <2>1, <2>2
<1>7. CASE OwnerCalls
  BY <1>7 DEF OwnerCalls
<1>8. CASE CallReturns
  <2>1. CASE UNCHANGED flightVars
    BY <1>8, <2>1 DEF CallReturns
  <2>2. CASE \E again \in BOOLEAN : Refresh(again, {})
    <3>1. PICK again \in BOOLEAN : Refresh(again, {})
      BY <2>2
    <3>2. CASE flight # "none"
      BY <1>8, <3>1, <3>2 DEF CallReturns, Refresh
    <3>3. CASE flight = "none"
      BY <1>8, <3>1, <3>3 DEF CallReturns, Refresh
    <3> QED BY <3>2, <3>3
  <2> QED BY <1>8, <2>1, <2>2 DEF CallReturns
<1>9. CASE CallIsRefused
  BY <1>9 DEF CallIsRefused, SignOut
<1>10. CASE SnapshotArrives
  <2>1. CASE AsksAgain
    <3>1. Cursor = pending /\ reply < pending /\ ~GivesUp
      BY <2>1 DEF AsksAgain, Cursor
    <3>2. regressions + 1 < MaxRegressions
      BY <3>1 DEF GivesUp
    <3>3. /\ flight' = "asked" /\ regressions' = regressions + 1 /\ phase' = "ready"
          /\ snapshot' = reply /\ pending' = pending /\ lapse' = FALSE /\ reply' = 0
          /\ revived' = (revived \/ phase = "signed_out") /\ calling' = calling
          /\ UNCHANGED <<high, valid, link, at, timer, reconnect, waiters>>
      BY <1>10, <2>1, <3>1 DEF SnapshotArrives
    <3>4. regressions' \in 0..MaxRegressions
      BY <3>2, <3>3
    <3> QED BY <1>10, <3>1, <3>3, <3>4 DEF SnapshotArrives
  <2>2. CASE ~AsksAgain
    <3>1. Cursor = reply /\ (~GivesUp => pending <= reply)
      BY <2>2 DEF AsksAgain, Cursor
    <3>2. /\ flight = "answered" /\ flight' = "none" /\ regressions' = 0 /\ phase' = "ready"
          /\ snapshot' = reply /\ pending' = reply /\ lapse' = GivesUp /\ reply' = 0
          /\ reconnect' = FALSE /\ waiters' = {}
          /\ UNCHANGED <<high, valid, calling>>
      BY <1>10, <2>2, <3>1 DEF SnapshotArrives
    <3>3. \/ link' = "connecting" /\ at' = reply /\ timer' = FALSE /\ revived' = FALSE
          \/ link # "closed" /\ UNCHANGED <<link, at, timer, revived>>
      BY <1>10, <2>2 DEF SnapshotArrives, Connect
    <3>4. GivesUp \in BOOLEAN
      BY DEF GivesUp
    <3> QED BY <3>1, <3>2, <3>3, <3>4
  <2> QED BY <2>1, <2>2
<1>11. CASE RefreshFails
  <2>1. CASE flight = "asked" /\ ~valid /\ SignOut
    BY <1>11, <2>1 DEF RefreshFails, SignOut
  <2>2. CASE "start" \in waiters /\ phase' = "signed_out" /\ link' = "closed"
             /\ UNCHANGED <<at, timer, revived>>
    BY <1>11, <2>2 DEF RefreshFails
  <2>3. CASE "start" \notin waiters /\ phase' = phase /\ "timer" \in waiters
        /\ ScheduleResync
    BY <1>11, <2>3 DEF RefreshFails, ScheduleResync
  <2>4. CASE "start" \notin waiters /\ phase' = phase /\ "timer" \notin waiters
             /\ UNCHANGED <<streamVars, timer, revived>>
    BY <1>11, <2>4 DEF RefreshFails
  <2> QED BY <1>11, <2>1, <2>2, <2>3, <2>4 DEF RefreshFails
<1>12. CASE StreamOpens
  BY <1>12 DEF StreamOpens
<1>13. CASE StreamFails
  BY <1>13 DEF StreamFails, ScheduleResync
<1>14. CASE Transition
  <2>0. at' = at + 1 /\ at + 1 \in 0..MaxCursor /\ at + 1 <= high
    BY <1>14 DEF Transition
  <2>1. CASE Ignored(at + 1)
    BY <1>14, <2>0, <2>1 DEF Transition, Ignored
  <2>2. CASE ~Ignored(at + 1) /\ flight # "none"
    BY <1>14, <2>0, <2>2 DEF Transition, Ignored, Refresh
  <2>3. CASE ~Ignored(at + 1) /\ flight = "none"
    BY <1>14, <2>0, <2>3 DEF Transition, Ignored, Refresh
  <2> QED BY <2>1, <2>2, <2>3 DEF Ignored
<1>15. CASE Resync
  BY <1>15 DEF Resync, Refresh
<1>16. CASE UNCHANGED clientVars
  BY <1>16 DEF clientVars
<1>. QED
  BY <1>1, <1>2, <1>3, <1>4, <1>5, <1>6, <1>7, <1>8, <1>9, <1>10, <1>11, <1>12, <1>13,
     <1>14, <1>15, <1>16 DEF ClientNext

\* The invariant of the page holds at first,
LEMMA PageInit == ClientInit => PageInv
<1> SUFFICES ASSUME ClientInit PROVE PageInv
  OBVIOUS
<1>1. 0 \in 0..MaxCursor /\ 0 \in 0..MaxRegressions
  BY ClientAssumption
<1>2. ClientTypeOK
  BY <1>1 DEF ClientInit, ClientTypeOK
<1>3. PageFits /\ Counted
  BY <1>1 DEF ClientInit, PageFits, Counted
<1>. QED BY <1>2, <1>3 DEF PageInv

\* and always.
LEMMA PageHolds == ClientSpec => []PageInv
<1>1. ClientInit => PageInv
  BY PageInit
<1>2. PageInv /\ [ClientNext]_clientVars => PageInv'
  BY PageTyped, PageStep, CountedStep DEF PageInv
<1>. QED BY <1>1, <1>2, PTL DEF ClientSpec

\* Whatever fails or is refused and whenever the session expires, an open page follows by
\* one stream and goes on trying, unless an outdated snapshot reopened it after it was signed
\* out, and a page that is signed out follows nothing.
THEOREM PageFollowsOnce == ClientSpec => []FollowsOnce
<1>1. PageInv => FollowsOnce
  BY DEF PageInv, PageFits, FollowsOnce, ClientTypeOK, NeverDeaf,
      OneReconnection,
         SignedOutIsClosed
<1>. QED BY <1>1, PageHolds, PTL

\* For a log of any length: what the stream has delivered is in the snapshot of a page at
\* rest, unless its last refresh failed or gave up.
THEOREM SnapshotsAreFresh == ClientSpec => []SnapshotIsFresh
<1>1. PageInv => SnapshotIsFresh
  BY DEF PageInv, Counted, SnapshotIsFresh
<1>. QED BY <1>1, PageHolds, PTL

=============================================================================
