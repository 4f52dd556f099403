----------------------------- MODULE EventFeed ------------------------------
(***************************************************************************)
(* What the daemon's event stream promises a subscriber, whatever happens   *)
(* inside it: after the cursor it asked for, a subscriber is sent every     *)
(* transition of the log, once and in order, until the stream is ended; an  *)
(* ended stream sends nothing more.  TransitionHub implements this; the     *)
(* browser (WorkspaceClient) is written against it.                         *)
(***************************************************************************)
EXTENDS Naturals, Sequences

CONSTANT Subscribers

VARIABLES
  high,     \* high-water cursor: MAX(seq) of the transition log
  link,     \* the stream of a subscriber: "idle", "open" or "ended"
  base,     \* the cursor it was opened with
  received  \* the cursors of the transitions sent since, in order

feedVars == <<high, link, base, received>>

\* The n cursors that follow c
Consecutive(c, n) == [i \in 1..n |-> c + i]

Init ==
  /\ high \in Nat
  /\ link = [s \in Subscribers |-> "idle"]
  /\ base = [s \in Subscribers |-> 0]
  /\ received = [s \in Subscribers |-> <<>>]

\* A transaction is committed.
Log == high' = high + 1 /\ UNCHANGED <<link, base, received>>

\* A stream opens at a cursor of the log, and may end at once.
Open(s) ==
  /\ link[s] # "open"
  /\ base'[s] \in 0..high
  /\ link'[s] \in {"open", "ended"}
  /\ \E n \in 0..(high - base'[s]) : received'[s] = Consecutive(base'[s], n)

\* An open stream moves forward, or ends, or both.
Send(s) ==
  /\ link[s] = "open"
  /\ base'[s] = base[s]
  /\ link'[s] \in {"open", "ended"}
  /\ \E n \in Len(received[s])..(high - base[s]) :
       received'[s] = Consecutive(base[s], n)

Rest(s) ==
  link'[s] = link[s] /\ base'[s] = base[s] /\ received'[s] = received[s]

\* One synchronous pass of the hub serves several subscribers.
Serve ==
  /\ high' = high
  /\ link' \in [Subscribers -> {"idle", "open", "ended"}]
  /\ base' \in [Subscribers -> Nat]
  /\ DOMAIN received' = Subscribers
  /\ \A s \in Subscribers : Open(s) \/ Send(s) \/ Rest(s)

Next == Log \/ Serve

Spec == Init /\ [][Next]_feedVars

=============================================================================
