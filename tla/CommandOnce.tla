----------------------------- MODULE CommandOnce -----------------------------
(***************************************************************************)
(* What a command's idempotency key promises to its owner: the command is  *)
(* decided at most once, its effect is carried out at most once, whoever   *)
(* sends it how often, and every answer given is the decision.  An effect  *)
(* that is owed when the daemon dies or fails is lost, not repeated; only  *)
(* a launch may be repeated, as long as its intent is open.                *)
(***************************************************************************)
EXTENDS Integers

CONSTANT Keys

VARIABLES
  verdict, \* open, accepted, rejected
  owed,    \* keys whose effect is committed and not yet carried out
  intent,  \* keys with an open launch intent
  done,    \* how often the effect was carried out
  told     \* the answers given

onceVars == <<verdict, owed, intent, done, told>>

Answer == {"accepted", "rejected"}

Init ==
  /\ verdict = [k \in Keys |-> "open"]
  /\ owed = {} /\ intent = {}
  /\ done = [k \in Keys |-> 0]
  /\ told = [k \in Keys |-> {}]

\* A launch is always owed together with its intent
Decide(k) ==
  /\ verdict[k] = "open"
  /\ \E v \in Answer : verdict' = [verdict EXCEPT ![k] = v]
  /\ owed' \in {owed, owed \cup {k}}
  /\ intent' \in {intent, intent \cup {k}}
  /\ UNCHANGED <<done, told>>

Perform(k) ==
  /\ k \in owed
  /\ owed' = owed \ {k}
  /\ done' \in {done, [done EXCEPT ![k] = @ + 1]}
  /\ UNCHANGED <<verdict, intent, told>>

Repeat(k) ==
  /\ k \in intent
  /\ done' = [done EXCEPT ![k] = @ + 1]
  /\ UNCHANGED <<verdict, owed, intent, told>>

Lose == owed' = {} /\ UNCHANGED <<verdict, intent, done, told>>

Close(k) == intent' = intent \ {k} /\ UNCHANGED <<verdict, owed, done, told>>

Tell(k) ==
  /\ verdict[k] # "open"
  /\ told' = [told EXCEPT ![k] = @ \cup {verdict[k]}]
  /\ UNCHANGED <<verdict, owed, intent, done>>

Next ==
  \/ \E k \in Keys : Decide(k) \/ Perform(k) \/ Repeat(k) \/ Close(k) \/ Tell(k)
  \/ Lose

OnceSpec == Init /\ [][Next]_onceVars

-----------------------------------------------------------------------------
\* No sender of a key is ever told anything but its decision.
ToldTheTruth == \A k \in Keys : told[k] \subseteq {verdict[k]}

\* Nothing is carried out, owed or intended for a command that is not decided.
NothingUndecided ==
  \A k \in Keys : verdict[k] = "open" => k \notin owed \cup intent /\ done[k] = 0 /\ told[k] = {}

=============================================================================
