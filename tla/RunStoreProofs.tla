--------------------------- MODULE RunStoreProofs ---------------------------
(***************************************************************************)
(* What the run store promises for every number of runs, tasks and         *)
(* approvals and every limit and lifetime.                                 *)
(***************************************************************************)
EXTENDS RunStore, FiniteSetTheorems, TLAPS

-----------------------------------------------------------------------------
(* Type correctness                                                        *)

\* Counting an action keeps both counters within their budgets.
LEMMA CountType ==
  ASSUME TypeOK, NEW r \in Runs, CountAction(r)
  PROVE  /\ runActions' \in [Runs -> 0..MaxActionsPerRun]
         /\ taskActions' \in [Tasks -> 0..MaxActionsPerTask]
<1>1. runActions' \in [Runs -> 0..MaxActionsPerRun]
  BY LimitAssumption DEF TypeOK, CountAction, HasBudget
<1>2. taskActions' \in [Tasks -> 0..MaxActionsPerTask]
  <2>1. CASE frozen[r].task \in Tasks
    BY <2>1, LimitAssumption DEF TypeOK, CountAction, HasBudget
  <2>2. CASE frozen[r].task \notin Tasks
    BY <2>2 DEF TypeOK, CountAction
  <2> QED BY <2>1, <2>2
<1> QED BY <1>1, <1>2

\* Every step of the store keeps its columns in their domains, and with them the
\* action counters within the budgets of the run and of the task.
LEMMA TypeStep == TypeOK /\ [Next]_vars => TypeOK'
<1> SUFFICES ASSUME TypeOK, [Next]_vars PROVE TypeOK'
  OBVIOUS
<1> USE DEF TypeOK, RunStatus, ActiveStatus, FinishedStatus, TaskStatus, ApprovalState,
            IntentState, HandoffState, runVars, approvalVars, taskVars, handoffVars
<1>1. ASSUME NEW r \in Runs, NEW t \in Tasks, NEW b \in Bots, NEW p \in Providers,
             SubmitTask(r, t, b, p)
      PROVE TypeOK'
  BY <1>1, IdentityAssumption, TimeAssumption DEF SubmitTask, Frozen
<1>2. ASSUME NEW a \in Approvals, ResolveTooLate(a) PROVE TypeOK'
  BY <1>2 DEF ResolveTooLate, ExpireApprovals, FinishRuns, TaskOutcome
<1>3. ASSUME NEW a \in Approvals, AllowApproval(a) PROVE TypeOK'
  BY <1>3 DEF AllowApproval
<1>4. ASSUME NEW a \in Approvals, DenyApproval(a) PROVE TypeOK'
  BY <1>4 DEF DenyApproval, FinishRuns, TaskOutcome
<1>5. ASSUME NEW r \in Runs, AnswerInput(r) PROVE TypeOK'
  BY <1>5 DEF AnswerInput
<1>6. ASSUME NEW r \in Runs, CancelRun(r) PROVE TypeOK'
  BY <1>6 DEF CancelRun, CloseOffers, FinishRuns, TaskOutcome, CancelIntents, CancelApprovals
<1>7. CASE StopAll
  BY <1>7 DEF StopAll, CloseOffers, FinishRuns, TaskOutcome, CancelIntents, CancelApprovals
<1>8. ASSUME NEW r \in Runs, LoadSession(r) PROVE TypeOK'
  BY <1>8 DEF LoadSession
<1>9. ASSUME NEW s \in Runs, NEW x \in Runs, NEW t \in Tasks, ProposeHandoff(s, t, x)
      PROVE TypeOK'
  BY <1>9, TimeAssumption DEF ProposeHandoff, Frozen, Bots, Offer
<1>10. ASSUME NEW r \in Runs, MarkRunning(r) PROVE TypeOK'
  BY <1>10 DEF MarkRunning, ClaimLaunch
<1>11. ASSUME NEW r \in Runs, BumpAction(r) PROVE TypeOK'
  BY <1>11, CountType DEF BumpAction
<1>12. ASSUME NEW r \in Runs, NEW a \in Approvals, RequestApproval(r, a) PROVE TypeOK'
  BY <1>12, CountType, TimeAssumption DEF RequestApproval
<1>13. ASSUME NEW r \in Runs, RequestInput(r) PROVE TypeOK'
  BY <1>13 DEF RequestInput
<1>13a. ASSUME NEW r \in Runs, AskQuestion(r) PROVE TypeOK'
  BY <1>13a, CountType DEF AskQuestion
<1>14. ASSUME NEW r \in Runs, Complete(r) PROVE TypeOK'
  BY <1>14 DEF Complete, FinishRuns, TaskOutcome
<1>15. ASSUME NEW r \in Runs, FailRun(r) PROVE TypeOK'
  BY <1>15 DEF FailRun, FinishRuns, TaskOutcome
<1>16. ASSUME NEW r \in Runs, NEW o \in {"rejected", "expired"}, CloseOfferOf(r, o)
       PROVE TypeOK'
  BY <1>16 DEF CloseOfferOf, CloseOffers, FinishRuns, TaskOutcome, CancelIntents
<1>17. ASSUME NEW r \in Runs, AcceptOffer(r) PROVE TypeOK'
  BY <1>17 DEF AcceptOffer, Bots
<1>18. ASSUME NEW r \in Runs, ClaimDraft(r) PROVE TypeOK'
  BY <1>18, CountType DEF ClaimDraft
<1>19. ASSUME NEW r \in Runs, EndLoad(r) PROVE TypeOK'
  BY <1>19 DEF EndLoad
<1>20. CASE InterruptActive
  BY <1>20 DEF InterruptActive
<1>21. CASE Sweep
  BY <1>21 DEF Sweep, CloseOffers, ExpireApprovals, FinishRuns, TaskOutcome, LapsedOffers
<1>22. CASE Tick
  <2>1. \A left \in Nat : Elapse(left) \in Nat
    BY DEF Elapse
  <2> QED BY <1>22, <2>1 DEF Tick
<1>23. CASE UNCHANGED vars
  BY <1>23 DEF vars
<1> HIDE DEF TypeOK, RunStatus, ActiveStatus, FinishedStatus, TaskStatus, ApprovalState,
            IntentState, HandoffState, runVars, approvalVars, taskVars, handoffVars
<1> QED
  BY <1>1, <1>2, <1>3, <1>4, <1>5, <1>6, <1>7, <1>8, <1>9, <1>10, <1>11, <1>12, <1>13, <1>13a,
     <1>14, <1>15, <1>16, <1>17, <1>18, <1>19, <1>20, <1>21, <1>22, <1>23
  DEF Next, OwnerCommand, DriverCall, FailRecipient, DecideTooLate, RejectOffer

\* The store's rows are always well formed and no run or task exceeds its action
\* budget (store.ts:2435-2460).
THEOREM TypeCorrect == Spec => []TypeOK
<1>1. Init => TypeOK
  <2> SUFFICES ASSUME Init PROVE TypeOK
    OBVIOUS
  <2>1. /\ latched \in BOOLEAN
        /\ frozen \in [Runs -> Frozen]
        /\ offer \in [Tasks -> Offer]
    BY DEF Init, Frozen, Offer
  <2>2. /\ runActions \in [Runs -> 0..MaxActionsPerRun]
        /\ taskActions \in [Tasks -> 0..MaxActionsPerTask]
    BY LimitAssumption DEF Init
  <2> QED
    BY <2>1, <2>2
    DEF Init, TypeOK, RunStatus, TaskStatus, ApprovalState, IntentState, HandoffState
<1>2. QED
  BY <1>1, TypeStep, PTL DEF Spec

-----------------------------------------------------------------------------
(* Admission control                                                       *)

\* The runs that take a slot after a step took one before, except for one run that
\* an admission test has let in.
OnlyAdmittedRunsJoin ==
  \E r \in Runs, b \in Bots \cup {"none"} :
    /\ Admits(b)
    /\ Busy' \subseteq Busy \cup {r}
    /\ \A c \in Bots : BusyOf(c)' \subseteq BusyOf(c) \cup (IF c = b THEN {r} ELSE {})

NobodyJoins ==
  /\ Busy' \subseteq Busy
  /\ \A c \in Bots : BusyOf(c)' \subseteq BusyOf(c)

LEMMA SlotStep == TypeOK /\ [Next]_vars => NobodyJoins \/ OnlyAdmittedRunsJoin
<1> SUFFICES ASSUME TypeOK, [Next]_vars PROVE NobodyJoins \/ OnlyAdmittedRunsJoin
  OBVIOUS
<1> USE DEF Busy, BusyOf, ActiveStatus
<1>1. ASSUME NEW r \in Runs, NEW t \in Tasks, NEW b \in Bots, NEW p \in Providers,
             SubmitTask(r, t, b, p)
      PROVE OnlyAdmittedRunsJoin
  <2>1. Busy' \subseteq Busy \cup {r}
    BY <1>1 DEF SubmitTask, TypeOK
  <2>2. \A c \in Bots : BusyOf(c)' \subseteq BusyOf(c) \cup (IF c = b THEN {r} ELSE {})
    BY <1>1 DEF SubmitTask, TypeOK
  <2> QED BY <1>1, <2>1, <2>2 DEF SubmitTask, OnlyAdmittedRunsJoin
<1>2. ASSUME NEW s \in Runs, NEW x \in Runs, NEW t \in Tasks, ProposeHandoff(s, t, x)
      PROVE OnlyAdmittedRunsJoin
  <2>1. Busy' \subseteq Busy \cup {x}
    BY <1>2 DEF ProposeHandoff, TypeOK
  <2>2. \A c \in Bots : BusyOf(c)' \subseteq BusyOf(c) \cup (IF c = "ivo" THEN {x} ELSE {})
    BY <1>2 DEF ProposeHandoff, TypeOK
  <2> QED BY <1>2, <2>1, <2>2 DEF ProposeHandoff, OnlyAdmittedRunsJoin, Bots
<1>3. ASSUME NEW r \in Runs, LoadSession(r) PROVE OnlyAdmittedRunsJoin
  <2>1. Busy' \subseteq Busy \cup {r}
    BY <1>3 DEF LoadSession, TypeOK
  <2>2. \A c \in Bots :
          BusyOf(c)' \subseteq BusyOf(c) \cup (IF c = frozen[r].bot THEN {r} ELSE {})
    BY <1>3 DEF LoadSession, TypeOK
  <2>3. frozen[r].bot \in Bots \cup {"none"}
    BY DEF TypeOK, Frozen
  <2> QED BY <1>3, <2>1, <2>2, <2>3 DEF LoadSession, OnlyAdmittedRunsJoin
<1>4. ASSUME NEW a \in Approvals,
             ResolveTooLate(a) \/ AllowApproval(a) \/ DenyApproval(a)
      PROVE NobodyJoins
  BY <1>4 DEF ResolveTooLate, AllowApproval, DenyApproval, Resolvable, FinishRuns,
              NobodyJoins, TypeOK
<1>5. ASSUME NEW r \in Runs, AnswerInput(r) \/ CancelRun(r) PROVE NobodyJoins
  BY <1>5 DEF AnswerInput, CancelRun, FinishRuns, NobodyJoins, TypeOK
<1>6. CASE StopAll
  BY <1>6 DEF StopAll, FinishRuns, NobodyJoins, TypeOK
<1>7. ASSUME NEW r \in Runs,
             \/ MarkRunning(r) \/ BumpAction(r) \/ RequestInput(r) \/ AskQuestion(r)
             \/ \E a \in Approvals : RequestApproval(r, a)
      PROVE NobodyJoins
  BY <1>7 DEF MarkRunning, BumpAction, RequestInput, AskQuestion, RequestApproval, Active, NobodyJoins,
              TypeOK
<1>8. ASSUME NEW r \in Runs, NEW o, Complete(r) \/ FailRun(r) \/ CloseOfferOf(r, o)
      PROVE NobodyJoins
  BY <1>8 DEF Complete, FailRun, CloseOfferOf, FinishRuns, NobodyJoins, TypeOK
<1>9. ASSUME NEW r \in Runs, AcceptOffer(r) \/ ClaimDraft(r) \/ EndLoad(r)
      PROVE NobodyJoins
  BY <1>9 DEF AcceptOffer, ClaimDraft, EndLoad, NobodyJoins, TypeOK
<1>10. CASE InterruptActive
  BY <1>10 DEF InterruptActive, ActiveRuns, NobodyJoins, TypeOK
<1>11. CASE Sweep
  BY <1>11 DEF Sweep, FinishRuns, NobodyJoins, TypeOK
<1>12. CASE Tick \/ UNCHANGED vars
  BY <1>12 DEF Tick, vars, runVars, NobodyJoins
<1> HIDE DEF Busy, BusyOf
<1> QED
  BY <1>1, <1>2, <1>3, <1>4, <1>5, <1>6, <1>7, <1>8, <1>9, <1>10, <1>11, <1>12
  DEF Next, OwnerCommand, DriverCall, FailRecipient, DecideTooLate, RejectOffer

LEMMA SlotsAreFinite ==
  /\ IsFiniteSet(Busy)
  /\ \A b \in Bots : IsFiniteSet(BusyOf(b))
BY IdentityAssumption, FS_Subset DEF Busy, BusyOf

LEMMA FewerMembers ==
  ASSUME NEW S, IsFiniteSet(S), NEW T, T \subseteq S
  PROVE  /\ Cardinality(S) \in Nat /\ Cardinality(T) \in Nat
         /\ Cardinality(T) <= Cardinality(S)
<1>1. IsFiniteSet(T) /\ Cardinality(T) <= Cardinality(S)
  BY FS_Subset
<1> QED BY <1>1, FS_CardinalityType

LEMMA OneMoreMember ==
  ASSUME NEW S, IsFiniteSet(S), NEW x, NEW T, T \subseteq S \cup {x}
  PROVE  /\ Cardinality(S) \in Nat /\ Cardinality(T) \in Nat
         /\ Cardinality(T) <= Cardinality(S) + 1
<1>1. /\ IsFiniteSet(S \cup {x})
      /\ Cardinality(S \cup {x}) = IF x \in S THEN Cardinality(S) ELSE Cardinality(S) + 1
  BY FS_AddElement
<1>2. Cardinality(S) \in Nat
  BY FS_CardinalityType
<1>3. Cardinality(T) \in Nat /\ Cardinality(T) <= Cardinality(S \cup {x})
  BY <1>1, FewerMembers
<1> QED BY <1>1, <1>2, <1>3

\* No interleaving of submissions, session loads, handoffs, restarts and provider
\* callbacks takes more slots than the limits allow (store.ts:1222-1241,
\* 1348-1375; handoff-store.ts:168-173).
THEOREM Admission == Spec => []ConcurrencyBound
<1>1. Init => ConcurrencyBound
  <2> SUFFICES ASSUME Init PROVE ConcurrencyBound
    OBVIOUS
  <2>1. Busy = {} /\ \A b \in Bots : BusyOf(b) = {}
    BY DEF Init, Busy, BusyOf, ActiveStatus
  <2> QED BY <2>1, FS_EmptySet, LimitAssumption DEF ConcurrencyBound
<1>2. TypeOK /\ ConcurrencyBound /\ [Next]_vars => ConcurrencyBound'
  <2> SUFFICES ASSUME TypeOK, ConcurrencyBound, [Next]_vars PROVE ConcurrencyBound'
    OBVIOUS
  <2>1. CASE NobodyJoins
    <3>1. Cardinality(Busy') <= MaxActiveRuns
      BY <2>1, SlotsAreFinite, FewerMembers, LimitAssumption
      DEF NobodyJoins, ConcurrencyBound
    <3>2. ASSUME NEW c \in Bots PROVE Cardinality(BusyOf(c)') <= MaxActiveRunsPerBot
      BY <2>1, SlotsAreFinite, FewerMembers, LimitAssumption
      DEF NobodyJoins, ConcurrencyBound
    <3> QED BY <3>1, <3>2 DEF ConcurrencyBound
  <2>2. CASE OnlyAdmittedRunsJoin
    <3> PICK r \in Runs, b \in Bots \cup {"none"} :
          /\ Admits(b)
          /\ Busy' \subseteq Busy \cup {r}
          /\ \A c \in Bots : BusyOf(c)' \subseteq BusyOf(c) \cup (IF c = b THEN {r} ELSE {})
      BY <2>2 DEF OnlyAdmittedRunsJoin
    <3>1. Cardinality(Busy') <= MaxActiveRuns
      <4>1. /\ Cardinality(Busy) \in Nat /\ Cardinality(Busy') \in Nat
            /\ Cardinality(Busy') <= Cardinality(Busy) + 1
        BY SlotsAreFinite, OneMoreMember
      <4> QED BY <4>1, LimitAssumption DEF Admits, HasSlot
    <3>2. ASSUME NEW c \in Bots PROVE Cardinality(BusyOf(c)') <= MaxActiveRunsPerBot
      <4>1. CASE c = b
        <5>1. BusyOf(c)' \subseteq BusyOf(c) \cup {r}
          BY <4>1
        <5>2. /\ Cardinality(BusyOf(c)) \in Nat /\ Cardinality(BusyOf(c)') \in Nat
              /\ Cardinality(BusyOf(c)') <= Cardinality(BusyOf(c)) + 1
          BY <5>1, SlotsAreFinite, OneMoreMember
        <5> QED BY <4>1, <5>2, LimitAssumption DEF Admits, HasSlot
      <4>2. CASE c # b
        <5>1. BusyOf(c)' \subseteq BusyOf(c)
          BY <4>2
        <5> QED
          BY <5>1, SlotsAreFinite, FewerMembers, LimitAssumption DEF ConcurrencyBound
      <4> QED BY <4>1, <4>2
    <3> QED BY <3>1, <3>2 DEF ConcurrencyBound
  <2> QED BY <2>1, <2>2, SlotStep
<1>3. QED
  BY <1>1, <1>2, TypeCorrect, PTL DEF Spec

-----------------------------------------------------------------------------
(* The references between rows                                             *)

\* An offer keeps joining a finished source to a recipient that exists.
LEMMA OfferStep == TypeOK /\ OffersWellFormed /\ [Next]_vars => OffersWellFormed'
<1> SUFFICES ASSUME TypeOK, OffersWellFormed, [Next]_vars PROVE OffersWellFormed'
  OBVIOUS
<1> USE DEF TypeOK, runVars, approvalVars, taskVars, handoffVars, ActiveStatus,
            FinishedStatus, OffersWellFormed
<1>1. ASSUME NEW r \in Runs, NEW t \in Tasks, NEW b \in Bots, NEW p \in Providers,
             SubmitTask(r, t, b, p) PROVE OffersWellFormed'
  BY <1>1 DEF SubmitTask
<1>2. ASSUME NEW s \in Runs, NEW x \in Runs, NEW t \in Tasks, ProposeHandoff(s, t, x)
      PROVE OffersWellFormed'
  BY <1>2, TimeAssumption DEF ProposeHandoff, Unproposed
<1>3. ASSUME NEW a \in Approvals,
             ResolveTooLate(a) \/ AllowApproval(a) \/ DenyApproval(a)
      PROVE OffersWellFormed'
  BY <1>3 DEF ResolveTooLate, AllowApproval, DenyApproval, Resolvable, FinishRuns,
      ExpireApprovals
<1>4. ASSUME NEW r \in Runs, AnswerInput(r) \/ CancelRun(r) \/ LoadSession(r)
      PROVE OffersWellFormed'
  BY <1>4 DEF AnswerInput, CancelRun, LoadSession, FinishRuns, CloseOffers,
      OpenOffersTo, CancelIntents, CancelApprovals
<1>5. CASE StopAll
  BY <1>5 DEF StopAll, ActiveRuns, FinishRuns, CloseOffers, OpenOffersTo, CancelIntents,
      CancelApprovals
<1>6. ASSUME NEW r \in Runs,
             \/ MarkRunning(r) \/ BumpAction(r) \/ RequestInput(r) \/ AskQuestion(r)
             \/ ClaimDraft(r) \/ EndLoad(r)
      PROVE OffersWellFormed'
  BY <1>6 DEF MarkRunning, BumpAction, RequestInput, AskQuestion, ClaimDraft, EndLoad, Active,
      ClaimLaunch
<1>7. ASSUME NEW r \in Runs, NEW a \in Approvals, RequestApproval(r, a)
      PROVE OffersWellFormed'
  BY <1>7 DEF RequestApproval, Active, IsRecipient
<1>8. ASSUME NEW r \in Runs, Complete(r) \/ FailRun(r) PROVE OffersWellFormed'
  BY <1>8 DEF Complete, FailRun, Active, FinishRuns, OpenOffersTo
<1>9. ASSUME NEW r \in Runs, NEW o \in {"rejected", "expired"}, CloseOfferOf(r, o)
      PROVE OffersWellFormed'
  BY <1>9 DEF CloseOfferOf, FinishRuns, CloseOffers, OpenOffersTo, CancelIntents
<1>10. ASSUME NEW r \in Runs, AcceptOffer(r) PROVE OffersWellFormed'
  BY <1>10 DEF AcceptOffer, Decidable, OpenOffersTo
<1>11. CASE InterruptActive
  BY <1>11 DEF InterruptActive, ActiveRuns
<1>12. CASE Sweep
  BY <1>12 DEF Sweep, FinishRuns, CloseOffers, LapsedOffers, OverdueRuns, LateApprovals,
      ActiveRuns, ExpireApprovals, Expired
<1>13. CASE Tick
  BY <1>13 DEF Tick, Elapse
<1>14. CASE UNCHANGED vars
  BY <1>14 DEF vars
<1> HIDE DEF TypeOK, runVars, approvalVars, taskVars, handoffVars, ActiveStatus,
             FinishedStatus, OffersWellFormed
<1> QED
  BY <1>1, <1>2, <1>3, <1>4, <1>5, <1>6, <1>7, <1>8, <1>9, <1>10, <1>11, <1>12, <1>13,
     <1>14
  DEF Next, OwnerCommand, DriverCall, FailRecipient, DecideTooLate, RejectOffer

\* No approval ever belongs to the recipient of a handoff.
LEMMA ApprovalStep == TypeOK /\ ApprovalsWellFormed /\ [Next]_vars => ApprovalsWellFormed'
<1> SUFFICES ASSUME TypeOK, ApprovalsWellFormed, [Next]_vars PROVE ApprovalsWellFormed'
  OBVIOUS
<1> USE DEF TypeOK, runVars, approvalVars, taskVars, handoffVars, ActiveStatus,
            FinishedStatus, ApprovalsWellFormed
<1>1. ASSUME NEW r \in Runs, NEW t \in Tasks, NEW b \in Bots, NEW p \in Providers,
             SubmitTask(r, t, b, p) PROVE ApprovalsWellFormed'
  BY <1>1 DEF SubmitTask
<1>2. ASSUME NEW s \in Runs, NEW x \in Runs, NEW t \in Tasks, ProposeHandoff(s, t, x)
      PROVE ApprovalsWellFormed'
  BY <1>2 DEF ProposeHandoff, Unproposed
<1>3. ASSUME NEW a \in Approvals,
             ResolveTooLate(a) \/ AllowApproval(a) \/ DenyApproval(a)
      PROVE ApprovalsWellFormed'
  BY <1>3 DEF ResolveTooLate, AllowApproval, DenyApproval, Resolvable, FinishRuns,
      ExpireApprovals
<1>4. ASSUME NEW r \in Runs, AnswerInput(r) \/ CancelRun(r) \/ LoadSession(r)
      PROVE ApprovalsWellFormed'
  BY <1>4 DEF AnswerInput, CancelRun, LoadSession, FinishRuns, CloseOffers,
      OpenOffersTo, CancelIntents, CancelApprovals
<1>5. CASE StopAll
  BY <1>5 DEF StopAll, ActiveRuns, FinishRuns, CloseOffers, OpenOffersTo, CancelIntents,
      CancelApprovals
<1>6. ASSUME NEW r \in Runs,
             \/ MarkRunning(r) \/ BumpAction(r) \/ RequestInput(r) \/ AskQuestion(r)
             \/ ClaimDraft(r) \/ EndLoad(r)
      PROVE ApprovalsWellFormed'
  BY <1>6 DEF MarkRunning, BumpAction, RequestInput, AskQuestion, ClaimDraft, EndLoad, Active,
      ClaimLaunch
<1>7. ASSUME NEW r \in Runs, NEW a \in Approvals, RequestApproval(r, a)
      PROVE ApprovalsWellFormed'
  BY <1>7 DEF RequestApproval, Active, IsRecipient
<1>8. ASSUME NEW r \in Runs, Complete(r) \/ FailRun(r) PROVE ApprovalsWellFormed'
  BY <1>8 DEF Complete, FailRun, Active, FinishRuns, OpenOffersTo
<1>9. ASSUME NEW r \in Runs, NEW o \in {"rejected", "expired"}, CloseOfferOf(r, o)
      PROVE ApprovalsWellFormed'
  BY <1>9 DEF CloseOfferOf, FinishRuns, CloseOffers, OpenOffersTo, CancelIntents
<1>10. ASSUME NEW r \in Runs, AcceptOffer(r) PROVE ApprovalsWellFormed'
  BY <1>10 DEF AcceptOffer, Decidable, OpenOffersTo
<1>11. CASE InterruptActive
  BY <1>11 DEF InterruptActive, ActiveRuns
<1>12. CASE Sweep
  BY <1>12 DEF Sweep, FinishRuns, CloseOffers, LapsedOffers, OverdueRuns, LateApprovals,
      ActiveRuns, ExpireApprovals, Expired
<1>13. CASE Tick
  BY <1>13 DEF Tick, Elapse
<1>14. CASE UNCHANGED vars
  BY <1>14 DEF vars
<1> HIDE DEF TypeOK, runVars, approvalVars, taskVars, handoffVars, ActiveStatus,
             FinishedStatus, ApprovalsWellFormed
<1> QED
  BY <1>1, <1>2, <1>3, <1>4, <1>5, <1>6, <1>7, <1>8, <1>9, <1>10, <1>11, <1>12, <1>13,
     <1>14
  DEF Next, OwnerCommand, DriverCall, FailRecipient, DecideTooLate, RejectOffer

\* Whatever finishes a recipient that has not decided closes its offer.
LEMMA OfferLiveStep == TypeOK /\ OffersWellFormed /\ ApprovalsWellFormed /\ OpenOfferIsLive /\ [Next]_vars => OpenOfferIsLive'
<1> SUFFICES ASSUME TypeOK, OffersWellFormed, ApprovalsWellFormed, OpenOfferIsLive, [Next]_vars PROVE OpenOfferIsLive'
  OBVIOUS
<1> USE DEF TypeOK, runVars, approvalVars, taskVars, handoffVars, ActiveStatus,
            FinishedStatus, OffersWellFormed, ApprovalsWellFormed, OpenOfferIsLive
<1>1. ASSUME NEW r \in Runs, NEW t \in Tasks, NEW b \in Bots, NEW p \in Providers,
             SubmitTask(r, t, b, p) PROVE OpenOfferIsLive'
  BY <1>1 DEF SubmitTask
<1>2. ASSUME NEW s \in Runs, NEW x \in Runs, NEW t \in Tasks, ProposeHandoff(s, t, x)
      PROVE OpenOfferIsLive'
  BY <1>2 DEF ProposeHandoff, Unproposed
<1>3. ASSUME NEW a \in Approvals,
             ResolveTooLate(a) \/ AllowApproval(a) \/ DenyApproval(a)
      PROVE OpenOfferIsLive'
  BY <1>3 DEF ResolveTooLate, AllowApproval, DenyApproval, Resolvable, FinishRuns,
      ExpireApprovals
<1>4. ASSUME NEW r \in Runs, AnswerInput(r) \/ CancelRun(r) \/ LoadSession(r)
      PROVE OpenOfferIsLive'
  BY <1>4 DEF AnswerInput, CancelRun, LoadSession, FinishRuns, CloseOffers,
      OpenOffersTo, CancelIntents, CancelApprovals
<1>5. CASE StopAll
  BY <1>5 DEF StopAll, ActiveRuns, FinishRuns, CloseOffers, OpenOffersTo, CancelIntents,
      CancelApprovals
<1>6. ASSUME NEW r \in Runs,
             \/ MarkRunning(r) \/ BumpAction(r) \/ RequestInput(r) \/ AskQuestion(r)
             \/ ClaimDraft(r) \/ EndLoad(r)
      PROVE OpenOfferIsLive'
  BY <1>6 DEF MarkRunning, BumpAction, RequestInput, AskQuestion, ClaimDraft, EndLoad, Active,
      ClaimLaunch
<1>7. ASSUME NEW r \in Runs, NEW a \in Approvals, RequestApproval(r, a)
      PROVE OpenOfferIsLive'
  BY <1>7 DEF RequestApproval, Active, IsRecipient
<1>8. ASSUME NEW r \in Runs, Complete(r) \/ FailRun(r) PROVE OpenOfferIsLive'
  BY <1>8 DEF Complete, FailRun, Active, FinishRuns, OpenOffersTo
<1>9. ASSUME NEW r \in Runs, NEW o \in {"rejected", "expired"}, CloseOfferOf(r, o)
      PROVE OpenOfferIsLive'
  BY <1>9 DEF CloseOfferOf, FinishRuns, CloseOffers, OpenOffersTo, CancelIntents
<1>10. ASSUME NEW r \in Runs, AcceptOffer(r) PROVE OpenOfferIsLive'
  BY <1>10 DEF AcceptOffer, Decidable, OpenOffersTo
<1>11. CASE InterruptActive
  BY <1>11 DEF InterruptActive, ActiveRuns
<1>12. CASE Sweep
  <2> SUFFICES ASSUME NEW t \in Tasks, handoff'[t] = "proposed"
               PROVE  status'[offer'[t].recipient] \in ActiveStatus \cup {"interrupted"}
    OBVIOUS
  <2> DEFINE x == offer[t].recipient
  <2>1. handoff[t] = "proposed" /\ t \notin LapsedOffers /\ offer' = offer
    BY <1>12 DEF Sweep, CloseOffers
  <2>2. offerLeft[t] # 0 /\ deadlineLeft[x] # 0
    BY <2>1 DEF LapsedOffers, Expired
  <2>3. x \notin OverdueRuns
    BY <2>2 DEF OverdueRuns, Expired
  <2>4. x \notin {offer[u].recipient : u \in LapsedOffers}
    BY <2>1 DEF LapsedOffers
  <2>5. x \notin {approvalRun[a] : a \in LateApprovals}
    BY <2>1 DEF LateApprovals
  <2>6. x \in Runs /\ status'[x] = status[x]
    BY <1>12, <2>1, <2>3, <2>4, <2>5 DEF Sweep, FinishRuns
  <2> QED BY <2>1, <2>6
<1>13. CASE Tick
  BY <1>13 DEF Tick, Elapse
<1>14. CASE UNCHANGED vars
  BY <1>14 DEF vars
<1> HIDE DEF TypeOK, runVars, approvalVars, taskVars, handoffVars, ActiveStatus,
             FinishedStatus, OffersWellFormed, ApprovalsWellFormed, OpenOfferIsLive
<1> QED
  BY <1>1, <1>2, <1>3, <1>4, <1>5, <1>6, <1>7, <1>8, <1>9, <1>10, <1>11, <1>12, <1>13,
     <1>14
  DEF Next, OwnerCommand, DriverCall, FailRecipient, DecideTooLate, RejectOffer

-----------------------------------------------------------------------------
(* The safety invariants that rest on them                                 *)

\* A run waits for approval only while a request of its own is pending.
LEMMA WaitingStep == TypeOK /\ WaitingHasRequest /\ [Next]_vars => WaitingHasRequest'
<1> SUFFICES ASSUME TypeOK, WaitingHasRequest, [Next]_vars PROVE WaitingHasRequest'
  OBVIOUS
<1> USE DEF TypeOK, runVars, approvalVars, taskVars, handoffVars, ActiveStatus,
            FinishedStatus, WaitingHasRequest
<1>1. ASSUME NEW r \in Runs, NEW t \in Tasks, NEW b \in Bots, NEW p \in Providers,
             SubmitTask(r, t, b, p) PROVE WaitingHasRequest'
  BY <1>1 DEF SubmitTask
<1>2. ASSUME NEW s \in Runs, NEW x \in Runs, NEW t \in Tasks, ProposeHandoff(s, t, x)
      PROVE WaitingHasRequest'
  BY <1>2 DEF ProposeHandoff, Unproposed
<1>3. ASSUME NEW a \in Approvals,
             ResolveTooLate(a) \/ AllowApproval(a) \/ DenyApproval(a)
      PROVE WaitingHasRequest'
  BY <1>3 DEF ResolveTooLate, AllowApproval, DenyApproval, Resolvable, FinishRuns,
      ExpireApprovals
<1>4. ASSUME NEW r \in Runs, AnswerInput(r) \/ CancelRun(r) \/ LoadSession(r)
      PROVE WaitingHasRequest'
  BY <1>4 DEF AnswerInput, CancelRun, LoadSession, FinishRuns, CloseOffers,
      OpenOffersTo, CancelIntents, CancelApprovals
<1>5. CASE StopAll
  BY <1>5 DEF StopAll, ActiveRuns, FinishRuns, CloseOffers, OpenOffersTo, CancelIntents,
      CancelApprovals
<1>6. ASSUME NEW r \in Runs,
             \/ MarkRunning(r) \/ BumpAction(r) \/ RequestInput(r) \/ AskQuestion(r)
             \/ ClaimDraft(r) \/ EndLoad(r)
      PROVE WaitingHasRequest'
  BY <1>6 DEF MarkRunning, BumpAction, RequestInput, AskQuestion, ClaimDraft, EndLoad, Active,
      ClaimLaunch
<1>7. ASSUME NEW r \in Runs, NEW a \in Approvals, RequestApproval(r, a)
      PROVE WaitingHasRequest'
  BY <1>7 DEF RequestApproval, Active, IsRecipient
<1>8. ASSUME NEW r \in Runs, Complete(r) \/ FailRun(r) PROVE WaitingHasRequest'
  BY <1>8 DEF Complete, FailRun, Active, FinishRuns, OpenOffersTo
<1>9. ASSUME NEW r \in Runs, NEW o \in {"rejected", "expired"}, CloseOfferOf(r, o)
      PROVE WaitingHasRequest'
  BY <1>9 DEF CloseOfferOf, FinishRuns, CloseOffers, OpenOffersTo, CancelIntents
<1>10. ASSUME NEW r \in Runs, AcceptOffer(r) PROVE WaitingHasRequest'
  BY <1>10 DEF AcceptOffer, Decidable, OpenOffersTo
<1>11. CASE InterruptActive
  BY <1>11 DEF InterruptActive, ActiveRuns
<1>12. CASE Sweep
  BY <1>12 DEF Sweep, FinishRuns, CloseOffers, LapsedOffers, OverdueRuns, LateApprovals,
      ActiveRuns, ExpireApprovals, Expired
<1>13. CASE Tick
  BY <1>13 DEF Tick, Elapse
<1>14. CASE UNCHANGED vars
  BY <1>14 DEF vars
<1> HIDE DEF TypeOK, runVars, approvalVars, taskVars, handoffVars, ActiveStatus,
             FinishedStatus, WaitingHasRequest
<1> QED
  BY <1>1, <1>2, <1>3, <1>4, <1>5, <1>6, <1>7, <1>8, <1>9, <1>10, <1>11, <1>12, <1>13,
     <1>14
  DEF Next, OwnerCommand, DriverCall, FailRecipient, DecideTooLate, RejectOffer

\* The task row repeats the outcome of its current run.
LEMMA TaskStep == TypeOK /\ TaskFollowsRun /\ [Next]_vars => TaskFollowsRun'
<1> SUFFICES ASSUME TypeOK, TaskFollowsRun, [Next]_vars PROVE TaskFollowsRun'
  OBVIOUS
<1> USE DEF TypeOK, runVars, approvalVars, taskVars, handoffVars, ActiveStatus,
            FinishedStatus, TaskFollowsRun, TaskOutcome
<1>1. ASSUME NEW r \in Runs, NEW t \in Tasks, NEW b \in Bots, NEW p \in Providers,
             SubmitTask(r, t, b, p) PROVE TaskFollowsRun'
  BY <1>1 DEF SubmitTask
<1>2. ASSUME NEW s \in Runs, NEW x \in Runs, NEW t \in Tasks, ProposeHandoff(s, t, x)
      PROVE TaskFollowsRun'
  BY <1>2 DEF ProposeHandoff, Unproposed
<1>3. ASSUME NEW a \in Approvals,
             ResolveTooLate(a) \/ AllowApproval(a) \/ DenyApproval(a)
      PROVE TaskFollowsRun'
  BY <1>3 DEF ResolveTooLate, AllowApproval, DenyApproval, Resolvable, FinishRuns,
      ExpireApprovals
<1>4. ASSUME NEW r \in Runs, AnswerInput(r) \/ CancelRun(r) \/ LoadSession(r)
      PROVE TaskFollowsRun'
  BY <1>4 DEF AnswerInput, CancelRun, LoadSession, FinishRuns, CloseOffers,
      OpenOffersTo, CancelIntents, CancelApprovals
<1>5. CASE StopAll
  BY <1>5 DEF StopAll, ActiveRuns, FinishRuns, CloseOffers, OpenOffersTo, CancelIntents,
      CancelApprovals
<1>6. ASSUME NEW r \in Runs,
             \/ MarkRunning(r) \/ BumpAction(r) \/ RequestInput(r) \/ AskQuestion(r)
             \/ ClaimDraft(r) \/ EndLoad(r)
      PROVE TaskFollowsRun'
  BY <1>6 DEF MarkRunning, BumpAction, RequestInput, AskQuestion, ClaimDraft, EndLoad, Active,
      ClaimLaunch
<1>7. ASSUME NEW r \in Runs, NEW a \in Approvals, RequestApproval(r, a)
      PROVE TaskFollowsRun'
  BY <1>7 DEF RequestApproval, Active, IsRecipient
<1>8. ASSUME NEW r \in Runs, Complete(r) \/ FailRun(r) PROVE TaskFollowsRun'
  BY <1>8 DEF Complete, FailRun, Active, FinishRuns, OpenOffersTo
<1>9. ASSUME NEW r \in Runs, NEW o \in {"rejected", "expired"}, CloseOfferOf(r, o)
      PROVE TaskFollowsRun'
  BY <1>9 DEF CloseOfferOf, FinishRuns, CloseOffers, OpenOffersTo, CancelIntents
<1>10. ASSUME NEW r \in Runs, AcceptOffer(r) PROVE TaskFollowsRun'
  BY <1>10 DEF AcceptOffer, Decidable, OpenOffersTo
<1>11. CASE InterruptActive
  BY <1>11 DEF InterruptActive, ActiveRuns
<1>12. CASE Sweep
  BY <1>12 DEF Sweep, FinishRuns, CloseOffers, LapsedOffers, OverdueRuns, LateApprovals,
      ActiveRuns, ExpireApprovals, Expired
<1>13. CASE Tick
  BY <1>13 DEF Tick, Elapse
<1>14. CASE UNCHANGED vars
  BY <1>14 DEF vars
<1> HIDE DEF TypeOK, runVars, approvalVars, taskVars, handoffVars, ActiveStatus,
             FinishedStatus, TaskFollowsRun, TaskOutcome
<1> QED
  BY <1>1, <1>2, <1>3, <1>4, <1>5, <1>6, <1>7, <1>8, <1>9, <1>10, <1>11, <1>12, <1>13,
     <1>14
  DEF Next, OwnerCommand, DriverCall, FailRecipient, DecideTooLate, RejectOffer

\* A latched stop-all stays quiet.
LEMMA StopStep == TypeOK /\ ApprovalsWellFormed /\ StopQuiesces /\ [Next]_vars => StopQuiesces'
<1> SUFFICES ASSUME TypeOK, ApprovalsWellFormed, StopQuiesces, [Next]_vars PROVE StopQuiesces'
  OBVIOUS
<1> USE DEF TypeOK, runVars, approvalVars, taskVars, handoffVars, ActiveStatus,
            FinishedStatus, ApprovalsWellFormed, StopQuiesces, Busy
<1>1. ASSUME NEW r \in Runs, NEW t \in Tasks, NEW b \in Bots, NEW p \in Providers,
             SubmitTask(r, t, b, p) PROVE StopQuiesces'
  BY <1>1 DEF SubmitTask, Admits
<1>2. ASSUME NEW s \in Runs, NEW x \in Runs, NEW t \in Tasks, ProposeHandoff(s, t, x)
      PROVE StopQuiesces'
  BY <1>2 DEF ProposeHandoff, Unproposed, Admits
<1>3. ASSUME NEW a \in Approvals,
             ResolveTooLate(a) \/ AllowApproval(a) \/ DenyApproval(a) PROVE StopQuiesces'
  BY <1>3 DEF ResolveTooLate, AllowApproval, DenyApproval, Resolvable, FinishRuns,
      ExpireApprovals
<1>4. ASSUME NEW r \in Runs, AnswerInput(r) \/ CancelRun(r) \/ LoadSession(r)
      PROVE StopQuiesces'
  <2>1. CASE AnswerInput(r)
    <3>1. r \in Busy
      BY <2>1 DEF AnswerInput
    <3> QED BY <2>1, <3>1 DEF AnswerInput
  <2>2. CASE CancelRun(r)
    <3>1. Busy' \subseteq Busy
      BY <2>2 DEF CancelRun, FinishRuns
    <3> QED BY <2>2, <3>1 DEF CancelRun, CancelApprovals
  <2>3. CASE LoadSession(r)
    BY <2>3 DEF LoadSession, Admits
  <2> QED BY <1>4, <2>1, <2>2, <2>3
<1>5. CASE StopAll
  BY <1>5 DEF StopAll, ActiveRuns, FinishRuns, CloseOffers, OpenOffersTo, CancelIntents,
      CancelApprovals
<1>6. ASSUME NEW r \in Runs,
             \/ MarkRunning(r) \/ BumpAction(r) \/ RequestInput(r) \/ AskQuestion(r)
             \/ ClaimDraft(r) \/ EndLoad(r)
      PROVE StopQuiesces'
  BY <1>6 DEF MarkRunning, BumpAction, RequestInput, AskQuestion, ClaimDraft, EndLoad, Active,
      ClaimLaunch
<1>7. ASSUME NEW r \in Runs, NEW a \in Approvals, RequestApproval(r, a)
      PROVE StopQuiesces'
  BY <1>7 DEF RequestApproval, Active, IsRecipient
<1>8. ASSUME NEW r \in Runs, Complete(r) \/ FailRun(r) PROVE StopQuiesces'
  BY <1>8 DEF Complete, FailRun, Active, FinishRuns, OpenOffersTo
<1>9. ASSUME NEW r \in Runs, NEW o \in {"rejected", "expired"}, CloseOfferOf(r, o)
      PROVE StopQuiesces'
  BY <1>9 DEF CloseOfferOf, FinishRuns, CloseOffers, OpenOffersTo, CancelIntents
<1>10. ASSUME NEW r \in Runs, AcceptOffer(r) PROVE StopQuiesces'
  BY <1>10 DEF AcceptOffer, Decidable, OpenOffersTo
<1>11. CASE InterruptActive
  BY <1>11 DEF InterruptActive, ActiveRuns
<1>12. CASE Sweep
  BY <1>12 DEF Sweep, FinishRuns, CloseOffers, LapsedOffers, OverdueRuns, LateApprovals,
      ActiveRuns, ExpireApprovals, Expired
<1>13. CASE Tick
  BY <1>13 DEF Tick, Elapse
<1>14. CASE UNCHANGED vars
  BY <1>14 DEF vars
<1> HIDE DEF TypeOK, runVars, approvalVars, taskVars, handoffVars, ActiveStatus,
             FinishedStatus, ApprovalsWellFormed, StopQuiesces, Busy
<1> QED
  BY <1>1, <1>2, <1>3, <1>4, <1>5, <1>6, <1>7, <1>8, <1>9, <1>10, <1>11, <1>12, <1>13,
     <1>14
  DEF Next, OwnerCommand, DriverCall, FailRecipient, DecideTooLate, RejectOffer

\* The launch intent follows the run.
LEMMA LaunchStep == TypeOK /\ LaunchIntentMatches /\ [Next]_vars => LaunchIntentMatches'
<1> SUFFICES ASSUME TypeOK, LaunchIntentMatches, [Next]_vars PROVE LaunchIntentMatches'
  OBVIOUS
<1> USE DEF TypeOK, runVars, approvalVars, taskVars, handoffVars, ActiveStatus,
            FinishedStatus, LaunchIntentMatches
<1>1. ASSUME NEW r \in Runs, NEW t \in Tasks, NEW b \in Bots, NEW p \in Providers,
             SubmitTask(r, t, b, p) PROVE LaunchIntentMatches'
  BY <1>1 DEF SubmitTask
<1>2. ASSUME NEW s \in Runs, NEW x \in Runs, NEW t \in Tasks, ProposeHandoff(s, t, x)
      PROVE LaunchIntentMatches'
  BY <1>2 DEF ProposeHandoff, Unproposed
<1>3. ASSUME NEW a \in Approvals,
             ResolveTooLate(a) \/ AllowApproval(a) \/ DenyApproval(a)
      PROVE LaunchIntentMatches'
  BY <1>3 DEF ResolveTooLate, AllowApproval, DenyApproval, Resolvable, FinishRuns,
      ExpireApprovals
<1>4. ASSUME NEW r \in Runs, AnswerInput(r) \/ CancelRun(r) \/ LoadSession(r)
      PROVE LaunchIntentMatches'
  BY <1>4 DEF AnswerInput, CancelRun, LoadSession, FinishRuns, CloseOffers,
      OpenOffersTo, CancelIntents, CancelApprovals
<1>5. CASE StopAll
  BY <1>5 DEF StopAll, ActiveRuns, FinishRuns, CloseOffers, OpenOffersTo, CancelIntents,
      CancelApprovals
<1>6. ASSUME NEW r \in Runs,
             \/ MarkRunning(r) \/ BumpAction(r) \/ RequestInput(r) \/ AskQuestion(r)
             \/ ClaimDraft(r) \/ EndLoad(r)
      PROVE LaunchIntentMatches'
  BY <1>6 DEF MarkRunning, BumpAction, RequestInput, AskQuestion, ClaimDraft, EndLoad, Active,
      ClaimLaunch
<1>7. ASSUME NEW r \in Runs, NEW a \in Approvals, RequestApproval(r, a)
      PROVE LaunchIntentMatches'
  BY <1>7 DEF RequestApproval, Active, IsRecipient
<1>8. ASSUME NEW r \in Runs, Complete(r) \/ FailRun(r) PROVE LaunchIntentMatches'
  BY <1>8 DEF Complete, FailRun, Active, FinishRuns, OpenOffersTo
<1>9. ASSUME NEW r \in Runs, NEW o \in {"rejected", "expired"}, CloseOfferOf(r, o)
      PROVE LaunchIntentMatches'
  BY <1>9 DEF CloseOfferOf, FinishRuns, CloseOffers, OpenOffersTo, CancelIntents
<1>10. ASSUME NEW r \in Runs, AcceptOffer(r) PROVE LaunchIntentMatches'
  BY <1>10 DEF AcceptOffer, Decidable, OpenOffersTo
<1>11. CASE InterruptActive
  BY <1>11 DEF InterruptActive, ActiveRuns
<1>12. CASE Sweep
  BY <1>12 DEF Sweep, FinishRuns, CloseOffers, LapsedOffers, OverdueRuns, LateApprovals,
      ActiveRuns, ExpireApprovals, Expired
<1>13. CASE Tick
  BY <1>13 DEF Tick, Elapse
<1>14. CASE UNCHANGED vars
  BY <1>14 DEF vars
<1> HIDE DEF TypeOK, runVars, approvalVars, taskVars, handoffVars, ActiveStatus,
             FinishedStatus, LaunchIntentMatches
<1> QED
  BY <1>1, <1>2, <1>3, <1>4, <1>5, <1>6, <1>7, <1>8, <1>9, <1>10, <1>11, <1>12, <1>13,
     <1>14
  DEF Next, OwnerCommand, DriverCall, FailRecipient, DecideTooLate, RejectOffer

\* A canceled run keeps nothing to decide or dispatch.
LEMMA CanceledStep == TypeOK /\ OffersWellFormed /\ ApprovalsWellFormed /\ OpenOfferIsLive /\ CanceledIsClosed /\ [Next]_vars => CanceledIsClosed'
<1> SUFFICES ASSUME TypeOK, OffersWellFormed, ApprovalsWellFormed, OpenOfferIsLive, CanceledIsClosed, [Next]_vars PROVE CanceledIsClosed'
  OBVIOUS
<1> USE DEF TypeOK, runVars, approvalVars, taskVars, handoffVars, ActiveStatus,
            FinishedStatus, OffersWellFormed, ApprovalsWellFormed, OpenOfferIsLive,
            CanceledIsClosed
<1>1. ASSUME NEW r \in Runs, NEW t \in Tasks, NEW b \in Bots, NEW p \in Providers,
             SubmitTask(r, t, b, p) PROVE CanceledIsClosed'
  BY <1>1 DEF SubmitTask
<1>2. ASSUME NEW s \in Runs, NEW x \in Runs, NEW t \in Tasks, ProposeHandoff(s, t, x)
      PROVE CanceledIsClosed'
  BY <1>2 DEF ProposeHandoff, Unproposed
<1>3. ASSUME NEW a \in Approvals,
             ResolveTooLate(a) \/ AllowApproval(a) \/ DenyApproval(a)
      PROVE CanceledIsClosed'
  BY <1>3 DEF ResolveTooLate, AllowApproval, DenyApproval, Resolvable, FinishRuns,
      ExpireApprovals
<1>4. ASSUME NEW r \in Runs, AnswerInput(r) \/ CancelRun(r) \/ LoadSession(r)
      PROVE CanceledIsClosed'
  BY <1>4 DEF AnswerInput, CancelRun, LoadSession, FinishRuns, CloseOffers,
      OpenOffersTo, CancelIntents, CancelApprovals
<1>5. CASE StopAll
  BY <1>5 DEF StopAll, ActiveRuns, FinishRuns, CloseOffers, OpenOffersTo, CancelIntents,
      CancelApprovals
<1>6. ASSUME NEW r \in Runs,
             \/ MarkRunning(r) \/ BumpAction(r) \/ RequestInput(r) \/ AskQuestion(r)
             \/ ClaimDraft(r) \/ EndLoad(r)
      PROVE CanceledIsClosed'
  BY <1>6 DEF MarkRunning, BumpAction, RequestInput, AskQuestion, ClaimDraft, EndLoad, Active,
      ClaimLaunch
<1>7. ASSUME NEW r \in Runs, NEW a \in Approvals, RequestApproval(r, a)
      PROVE CanceledIsClosed'
  BY <1>7 DEF RequestApproval, Active, IsRecipient
<1>8. ASSUME NEW r \in Runs, Complete(r) \/ FailRun(r) PROVE CanceledIsClosed'
  BY <1>8 DEF Complete, FailRun, Active, FinishRuns, OpenOffersTo
<1>9. ASSUME NEW r \in Runs, NEW o \in {"rejected", "expired"}, CloseOfferOf(r, o)
      PROVE CanceledIsClosed'
  BY <1>9 DEF CloseOfferOf, FinishRuns, CloseOffers, OpenOffersTo, CancelIntents
<1>10. ASSUME NEW r \in Runs, AcceptOffer(r) PROVE CanceledIsClosed'
  BY <1>10 DEF AcceptOffer, Decidable, OpenOffersTo
<1>11. CASE InterruptActive
  BY <1>11 DEF InterruptActive, ActiveRuns
<1>12. CASE Sweep
  BY <1>12 DEF Sweep, FinishRuns, CloseOffers, LapsedOffers, OverdueRuns, LateApprovals,
      ActiveRuns, ExpireApprovals, Expired
<1>13. CASE Tick
  BY <1>13 DEF Tick, Elapse
<1>14. CASE UNCHANGED vars
  BY <1>14 DEF vars
<1> HIDE DEF TypeOK, runVars, approvalVars, taskVars, handoffVars, ActiveStatus,
             FinishedStatus, OffersWellFormed, ApprovalsWellFormed, OpenOfferIsLive,
             CanceledIsClosed
<1> QED
  BY <1>1, <1>2, <1>3, <1>4, <1>5, <1>6, <1>7, <1>8, <1>9, <1>10, <1>11, <1>12, <1>13,
     <1>14
  DEF Next, OwnerCommand, DriverCall, FailRecipient, DecideTooLate, RejectOffer

\* A task gets no run but its first one and the recipient of its only offer.
LEMMA FewRunsStep == TypeOK /\ OffersWellFormed /\ ApprovalsWellFormed /\ TaskHasFewRuns /\ OwnershipFollowsHandoff /\ [Next]_vars => TaskHasFewRuns'
<1> SUFFICES ASSUME TypeOK, OffersWellFormed, ApprovalsWellFormed, TaskHasFewRuns, OwnershipFollowsHandoff, [Next]_vars PROVE TaskHasFewRuns'
  OBVIOUS
<1> USE DEF TypeOK, runVars, approvalVars, taskVars, handoffVars, ActiveStatus,
            FinishedStatus, OffersWellFormed, ApprovalsWellFormed, TaskHasFewRuns,
            OwnershipFollowsHandoff
<1>1. ASSUME NEW r \in Runs, NEW t \in Tasks, NEW b \in Bots, NEW p \in Providers,
             SubmitTask(r, t, b, p) PROVE TaskHasFewRuns'
  BY <1>1, IdentityAssumption DEF SubmitTask
<1>2. ASSUME NEW s \in Runs, NEW x \in Runs, NEW t \in Tasks, ProposeHandoff(s, t, x)
      PROVE TaskHasFewRuns'
  BY <1>2 DEF ProposeHandoff, Unproposed
<1>3. ASSUME NEW a \in Approvals,
             ResolveTooLate(a) \/ AllowApproval(a) \/ DenyApproval(a)
      PROVE TaskHasFewRuns'
  BY <1>3 DEF ResolveTooLate, AllowApproval, DenyApproval, Resolvable, FinishRuns,
      ExpireApprovals
<1>4. ASSUME NEW r \in Runs, AnswerInput(r) \/ CancelRun(r) \/ LoadSession(r)
      PROVE TaskHasFewRuns'
  BY <1>4 DEF AnswerInput, CancelRun, LoadSession, FinishRuns, CloseOffers,
      OpenOffersTo, CancelIntents, CancelApprovals
<1>5. CASE StopAll
  BY <1>5 DEF StopAll, ActiveRuns, FinishRuns, CloseOffers, OpenOffersTo, CancelIntents,
      CancelApprovals
<1>6. ASSUME NEW r \in Runs,
             \/ MarkRunning(r) \/ BumpAction(r) \/ RequestInput(r) \/ AskQuestion(r)
             \/ ClaimDraft(r) \/ EndLoad(r)
      PROVE TaskHasFewRuns'
  BY <1>6 DEF MarkRunning, BumpAction, RequestInput, AskQuestion, ClaimDraft, EndLoad, Active,
      ClaimLaunch
<1>7. ASSUME NEW r \in Runs, NEW a \in Approvals, RequestApproval(r, a)
      PROVE TaskHasFewRuns'
  BY <1>7 DEF RequestApproval, Active, IsRecipient
<1>8. ASSUME NEW r \in Runs, Complete(r) \/ FailRun(r) PROVE TaskHasFewRuns'
  BY <1>8 DEF Complete, FailRun, Active, FinishRuns, OpenOffersTo
<1>9. ASSUME NEW r \in Runs, NEW o \in {"rejected", "expired"}, CloseOfferOf(r, o)
      PROVE TaskHasFewRuns'
  BY <1>9 DEF CloseOfferOf, FinishRuns, CloseOffers, OpenOffersTo, CancelIntents
<1>10. ASSUME NEW r \in Runs, AcceptOffer(r) PROVE TaskHasFewRuns'
  BY <1>10 DEF AcceptOffer, Decidable, OpenOffersTo
<1>11. CASE InterruptActive
  BY <1>11 DEF InterruptActive, ActiveRuns
<1>12. CASE Sweep
  BY <1>12 DEF Sweep, FinishRuns, CloseOffers, LapsedOffers, OverdueRuns, LateApprovals,
      ActiveRuns, ExpireApprovals, Expired
<1>13. CASE Tick
  BY <1>13 DEF Tick, Elapse
<1>14. CASE UNCHANGED vars
  BY <1>14 DEF vars
<1> HIDE DEF TypeOK, runVars, approvalVars, taskVars, handoffVars, ActiveStatus,
             FinishedStatus, OffersWellFormed, ApprovalsWellFormed, TaskHasFewRuns,
             OwnershipFollowsHandoff
<1> QED
  BY <1>1, <1>2, <1>3, <1>4, <1>5, <1>6, <1>7, <1>8, <1>9, <1>10, <1>11, <1>12, <1>13,
     <1>14
  DEF Next, OwnerCommand, DriverCall, FailRecipient, DecideTooLate, RejectOffer

\* The owner of the task follows the state of its offer.
LEMMA OwnerStep == TypeOK /\ OffersWellFormed /\ ApprovalsWellFormed /\ TaskHasFewRuns /\ OwnershipFollowsHandoff /\ [Next]_vars => OwnershipFollowsHandoff'
<1> SUFFICES ASSUME TypeOK, OffersWellFormed, ApprovalsWellFormed, TaskHasFewRuns, OwnershipFollowsHandoff, [Next]_vars PROVE OwnershipFollowsHandoff'
  OBVIOUS
<1> USE DEF TypeOK, runVars, approvalVars, taskVars, handoffVars, ActiveStatus,
            FinishedStatus, OffersWellFormed, ApprovalsWellFormed, TaskHasFewRuns,
            OwnershipFollowsHandoff
<1>1. ASSUME NEW r \in Runs, NEW t \in Tasks, NEW b \in Bots, NEW p \in Providers,
             SubmitTask(r, t, b, p) PROVE OwnershipFollowsHandoff'
  BY <1>1, IdentityAssumption DEF SubmitTask, Bots, Unproposed
<1>2. ASSUME NEW s \in Runs, NEW x \in Runs, NEW t \in Tasks, ProposeHandoff(s, t, x)
      PROVE OwnershipFollowsHandoff'
  BY <1>2 DEF ProposeHandoff, Unproposed
<1>3. ASSUME NEW a \in Approvals,
             ResolveTooLate(a) \/ AllowApproval(a) \/ DenyApproval(a)
      PROVE OwnershipFollowsHandoff'
  BY <1>3 DEF ResolveTooLate, AllowApproval, DenyApproval, Resolvable, FinishRuns,
      ExpireApprovals
<1>4. ASSUME NEW r \in Runs, AnswerInput(r) \/ CancelRun(r) \/ LoadSession(r)
      PROVE OwnershipFollowsHandoff'
  BY <1>4 DEF AnswerInput, CancelRun, LoadSession, FinishRuns, CloseOffers,
      OpenOffersTo, CancelIntents, CancelApprovals
<1>5. CASE StopAll
  BY <1>5 DEF StopAll, ActiveRuns, FinishRuns, CloseOffers, OpenOffersTo, CancelIntents,
      CancelApprovals
<1>6. ASSUME NEW r \in Runs,
             \/ MarkRunning(r) \/ BumpAction(r) \/ RequestInput(r) \/ AskQuestion(r)
             \/ ClaimDraft(r) \/ EndLoad(r)
      PROVE OwnershipFollowsHandoff'
  BY <1>6 DEF MarkRunning, BumpAction, RequestInput, AskQuestion, ClaimDraft, EndLoad, Active,
      ClaimLaunch
<1>7. ASSUME NEW r \in Runs, NEW a \in Approvals, RequestApproval(r, a)
      PROVE OwnershipFollowsHandoff'
  BY <1>7 DEF RequestApproval, Active, IsRecipient
<1>8. ASSUME NEW r \in Runs, Complete(r) \/ FailRun(r) PROVE OwnershipFollowsHandoff'
  BY <1>8 DEF Complete, FailRun, Active, FinishRuns, OpenOffersTo
<1>9. ASSUME NEW r \in Runs, NEW o \in {"rejected", "expired"}, CloseOfferOf(r, o)
      PROVE OwnershipFollowsHandoff'
  BY <1>9 DEF CloseOfferOf, FinishRuns, CloseOffers, OpenOffersTo, CancelIntents
<1>10. ASSUME NEW r \in Runs, AcceptOffer(r) PROVE OwnershipFollowsHandoff'
  BY <1>10, IdentityAssumption DEF AcceptOffer, Decidable, OpenOffersTo
<1>11. CASE InterruptActive
  BY <1>11 DEF InterruptActive, ActiveRuns
<1>12. CASE Sweep
  BY <1>12 DEF Sweep, FinishRuns, CloseOffers, LapsedOffers, OverdueRuns, LateApprovals,
      ActiveRuns, ExpireApprovals, Expired
<1>13. CASE Tick
  BY <1>13 DEF Tick, Elapse
<1>14. CASE UNCHANGED vars
  BY <1>14 DEF vars
<1> HIDE DEF TypeOK, runVars, approvalVars, taskVars, handoffVars, ActiveStatus,
             FinishedStatus, OffersWellFormed, ApprovalsWellFormed, TaskHasFewRuns,
             OwnershipFollowsHandoff
<1> QED
  BY <1>1, <1>2, <1>3, <1>4, <1>5, <1>6, <1>7, <1>8, <1>9, <1>10, <1>11, <1>12, <1>13,
     <1>14
  DEF Next, OwnerCommand, DriverCall, FailRecipient, DecideTooLate, RejectOffer

\* A run that is active in a task with a handoff is the recipient of that handoff.
LEMMA ActiveIsRecipient ==
  ASSUME TypeOK, OffersWellFormed, TaskHasFewRuns, OwnershipFollowsHandoff,
         NEW r \in Runs, status[r] \in ActiveStatus,
         NEW t \in Tasks, handoff[t] # "none", frozen[r].task = t
  PROVE  r = offer[t].recipient
<1>1. handoff[t] \in {"proposed", "accepted", "rejected", "expired"}
  BY DEF TypeOK, HandoffState
<1>2. currentRun[t] \in {offer[t].source, offer[t].recipient}
  BY <1>1 DEF OwnershipFollowsHandoff
<1>3. r \in {offer[t].source, offer[t].recipient}
  BY <1>2 DEF TaskHasFewRuns, ActiveStatus
<1>4. r # offer[t].source
  BY DEF OffersWellFormed, ActiveStatus
<1> QED BY <1>3, <1>4

\* Counting an action of r adds one to r and to its task, and to nothing else.
LEMMA CountEffect ==
  ASSUME TypeOK, NEW r \in Runs, CountAction(r), NEW t \in Tasks, NEW q \in Runs
  PROVE  /\ taskActions[t] \in Nat /\ runActions[q] \in Nat
         /\ taskActions'[t] = taskActions[t] + (IF frozen[r].task = t THEN 1 ELSE 0)
         /\ runActions'[q] = runActions[q] + (IF q = r THEN 1 ELSE 0)
BY LimitAssumption DEF TypeOK, CountAction

\* Counting an action of an active run keeps every reserve.
LEMMA CountReserves ==
  ASSUME TypeOK, OffersWellFormed, TaskHasFewRuns, OwnershipFollowsHandoff,
         HandoffReservesBudget,
         NEW r \in Runs, status[r] \in ActiveStatus, CountAction(r), UNCHANGED <<handoff, offer>>
  PROVE  HandoffReservesBudget'
<1> SUFFICES ASSUME NEW t \in Tasks, handoff[t] # "none"
             PROVE  taskActions'[t] + 2 <= MaxActionsPerTask + runActions'[offer[t].recipient]
  BY DEF HandoffReservesBudget
<1> DEFINE x == offer[t].recipient
<1>1. x \in Runs /\ taskActions[t] + 2 <= MaxActionsPerTask + runActions[x]
  BY DEF OffersWellFormed, HandoffReservesBudget
<1>2. /\ taskActions[t] \in Nat /\ runActions[x] \in Nat
      /\ taskActions'[t] = taskActions[t] + (IF frozen[r].task = t THEN 1 ELSE 0)
      /\ runActions'[x] = runActions[x] + (IF x = r THEN 1 ELSE 0)
  BY <1>1, CountEffect
<1>3. frozen[r].task = t => x = r
  BY ActiveIsRecipient
<1> QED BY <1>1, <1>2, <1>3, LimitAssumption

\* Only the recipient spends actions of a task once its handoff is proposed.
LEMMA ReserveStep == TypeOK /\ OffersWellFormed /\ ApprovalsWellFormed /\ TaskHasFewRuns /\ OwnershipFollowsHandoff /\ HandoffReservesBudget /\ [Next]_vars => HandoffReservesBudget'
<1> SUFFICES ASSUME TypeOK, OffersWellFormed, ApprovalsWellFormed, TaskHasFewRuns, OwnershipFollowsHandoff, HandoffReservesBudget, [Next]_vars PROVE HandoffReservesBudget'
  OBVIOUS
<1> USE DEF TypeOK, runVars, approvalVars, taskVars, handoffVars, ActiveStatus,
            FinishedStatus, OffersWellFormed, ApprovalsWellFormed, TaskHasFewRuns,
            OwnershipFollowsHandoff, HandoffReservesBudget
<1>1. ASSUME NEW r \in Runs, NEW t \in Tasks, NEW b \in Bots, NEW p \in Providers,
             SubmitTask(r, t, b, p) PROVE HandoffReservesBudget'
  BY <1>1, IdentityAssumption DEF SubmitTask
<1>2. ASSUME NEW s \in Runs, NEW x \in Runs, NEW t \in Tasks, ProposeHandoff(s, t, x)
      PROVE HandoffReservesBudget'
  BY <1>2, LimitAssumption DEF ProposeHandoff, Unproposed, HandoffAffordable
<1>3. ASSUME NEW a \in Approvals,
             ResolveTooLate(a) \/ AllowApproval(a) \/ DenyApproval(a)
      PROVE HandoffReservesBudget'
  BY <1>3 DEF ResolveTooLate, AllowApproval, DenyApproval, Resolvable, FinishRuns,
      ExpireApprovals
<1>4. ASSUME NEW r \in Runs, AnswerInput(r) \/ CancelRun(r) \/ LoadSession(r)
      PROVE HandoffReservesBudget'
  BY <1>4 DEF AnswerInput, CancelRun, LoadSession, FinishRuns, CloseOffers,
      OpenOffersTo, CancelIntents, CancelApprovals
<1>5. CASE StopAll
  BY <1>5 DEF StopAll, ActiveRuns, FinishRuns, CloseOffers, OpenOffersTo, CancelIntents,
      CancelApprovals
<1>6. ASSUME NEW r \in Runs,
             \/ MarkRunning(r) \/ BumpAction(r) \/ RequestInput(r) \/ AskQuestion(r)
             \/ ClaimDraft(r) \/ EndLoad(r)
      PROVE HandoffReservesBudget'
  <2>1. CASE MarkRunning(r) \/ RequestInput(r) \/ EndLoad(r)
    BY <2>1 DEF MarkRunning, RequestInput, EndLoad
  <2>2. CASE BumpAction(r) \/ AskQuestion(r)
    BY <2>2, CountReserves DEF BumpAction, AskQuestion, Active
  <2>3. CASE ClaimDraft(r) /\ HasBudget(r)
    BY <2>3, CountReserves DEF ClaimDraft, Active
  <2>4. CASE ClaimDraft(r) /\ ~HasBudget(r)
    BY <2>4 DEF ClaimDraft
  <2> QED BY <1>6, <2>1, <2>2, <2>3, <2>4
<1>7. ASSUME NEW r \in Runs, NEW a \in Approvals, RequestApproval(r, a)
      PROVE HandoffReservesBudget'
  BY <1>7, CountReserves DEF RequestApproval, Active
<1>8. ASSUME NEW r \in Runs, Complete(r) \/ FailRun(r) PROVE HandoffReservesBudget'
  BY <1>8 DEF Complete, FailRun, Active, FinishRuns, OpenOffersTo
<1>9. ASSUME NEW r \in Runs, NEW o \in {"rejected", "expired"}, CloseOfferOf(r, o)
      PROVE HandoffReservesBudget'
  BY <1>9 DEF CloseOfferOf, FinishRuns, CloseOffers, OpenOffersTo, CancelIntents
<1>10. ASSUME NEW r \in Runs, AcceptOffer(r) PROVE HandoffReservesBudget'
  BY <1>10 DEF AcceptOffer, Decidable, OpenOffersTo
<1>11. CASE InterruptActive
  BY <1>11 DEF InterruptActive, ActiveRuns
<1>12. CASE Sweep
  BY <1>12 DEF Sweep, FinishRuns, CloseOffers, LapsedOffers, OverdueRuns, LateApprovals,
      ActiveRuns, ExpireApprovals, Expired
<1>13. CASE Tick
  BY <1>13 DEF Tick, Elapse
<1>14. CASE UNCHANGED vars
  BY <1>14 DEF vars
<1> HIDE DEF TypeOK, runVars, approvalVars, taskVars, handoffVars, ActiveStatus,
             FinishedStatus, OffersWellFormed, ApprovalsWellFormed, TaskHasFewRuns,
             OwnershipFollowsHandoff, HandoffReservesBudget
<1> QED
  BY <1>1, <1>2, <1>3, <1>4, <1>5, <1>6, <1>7, <1>8, <1>9, <1>10, <1>11, <1>12, <1>13,
     <1>14
  DEF Next, OwnerCommand, DriverCall, FailRecipient, DecideTooLate, RejectOffer

-----------------------------------------------------------------------------
(* The theorems about every reachable state                                *)

\* Offers and approvals refer to the runs they may refer to, and an open offer always
\* has a recipient that can still answer (store.ts:2472-2535).
THEOREM OffersAndApprovals == Spec => []References
<1>1. Init => References
  BY DEF Init, References, OffersWellFormed, ApprovalsWellFormed, OpenOfferIsLive
<1>2. TypeOK /\ References /\ [Next]_vars => References'
  BY OfferStep, ApprovalStep, OfferLiveStep DEF References
<1>3. QED
  BY <1>1, <1>2, TypeCorrect, PTL DEF Spec

\* An offer joins two runs of its task that exist (handoff-store.ts:160-296).
THEOREM OffersJoinRuns == Spec => []OffersWellFormed
<1>1. References => OffersWellFormed
  BY DEF References
<1>. QED BY <1>1, OffersAndApprovals, PTL

\* The recipient of a handoff never gets an approval (claude.ts:165-168).
THEOREM ApprovalsHaveRuns == Spec => []ApprovalsWellFormed
<1>1. References => ApprovalsWellFormed
  BY DEF References
<1>. QED BY <1>1, OffersAndApprovals, PTL

\* An open offer has a recipient that can still answer it (handoff-store.ts:80-120).
THEOREM OpenOffersAreLive == Spec => []OpenOfferIsLive
<1>1. References => OpenOfferIsLive
  BY DEF References
<1>. QED BY <1>1, OffersAndApprovals, PTL

\* Stop-all leaves nothing running, loading or waiting, for good (store.ts:1799-1846).
THEOREM StopAllQuiesces == Spec => []StopQuiesces
<1>1. Init => StopQuiesces
  BY DEF Init, StopQuiesces
<1>2. TypeOK /\ References /\ StopQuiesces /\ [Next]_vars => StopQuiesces'
  BY StopStep DEF References
<1>3. QED
  BY <1>1, <1>2, TypeCorrect, OffersAndApprovals, PTL DEF Spec

\* A run that waits for approval has a pending request (store.ts:2244-2301).
THEOREM WaitingIsAnswerable == Spec => []WaitingHasRequest
<1>1. Init => WaitingHasRequest
  BY DEF Init, WaitingHasRequest
<1>2. QED
  BY <1>1, WaitingStep, TypeCorrect, PTL DEF Spec

\* A task row always shows the outcome of its current run (run-lifecycle.ts:71-86).
THEOREM TaskRowFollows == Spec => []TaskFollowsRun
<1>1. Init => TaskFollowsRun
  BY DEF Init, TaskFollowsRun
<1>2. QED
  BY <1>1, TaskStep, TypeCorrect, PTL DEF Spec

\* A launch can be replayed for queued runs only (engine.ts:125-130).
THEOREM LaunchIntent == Spec => []LaunchIntentMatches
<1>1. Init => LaunchIntentMatches
  BY DEF Init, LaunchIntentMatches
<1>2. QED
  BY <1>1, LaunchStep, TypeCorrect, PTL DEF Spec

\* A canceled run has nothing open (store.ts:1783-1788, 1827-1833).
THEOREM CanceledClosed == Spec => []CanceledIsClosed
<1>1. Init => CanceledIsClosed
  BY DEF Init, CanceledIsClosed
<1>2. TypeOK /\ References /\ CanceledIsClosed /\ [Next]_vars => CanceledIsClosed'
  BY CanceledStep DEF References
<1>3. QED
  BY <1>1, <1>2, TypeCorrect, OffersAndApprovals, PTL DEF Spec

\* A task has one attempt and one handoff, and its owner is the one the handoff left
\* it with (handoff-store.ts:80-120, 358-363).
THEOREM Ownership == Spec => []TaskHistory
<1>1. Init => TaskHistory
  BY DEF Init, TaskHistory, TaskHasFewRuns, OwnershipFollowsHandoff
<1>2. TypeOK /\ References /\ TaskHistory /\ [Next]_vars => TaskHistory'
  BY FewRunsStep, OwnerStep DEF References, TaskHistory
<1>3. QED
  BY <1>1, <1>2, TypeCorrect, OffersAndApprovals, PTL DEF Spec

\* The owner of a task is the one its handoff left it with (handoff-store.ts:80-120,
\* 358-363).
THEOREM OwnerFollowsHandoff == Spec => []OwnershipFollowsHandoff
<1>1. TaskHistory => OwnershipFollowsHandoff
  BY DEF TaskHistory
<1>. QED BY <1>1, Ownership, PTL

\* A task gets no run beside its attempt and the two of its handoff
\* (handoff-store.ts:165).
THEOREM TaskHasItsRuns == Spec => []TaskHasFewRuns
<1>1. TaskHistory => TaskHasFewRuns
  BY DEF TaskHistory
<1>. QED BY <1>1, Ownership, PTL

\* The budget for the two prompts of a proposed handoff cannot be spent by another
\* run (handoff-store.ts:174, 342).
THEOREM BudgetReserved == Spec => []HandoffReservesBudget
<1>1. Init => HandoffReservesBudget
  BY DEF Init, HandoffReservesBudget
<1>2. TypeOK /\ References /\ TaskHistory /\ HandoffReservesBudget /\ [Next]_vars
        => HandoffReservesBudget'
  BY ReserveStep DEF References, TaskHistory
<1>3. QED
  BY <1>1, <1>2, TypeCorrect, OffersAndApprovals, Ownership, PTL DEF Spec

-----------------------------------------------------------------------------
(* What no step may do                                                     *)

\* Every transaction that writes approvals.state selects pending rows.
LEMMA DecisionStep == TypeOK /\ [Next]_vars => DecisionStands
<1> SUFFICES ASSUME TypeOK, [Next]_vars PROVE DecisionStands
  OBVIOUS
<1> USE DEF TypeOK, runVars, approvalVars, taskVars, handoffVars, ActiveStatus,
            FinishedStatus, DecisionStands
<1>1. ASSUME NEW r \in Runs, NEW t \in Tasks, NEW b \in Bots, NEW p \in Providers,
             SubmitTask(r, t, b, p) PROVE DecisionStands
  BY <1>1 DEF SubmitTask
<1>2. ASSUME NEW s \in Runs, NEW x \in Runs, NEW t \in Tasks, ProposeHandoff(s, t, x)
      PROVE DecisionStands
  BY <1>2 DEF ProposeHandoff, Unproposed
<1>3. ASSUME NEW a \in Approvals,
             ResolveTooLate(a) \/ AllowApproval(a) \/ DenyApproval(a) PROVE DecisionStands
  BY <1>3 DEF ResolveTooLate, AllowApproval, DenyApproval, Resolvable, FinishRuns,
      ExpireApprovals
<1>4. ASSUME NEW r \in Runs, AnswerInput(r) \/ CancelRun(r) \/ LoadSession(r)
      PROVE DecisionStands
  BY <1>4 DEF AnswerInput, CancelRun, LoadSession, FinishRuns, CloseOffers,
      OpenOffersTo, CancelIntents, CancelApprovals
<1>5. CASE StopAll
  BY <1>5 DEF StopAll, ActiveRuns, FinishRuns, CloseOffers, OpenOffersTo, CancelIntents,
      CancelApprovals
<1>6. ASSUME NEW r \in Runs,
             \/ MarkRunning(r) \/ BumpAction(r) \/ RequestInput(r) \/ AskQuestion(r)
             \/ ClaimDraft(r) \/ EndLoad(r)
      PROVE DecisionStands
  BY <1>6 DEF MarkRunning, BumpAction, RequestInput, AskQuestion, ClaimDraft, EndLoad, Active,
      ClaimLaunch
<1>7. ASSUME NEW r \in Runs, NEW a \in Approvals, RequestApproval(r, a)
      PROVE DecisionStands
  BY <1>7 DEF RequestApproval, Active, IsRecipient
<1>8. ASSUME NEW r \in Runs, Complete(r) \/ FailRun(r) PROVE DecisionStands
  BY <1>8 DEF Complete, FailRun, Active, FinishRuns, OpenOffersTo
<1>9. ASSUME NEW r \in Runs, NEW o \in {"rejected", "expired"}, CloseOfferOf(r, o)
      PROVE DecisionStands
  BY <1>9 DEF CloseOfferOf, FinishRuns, CloseOffers, OpenOffersTo, CancelIntents
<1>10. ASSUME NEW r \in Runs, AcceptOffer(r) PROVE DecisionStands
  BY <1>10 DEF AcceptOffer, Decidable, OpenOffersTo
<1>11. CASE InterruptActive
  BY <1>11 DEF InterruptActive, ActiveRuns
<1>12. CASE Sweep
  BY <1>12 DEF Sweep, FinishRuns, CloseOffers, LapsedOffers, OverdueRuns, LateApprovals,
      ActiveRuns, ExpireApprovals, Expired
<1>13. CASE Tick
  BY <1>13 DEF Tick, Elapse
<1>14. CASE UNCHANGED vars
  BY <1>14 DEF vars
<1> HIDE DEF TypeOK, runVars, approvalVars, taskVars, handoffVars, ActiveStatus,
             FinishedStatus, DecisionStands
<1> QED
  BY <1>1, <1>2, <1>3, <1>4, <1>5, <1>6, <1>7, <1>8, <1>9, <1>10, <1>11, <1>12, <1>13,
     <1>14
  DEF Next, OwnerCommand, DriverCall, FailRecipient, DecideTooLate, RejectOffer

\* Nothing puts an interrupted run back to work.
LEMMA InterruptedStep == TypeOK /\ [Next]_vars => InterruptedStaysDown
<1> SUFFICES ASSUME TypeOK, [Next]_vars PROVE InterruptedStaysDown
  OBVIOUS
<1> USE DEF TypeOK, runVars, approvalVars, taskVars, handoffVars, ActiveStatus,
            FinishedStatus, InterruptedStaysDown
<1>1. ASSUME NEW r \in Runs, NEW t \in Tasks, NEW b \in Bots, NEW p \in Providers,
             SubmitTask(r, t, b, p) PROVE InterruptedStaysDown
  BY <1>1 DEF SubmitTask
<1>2. ASSUME NEW s \in Runs, NEW x \in Runs, NEW t \in Tasks, ProposeHandoff(s, t, x)
      PROVE InterruptedStaysDown
  BY <1>2 DEF ProposeHandoff, Unproposed
<1>3. ASSUME NEW a \in Approvals,
             ResolveTooLate(a) \/ AllowApproval(a) \/ DenyApproval(a)
      PROVE InterruptedStaysDown
  BY <1>3 DEF ResolveTooLate, AllowApproval, DenyApproval, Resolvable, FinishRuns,
      ExpireApprovals
<1>4. ASSUME NEW r \in Runs, AnswerInput(r) \/ CancelRun(r) \/ LoadSession(r)
      PROVE InterruptedStaysDown
  BY <1>4 DEF AnswerInput, CancelRun, LoadSession, FinishRuns, CloseOffers,
      OpenOffersTo, CancelIntents, CancelApprovals
<1>5. CASE StopAll
  BY <1>5 DEF StopAll, ActiveRuns, FinishRuns, CloseOffers, OpenOffersTo, CancelIntents,
      CancelApprovals
<1>6. ASSUME NEW r \in Runs,
             \/ MarkRunning(r) \/ BumpAction(r) \/ RequestInput(r) \/ AskQuestion(r)
             \/ ClaimDraft(r) \/ EndLoad(r)
      PROVE InterruptedStaysDown
  BY <1>6 DEF MarkRunning, BumpAction, RequestInput, AskQuestion, ClaimDraft, EndLoad, Active,
      ClaimLaunch
<1>7. ASSUME NEW r \in Runs, NEW a \in Approvals, RequestApproval(r, a)
      PROVE InterruptedStaysDown
  BY <1>7 DEF RequestApproval, Active, IsRecipient
<1>8. ASSUME NEW r \in Runs, Complete(r) \/ FailRun(r) PROVE InterruptedStaysDown
  BY <1>8 DEF Complete, FailRun, Active, FinishRuns, OpenOffersTo
<1>9. ASSUME NEW r \in Runs, NEW o \in {"rejected", "expired"}, CloseOfferOf(r, o)
      PROVE InterruptedStaysDown
  BY <1>9 DEF CloseOfferOf, FinishRuns, CloseOffers, OpenOffersTo, CancelIntents
<1>10. ASSUME NEW r \in Runs, AcceptOffer(r) PROVE InterruptedStaysDown
  BY <1>10 DEF AcceptOffer, Decidable, OpenOffersTo
<1>11. CASE InterruptActive
  BY <1>11 DEF InterruptActive, ActiveRuns
<1>12. CASE Sweep
  BY <1>12 DEF Sweep, FinishRuns, CloseOffers, LapsedOffers, OverdueRuns, LateApprovals,
      ActiveRuns, ExpireApprovals, Expired
<1>13. CASE Tick
  BY <1>13 DEF Tick, Elapse
<1>14. CASE UNCHANGED vars
  BY <1>14 DEF vars
<1> HIDE DEF TypeOK, runVars, approvalVars, taskVars, handoffVars, ActiveStatus,
             FinishedStatus, InterruptedStaysDown
<1> QED
  BY <1>1, <1>2, <1>3, <1>4, <1>5, <1>6, <1>7, <1>8, <1>9, <1>10, <1>11, <1>12, <1>13,
     <1>14
  DEF Next, OwnerCommand, DriverCall, FailRecipient, DecideTooLate, RejectOffer

\* A finished run is rewritten by the expiry of its own approval only.
LEMMA ResultStep == TypeOK /\ OffersWellFormed /\ ApprovalsWellFormed /\ OpenOfferIsLive /\ [Next]_vars => ResultStands
<1> SUFFICES ASSUME TypeOK, OffersWellFormed, ApprovalsWellFormed, OpenOfferIsLive, [Next]_vars PROVE ResultStands
  OBVIOUS
<1> USE DEF TypeOK, runVars, approvalVars, taskVars, handoffVars, ActiveStatus,
            FinishedStatus, OffersWellFormed, ApprovalsWellFormed, OpenOfferIsLive,
            ResultStands
<1>1. ASSUME NEW r \in Runs, NEW t \in Tasks, NEW b \in Bots, NEW p \in Providers,
             SubmitTask(r, t, b, p) PROVE ResultStands
  BY <1>1 DEF SubmitTask
<1>2. ASSUME NEW s \in Runs, NEW x \in Runs, NEW t \in Tasks, ProposeHandoff(s, t, x)
      PROVE ResultStands
  BY <1>2 DEF ProposeHandoff, Unproposed
<1>3. ASSUME NEW a \in Approvals,
             ResolveTooLate(a) \/ AllowApproval(a) \/ DenyApproval(a) PROVE ResultStands
  BY <1>3 DEF ResolveTooLate, AllowApproval, DenyApproval, Resolvable, FinishRuns,
      ExpireApprovals
<1>4. ASSUME NEW r \in Runs, AnswerInput(r) \/ CancelRun(r) \/ LoadSession(r)
      PROVE ResultStands
  BY <1>4 DEF AnswerInput, CancelRun, LoadSession, FinishRuns, CloseOffers,
      OpenOffersTo, CancelIntents, CancelApprovals
<1>5. CASE StopAll
  BY <1>5 DEF StopAll, ActiveRuns, FinishRuns, CloseOffers, OpenOffersTo, CancelIntents,
      CancelApprovals
<1>6. ASSUME NEW r \in Runs,
             \/ MarkRunning(r) \/ BumpAction(r) \/ RequestInput(r) \/ AskQuestion(r)
             \/ ClaimDraft(r) \/ EndLoad(r)
      PROVE ResultStands
  BY <1>6 DEF MarkRunning, BumpAction, RequestInput, AskQuestion, ClaimDraft, EndLoad, Active,
      ClaimLaunch
<1>7. ASSUME NEW r \in Runs, NEW a \in Approvals, RequestApproval(r, a) PROVE ResultStands
  BY <1>7 DEF RequestApproval, Active, IsRecipient
<1>8. ASSUME NEW r \in Runs, Complete(r) \/ FailRun(r) PROVE ResultStands
  BY <1>8 DEF Complete, FailRun, Active, FinishRuns, OpenOffersTo
<1>9. ASSUME NEW r \in Runs, NEW o \in {"rejected", "expired"}, CloseOfferOf(r, o)
      PROVE ResultStands
  BY <1>9 DEF CloseOfferOf, FinishRuns, CloseOffers, OpenOffersTo, CancelIntents
<1>10. ASSUME NEW r \in Runs, AcceptOffer(r) PROVE ResultStands
  BY <1>10 DEF AcceptOffer, Decidable, OpenOffersTo
<1>11. CASE InterruptActive
  BY <1>11 DEF InterruptActive, ActiveRuns
<1>12. CASE Sweep
  BY <1>12 DEF Sweep, FinishRuns, CloseOffers, LapsedOffers, OverdueRuns, LateApprovals,
      ActiveRuns, ExpireApprovals, Expired
<1>13. CASE Tick
  BY <1>13 DEF Tick, Elapse
<1>14. CASE UNCHANGED vars
  BY <1>14 DEF vars
<1> HIDE DEF TypeOK, runVars, approvalVars, taskVars, handoffVars, ActiveStatus,
             FinishedStatus, OffersWellFormed, ApprovalsWellFormed, OpenOfferIsLive,
             ResultStands
<1> QED
  BY <1>1, <1>2, <1>3, <1>4, <1>5, <1>6, <1>7, <1>8, <1>9, <1>10, <1>11, <1>12, <1>13,
     <1>14
  DEF Next, OwnerCommand, DriverCall, FailRecipient, DecideTooLate, RejectOffer

\* No transaction selects a canceled run.
LEMMA CanceledFinalStep == TypeOK /\ OffersWellFormed /\ ApprovalsWellFormed /\ OpenOfferIsLive /\ CanceledIsClosed /\ [Next]_vars => CanceledStays
<1> SUFFICES ASSUME TypeOK, OffersWellFormed, ApprovalsWellFormed, OpenOfferIsLive, CanceledIsClosed, [Next]_vars PROVE CanceledStays
  OBVIOUS
<1> USE DEF TypeOK, runVars, approvalVars, taskVars, handoffVars, ActiveStatus,
            FinishedStatus, OffersWellFormed, ApprovalsWellFormed, OpenOfferIsLive,
            CanceledIsClosed, CanceledStays
<1>1. ASSUME NEW r \in Runs, NEW t \in Tasks, NEW b \in Bots, NEW p \in Providers,
             SubmitTask(r, t, b, p) PROVE CanceledStays
  BY <1>1 DEF SubmitTask
<1>2. ASSUME NEW s \in Runs, NEW x \in Runs, NEW t \in Tasks, ProposeHandoff(s, t, x)
      PROVE CanceledStays
  BY <1>2 DEF ProposeHandoff, Unproposed
<1>3. ASSUME NEW a \in Approvals,
             ResolveTooLate(a) \/ AllowApproval(a) \/ DenyApproval(a) PROVE CanceledStays
  BY <1>3 DEF ResolveTooLate, AllowApproval, DenyApproval, Resolvable, FinishRuns,
      ExpireApprovals
<1>4. ASSUME NEW r \in Runs, AnswerInput(r) \/ CancelRun(r) \/ LoadSession(r)
      PROVE CanceledStays
  BY <1>4 DEF AnswerInput, CancelRun, LoadSession, FinishRuns, CloseOffers,
      OpenOffersTo, CancelIntents, CancelApprovals
<1>5. CASE StopAll
  BY <1>5 DEF StopAll, ActiveRuns, FinishRuns, CloseOffers, OpenOffersTo, CancelIntents,
      CancelApprovals
<1>6. ASSUME NEW r \in Runs,
             \/ MarkRunning(r) \/ BumpAction(r) \/ RequestInput(r) \/ AskQuestion(r)
             \/ ClaimDraft(r) \/ EndLoad(r)
      PROVE CanceledStays
  BY <1>6 DEF MarkRunning, BumpAction, RequestInput, AskQuestion, ClaimDraft, EndLoad, Active,
      ClaimLaunch
<1>7. ASSUME NEW r \in Runs, NEW a \in Approvals, RequestApproval(r, a)
      PROVE CanceledStays
  BY <1>7 DEF RequestApproval, Active, IsRecipient
<1>8. ASSUME NEW r \in Runs, Complete(r) \/ FailRun(r) PROVE CanceledStays
  BY <1>8 DEF Complete, FailRun, Active, FinishRuns, OpenOffersTo
<1>9. ASSUME NEW r \in Runs, NEW o \in {"rejected", "expired"}, CloseOfferOf(r, o)
      PROVE CanceledStays
  BY <1>9 DEF CloseOfferOf, FinishRuns, CloseOffers, OpenOffersTo, CancelIntents
<1>10. ASSUME NEW r \in Runs, AcceptOffer(r) PROVE CanceledStays
  BY <1>10 DEF AcceptOffer, Decidable, OpenOffersTo
<1>11. CASE InterruptActive
  BY <1>11 DEF InterruptActive, ActiveRuns
<1>12. CASE Sweep
  BY <1>12 DEF Sweep, FinishRuns, CloseOffers, LapsedOffers, OverdueRuns, LateApprovals,
      ActiveRuns, ExpireApprovals, Expired
<1>13. CASE Tick
  BY <1>13 DEF Tick, Elapse
<1>14. CASE UNCHANGED vars
  BY <1>14 DEF vars
<1> HIDE DEF TypeOK, runVars, approvalVars, taskVars, handoffVars, ActiveStatus,
             FinishedStatus, OffersWellFormed, ApprovalsWellFormed, OpenOfferIsLive,
             CanceledIsClosed, CanceledStays
<1> QED
  BY <1>1, <1>2, <1>3, <1>4, <1>5, <1>6, <1>7, <1>8, <1>9, <1>10, <1>11, <1>12, <1>13,
     <1>14
  DEF Next, OwnerCommand, DriverCall, FailRecipient, DecideTooLate, RejectOffer

\* A run is over once it has ended; what failed or was canceled stays so.
Ended(r) == status[r] \notin ActiveStatus \cup {"absent"}

Down(r) == status[r] \in {"failed", "canceled"}

RunMoves ==
  /\ latched => latched'
  /\ \A r \in Runs :
       /\ status[r] # "absent" => status'[r] # "absent"
       /\ Ended(r) => status'[r] \notin ActiveStatus \cup {"absent"}
       /\ Down(r) => status'[r] \in {"failed", "canceled"}
       /\ session[r] => session'[r]

\* Runs come into being and end once, and keep their provider session.
LEMMA RunMovesStep == TypeOK /\ OffersWellFormed /\ ApprovalsWellFormed /\ OpenOfferIsLive /\ [Next]_vars => RunMoves
<1> SUFFICES ASSUME TypeOK, OffersWellFormed, ApprovalsWellFormed, OpenOfferIsLive, [Next]_vars PROVE RunMoves
  OBVIOUS
<1> USE DEF TypeOK, runVars, approvalVars, taskVars, handoffVars, ActiveStatus,
            FinishedStatus, OffersWellFormed, ApprovalsWellFormed, OpenOfferIsLive,
            RunMoves, Ended, Down
<1>1. ASSUME NEW r \in Runs, NEW t \in Tasks, NEW b \in Bots, NEW p \in Providers,
             SubmitTask(r, t, b, p) PROVE RunMoves
  BY <1>1 DEF SubmitTask
<1>2. ASSUME NEW s \in Runs, NEW x \in Runs, NEW t \in Tasks, ProposeHandoff(s, t, x)
      PROVE RunMoves
  BY <1>2 DEF ProposeHandoff, Unproposed
<1>3. ASSUME NEW a \in Approvals,
             ResolveTooLate(a) \/ AllowApproval(a) \/ DenyApproval(a) PROVE RunMoves
  BY <1>3 DEF ResolveTooLate, AllowApproval, DenyApproval, Resolvable, FinishRuns,
      ExpireApprovals
<1>4. ASSUME NEW r \in Runs, AnswerInput(r) \/ CancelRun(r) \/ LoadSession(r)
      PROVE RunMoves
  BY <1>4 DEF AnswerInput, CancelRun, LoadSession, FinishRuns, CloseOffers,
      OpenOffersTo, CancelIntents, CancelApprovals
<1>5. CASE StopAll
  BY <1>5 DEF StopAll, ActiveRuns, FinishRuns, CloseOffers, OpenOffersTo, CancelIntents,
      CancelApprovals
<1>6. ASSUME NEW r \in Runs,
             \/ MarkRunning(r) \/ BumpAction(r) \/ RequestInput(r) \/ AskQuestion(r)
             \/ ClaimDraft(r) \/ EndLoad(r)
      PROVE RunMoves
  BY <1>6 DEF MarkRunning, BumpAction, RequestInput, AskQuestion, ClaimDraft, EndLoad, Active,
      ClaimLaunch
<1>7. ASSUME NEW r \in Runs, NEW a \in Approvals, RequestApproval(r, a)
      PROVE RunMoves
  BY <1>7 DEF RequestApproval, Active, IsRecipient
<1>8. ASSUME NEW r \in Runs, Complete(r) \/ FailRun(r) PROVE RunMoves
  BY <1>8 DEF Complete, FailRun, Active, FinishRuns, OpenOffersTo
<1>9. ASSUME NEW r \in Runs, NEW o \in {"rejected", "expired"}, CloseOfferOf(r, o)
      PROVE RunMoves
  BY <1>9 DEF CloseOfferOf, FinishRuns, CloseOffers, OpenOffersTo, CancelIntents
<1>10. ASSUME NEW r \in Runs, AcceptOffer(r) PROVE RunMoves
  BY <1>10 DEF AcceptOffer, Decidable, OpenOffersTo
<1>11. CASE InterruptActive
  BY <1>11 DEF InterruptActive, ActiveRuns
<1>12. CASE Sweep
  BY <1>12 DEF Sweep, FinishRuns, CloseOffers, LapsedOffers, OverdueRuns, LateApprovals,
      ActiveRuns, ExpireApprovals, Expired
<1>13. CASE Tick
  BY <1>13 DEF Tick, Elapse
<1>14. CASE UNCHANGED vars
  BY <1>14 DEF vars
<1> HIDE DEF TypeOK, runVars, approvalVars, taskVars, handoffVars, ActiveStatus,
             FinishedStatus, OffersWellFormed, ApprovalsWellFormed, OpenOfferIsLive,
             RunMoves, Ended, Down
<1> QED
  BY <1>1, <1>2, <1>3, <1>4, <1>5, <1>6, <1>7, <1>8, <1>9, <1>10, <1>11, <1>12, <1>13,
     <1>14
  DEF Next, OwnerCommand, DriverCall, FailRecipient, DecideTooLate, RejectOffer

\* What a run was started with stands, and so does an accepted handoff with its draft.
RecordsStand ==
  /\ \A r \in Runs : status[r] # "absent" => frozen'[r] = frozen[r]
  /\ \A t \in Tasks : handoff[t] = "accepted" =>
       /\ handoff'[t] = "accepted" /\ offer'[t] = offer[t]
       /\ draft[offer[t].recipient] = "claimed" => draft'[offer[t].recipient] = "claimed"

LEMMA RecordsStandStep == TypeOK /\ OffersWellFormed /\ ApprovalsWellFormed /\ OpenOfferIsLive /\ [Next]_vars => RecordsStand
<1> SUFFICES ASSUME TypeOK, OffersWellFormed, ApprovalsWellFormed, OpenOfferIsLive, [Next]_vars PROVE RecordsStand
  OBVIOUS
<1> USE DEF TypeOK, runVars, approvalVars, taskVars, handoffVars, ActiveStatus,
            FinishedStatus, OffersWellFormed, ApprovalsWellFormed, OpenOfferIsLive,
            RecordsStand
<1>1. ASSUME NEW r \in Runs, NEW t \in Tasks, NEW b \in Bots, NEW p \in Providers,
             SubmitTask(r, t, b, p) PROVE RecordsStand
  BY <1>1 DEF SubmitTask
<1>2. ASSUME NEW s \in Runs, NEW x \in Runs, NEW t \in Tasks, ProposeHandoff(s, t, x)
      PROVE RecordsStand
  BY <1>2 DEF ProposeHandoff, Unproposed
<1>3. ASSUME NEW a \in Approvals,
             ResolveTooLate(a) \/ AllowApproval(a) \/ DenyApproval(a) PROVE RecordsStand
  BY <1>3 DEF ResolveTooLate, AllowApproval, DenyApproval, Resolvable, FinishRuns,
      ExpireApprovals
<1>4. ASSUME NEW r \in Runs, AnswerInput(r) \/ CancelRun(r) \/ LoadSession(r)
      PROVE RecordsStand
  BY <1>4 DEF AnswerInput, CancelRun, LoadSession, FinishRuns, CloseOffers,
      OpenOffersTo, CancelIntents, CancelApprovals
<1>5. CASE StopAll
  BY <1>5 DEF StopAll, ActiveRuns, FinishRuns, CloseOffers, OpenOffersTo, CancelIntents,
      CancelApprovals
<1>6. ASSUME NEW r \in Runs,
             \/ MarkRunning(r) \/ BumpAction(r) \/ RequestInput(r) \/ AskQuestion(r)
             \/ ClaimDraft(r) \/ EndLoad(r)
      PROVE RecordsStand
  BY <1>6 DEF MarkRunning, BumpAction, RequestInput, AskQuestion, ClaimDraft, EndLoad, Active,
      ClaimLaunch
<1>7. ASSUME NEW r \in Runs, NEW a \in Approvals, RequestApproval(r, a)
      PROVE RecordsStand
  BY <1>7 DEF RequestApproval, Active, IsRecipient
<1>8. ASSUME NEW r \in Runs, Complete(r) \/ FailRun(r) PROVE RecordsStand
  BY <1>8 DEF Complete, FailRun, Active, FinishRuns, OpenOffersTo
<1>9. ASSUME NEW r \in Runs, NEW o \in {"rejected", "expired"}, CloseOfferOf(r, o)
      PROVE RecordsStand
  BY <1>9 DEF CloseOfferOf, FinishRuns, CloseOffers, OpenOffersTo, CancelIntents
<1>10. ASSUME NEW r \in Runs, AcceptOffer(r) PROVE RecordsStand
  BY <1>10 DEF AcceptOffer, Decidable, OpenOffersTo
<1>11. CASE InterruptActive
  BY <1>11 DEF InterruptActive, ActiveRuns
<1>12. CASE Sweep
  BY <1>12 DEF Sweep, FinishRuns, CloseOffers, LapsedOffers, OverdueRuns, LateApprovals,
      ActiveRuns, ExpireApprovals, Expired
<1>13. CASE Tick
  BY <1>13 DEF Tick, Elapse
<1>14. CASE UNCHANGED vars
  BY <1>14 DEF vars
<1> HIDE DEF TypeOK, runVars, approvalVars, taskVars, handoffVars, ActiveStatus,
             FinishedStatus, OffersWellFormed, ApprovalsWellFormed, OpenOfferIsLive,
             RecordsStand
<1> QED
  BY <1>1, <1>2, <1>3, <1>4, <1>5, <1>6, <1>7, <1>8, <1>9, <1>10, <1>11, <1>12, <1>13,
     <1>14
  DEF Next, OwnerCommand, DriverCall, FailRecipient, DecideTooLate, RejectOffer

\* Only a run that has ended is shown as loading.
LoadingIsOver == \A r \in Runs : loading[r] => Ended(r)

\* A load needs a provider session and a run that is not active, and the run stays
\* over while it loads.
LEMMA LoadingStep == TypeOK /\ OffersWellFormed /\ ApprovalsWellFormed /\ OpenOfferIsLive /\ LaunchIntentMatches /\ LoadingIsOver /\ [Next]_vars => LoadingIsOver'
<1> SUFFICES ASSUME TypeOK, OffersWellFormed, ApprovalsWellFormed, OpenOfferIsLive, LaunchIntentMatches, LoadingIsOver, [Next]_vars PROVE LoadingIsOver'
  OBVIOUS
<1> USE DEF TypeOK, runVars, approvalVars, taskVars, handoffVars, ActiveStatus, RunStatus,
            FinishedStatus, OffersWellFormed, ApprovalsWellFormed, OpenOfferIsLive,
            LaunchIntentMatches, LoadingIsOver, Ended
<1>1. ASSUME NEW r \in Runs, NEW t \in Tasks, NEW b \in Bots, NEW p \in Providers,
             SubmitTask(r, t, b, p) PROVE LoadingIsOver'
  BY <1>1 DEF SubmitTask
<1>2. ASSUME NEW s \in Runs, NEW x \in Runs, NEW t \in Tasks, ProposeHandoff(s, t, x)
      PROVE LoadingIsOver'
  BY <1>2 DEF ProposeHandoff, Unproposed
<1>3. ASSUME NEW a \in Approvals,
             ResolveTooLate(a) \/ AllowApproval(a) \/ DenyApproval(a) PROVE LoadingIsOver'
  BY <1>3 DEF ResolveTooLate, AllowApproval, DenyApproval, Resolvable, FinishRuns,
      ExpireApprovals
<1>4. ASSUME NEW r \in Runs, AnswerInput(r) \/ CancelRun(r) \/ LoadSession(r)
      PROVE LoadingIsOver'
  BY <1>4 DEF AnswerInput, CancelRun, LoadSession, FinishRuns, CloseOffers,
      OpenOffersTo, CancelIntents, CancelApprovals
<1>5. CASE StopAll
  BY <1>5 DEF StopAll, ActiveRuns, FinishRuns, CloseOffers, OpenOffersTo, CancelIntents,
      CancelApprovals
<1>6. ASSUME NEW r \in Runs,
             \/ MarkRunning(r) \/ BumpAction(r) \/ RequestInput(r) \/ AskQuestion(r)
             \/ ClaimDraft(r) \/ EndLoad(r)
      PROVE LoadingIsOver'
  BY <1>6 DEF MarkRunning, BumpAction, RequestInput, AskQuestion, ClaimDraft, EndLoad, Active,
      ClaimLaunch
<1>7. ASSUME NEW r \in Runs, NEW a \in Approvals, RequestApproval(r, a)
      PROVE LoadingIsOver'
  BY <1>7 DEF RequestApproval, Active, IsRecipient
<1>8. ASSUME NEW r \in Runs, Complete(r) \/ FailRun(r) PROVE LoadingIsOver'
  BY <1>8 DEF Complete, FailRun, Active, FinishRuns, OpenOffersTo
<1>9. ASSUME NEW r \in Runs, NEW o \in {"rejected", "expired"}, CloseOfferOf(r, o)
      PROVE LoadingIsOver'
  BY <1>9 DEF CloseOfferOf, FinishRuns, CloseOffers, OpenOffersTo, CancelIntents
<1>10. ASSUME NEW r \in Runs, AcceptOffer(r) PROVE LoadingIsOver'
  BY <1>10 DEF AcceptOffer, Decidable, OpenOffersTo
<1>11. CASE InterruptActive
  BY <1>11 DEF InterruptActive, ActiveRuns
<1>12. CASE Sweep
  BY <1>12 DEF Sweep, FinishRuns, CloseOffers, LapsedOffers, OverdueRuns, LateApprovals,
      ActiveRuns, ExpireApprovals, Expired
<1>13. CASE Tick
  BY <1>13 DEF Tick, Elapse
<1>14. CASE UNCHANGED vars
  BY <1>14 DEF vars
<1> HIDE DEF TypeOK, runVars, approvalVars, taskVars, handoffVars, ActiveStatus, RunStatus,
             FinishedStatus, OffersWellFormed, ApprovalsWellFormed, OpenOfferIsLive,
             LaunchIntentMatches, LoadingIsOver, Ended
<1> QED
  BY <1>1, <1>2, <1>3, <1>4, <1>5, <1>6, <1>7, <1>8, <1>9, <1>10, <1>11, <1>12, <1>13,
     <1>14
  DEF Next, OwnerCommand, DriverCall, FailRecipient, DecideTooLate, RejectOffer

\* A run that does not exist has no launch intent.
AbsentIsBare == \A r \in Runs : status[r] = "absent" => launch[r] = "none"

\* Runs and their launch intents are created together.
LEMMA AbsentStep == TypeOK /\ OffersWellFormed /\ ApprovalsWellFormed /\ OpenOfferIsLive /\ AbsentIsBare /\ [Next]_vars => AbsentIsBare'
<1> SUFFICES ASSUME TypeOK, OffersWellFormed, ApprovalsWellFormed, OpenOfferIsLive, AbsentIsBare, [Next]_vars PROVE AbsentIsBare'
  OBVIOUS
<1> USE DEF TypeOK, runVars, approvalVars, taskVars, handoffVars, ActiveStatus, RunStatus,
            FinishedStatus, OffersWellFormed, ApprovalsWellFormed, OpenOfferIsLive,
            AbsentIsBare
<1>1. ASSUME NEW r \in Runs, NEW t \in Tasks, NEW b \in Bots, NEW p \in Providers,
             SubmitTask(r, t, b, p) PROVE AbsentIsBare'
  BY <1>1 DEF SubmitTask
<1>2. ASSUME NEW s \in Runs, NEW x \in Runs, NEW t \in Tasks, ProposeHandoff(s, t, x)
      PROVE AbsentIsBare'
  BY <1>2 DEF ProposeHandoff, Unproposed
<1>3. ASSUME NEW a \in Approvals,
             ResolveTooLate(a) \/ AllowApproval(a) \/ DenyApproval(a) PROVE AbsentIsBare'
  BY <1>3 DEF ResolveTooLate, AllowApproval, DenyApproval, Resolvable, FinishRuns,
      ExpireApprovals
<1>4. ASSUME NEW r \in Runs, AnswerInput(r) \/ CancelRun(r) \/ LoadSession(r)
      PROVE AbsentIsBare'
  BY <1>4 DEF AnswerInput, CancelRun, LoadSession, FinishRuns, CloseOffers,
      OpenOffersTo, CancelIntents, CancelApprovals
<1>5. CASE StopAll
  BY <1>5 DEF StopAll, ActiveRuns, FinishRuns, CloseOffers, OpenOffersTo, CancelIntents,
      CancelApprovals
<1>6. ASSUME NEW r \in Runs,
             \/ MarkRunning(r) \/ BumpAction(r) \/ RequestInput(r) \/ AskQuestion(r)
             \/ ClaimDraft(r) \/ EndLoad(r)
      PROVE AbsentIsBare'
  BY <1>6 DEF MarkRunning, BumpAction, RequestInput, AskQuestion, ClaimDraft, EndLoad, Active,
      ClaimLaunch
<1>7. ASSUME NEW r \in Runs, NEW a \in Approvals, RequestApproval(r, a)
      PROVE AbsentIsBare'
  BY <1>7 DEF RequestApproval, Active, IsRecipient
<1>8. ASSUME NEW r \in Runs, Complete(r) \/ FailRun(r) PROVE AbsentIsBare'
  BY <1>8 DEF Complete, FailRun, Active, FinishRuns, OpenOffersTo
<1>9. ASSUME NEW r \in Runs, NEW o \in {"rejected", "expired"}, CloseOfferOf(r, o)
      PROVE AbsentIsBare'
  BY <1>9 DEF CloseOfferOf, FinishRuns, CloseOffers, OpenOffersTo, CancelIntents
<1>10. ASSUME NEW r \in Runs, AcceptOffer(r) PROVE AbsentIsBare'
  BY <1>10 DEF AcceptOffer, Decidable, OpenOffersTo
<1>11. CASE InterruptActive
  BY <1>11 DEF InterruptActive, ActiveRuns
<1>12. CASE Sweep
  BY <1>12 DEF Sweep, FinishRuns, CloseOffers, LapsedOffers, OverdueRuns, LateApprovals,
      ActiveRuns, ExpireApprovals, Expired
<1>13. CASE Tick
  BY <1>13 DEF Tick, Elapse
<1>14. CASE UNCHANGED vars
  BY <1>14 DEF vars
<1> HIDE DEF TypeOK, runVars, approvalVars, taskVars, handoffVars, ActiveStatus, RunStatus,
             FinishedStatus, OffersWellFormed, ApprovalsWellFormed, OpenOfferIsLive,
             AbsentIsBare
<1> QED
  BY <1>1, <1>2, <1>3, <1>4, <1>5, <1>6, <1>7, <1>8, <1>9, <1>10, <1>11, <1>12, <1>13,
     <1>14
  DEF Next, OwnerCommand, DriverCall, FailRecipient, DecideTooLate, RejectOffer

\* Only an acceptance in time moves a task.
LEMMA OwnershipMoveStep == TypeOK /\ OwnershipFollowsHandoff /\ [Next]_vars => OwnershipStep
<1> SUFFICES ASSUME TypeOK, OwnershipFollowsHandoff, [Next]_vars PROVE OwnershipStep
  OBVIOUS
<1> USE DEF TypeOK, runVars, approvalVars, taskVars, handoffVars, ActiveStatus,
            FinishedStatus, OwnershipFollowsHandoff, OwnershipStep
<1>1. ASSUME NEW r \in Runs, NEW t \in Tasks, NEW b \in Bots, NEW p \in Providers,
             SubmitTask(r, t, b, p) PROVE OwnershipStep
  BY <1>1 DEF SubmitTask
<1>2. ASSUME NEW s \in Runs, NEW x \in Runs, NEW t \in Tasks, ProposeHandoff(s, t, x)
      PROVE OwnershipStep
  BY <1>2 DEF ProposeHandoff, Unproposed
<1>3. ASSUME NEW a \in Approvals,
             ResolveTooLate(a) \/ AllowApproval(a) \/ DenyApproval(a) PROVE OwnershipStep
  BY <1>3 DEF ResolveTooLate, AllowApproval, DenyApproval, Resolvable, FinishRuns,
      ExpireApprovals
<1>4. ASSUME NEW r \in Runs, AnswerInput(r) \/ CancelRun(r) \/ LoadSession(r)
      PROVE OwnershipStep
  BY <1>4 DEF AnswerInput, CancelRun, LoadSession, FinishRuns, CloseOffers,
      OpenOffersTo, CancelIntents, CancelApprovals
<1>5. CASE StopAll
  BY <1>5 DEF StopAll, ActiveRuns, FinishRuns, CloseOffers, OpenOffersTo, CancelIntents,
      CancelApprovals
<1>6. ASSUME NEW r \in Runs,
             \/ MarkRunning(r) \/ BumpAction(r) \/ RequestInput(r) \/ AskQuestion(r)
             \/ ClaimDraft(r) \/ EndLoad(r)
      PROVE OwnershipStep
  BY <1>6 DEF MarkRunning, BumpAction, RequestInput, AskQuestion, ClaimDraft, EndLoad, Active,
      ClaimLaunch
<1>7. ASSUME NEW r \in Runs, NEW a \in Approvals, RequestApproval(r, a)
      PROVE OwnershipStep
  BY <1>7 DEF RequestApproval, Active, IsRecipient
<1>8. ASSUME NEW r \in Runs, Complete(r) \/ FailRun(r) PROVE OwnershipStep
  BY <1>8 DEF Complete, FailRun, Active, FinishRuns, OpenOffersTo
<1>9. ASSUME NEW r \in Runs, NEW o \in {"rejected", "expired"}, CloseOfferOf(r, o)
      PROVE OwnershipStep
  BY <1>9 DEF CloseOfferOf, FinishRuns, CloseOffers, OpenOffersTo, CancelIntents
<1>10. ASSUME NEW r \in Runs, AcceptOffer(r) PROVE OwnershipStep
  BY <1>10 DEF AcceptOffer, Decidable, OpenOffersTo, Expired
<1>11. CASE InterruptActive
  BY <1>11 DEF InterruptActive, ActiveRuns
<1>12. CASE Sweep
  BY <1>12 DEF Sweep, FinishRuns, CloseOffers, LapsedOffers, OverdueRuns, LateApprovals,
      ActiveRuns, ExpireApprovals, Expired
<1>13. CASE Tick
  BY <1>13 DEF Tick, Elapse
<1>14. CASE UNCHANGED vars
  BY <1>14 DEF vars
<1> HIDE DEF TypeOK, runVars, approvalVars, taskVars, handoffVars, ActiveStatus,
             FinishedStatus, OwnershipFollowsHandoff, OwnershipStep
<1> QED
  BY <1>1, <1>2, <1>3, <1>4, <1>5, <1>6, <1>7, <1>8, <1>9, <1>10, <1>11, <1>12, <1>13,
     <1>14
  DEF Next, OwnerCommand, DriverCall, FailRecipient, DecideTooLate, RejectOffer

\* No second command, sweep, cancellation or stop revises a decision
\* (store.ts:1551, 1589).
THEOREM DecisionsAreFinal == Spec => DecidedOnce
<1>1. TypeOK /\ [Next]_vars => DecisionStands
  BY DecisionStep
<1>2. TypeOK /\ [Next]_vars => [DecisionStands]_vars
  BY <1>1
<1>3. QED
  BY <1>2, TypeCorrect, PTL DEF Spec, DecidedOnce

\* No run continues over a restart of the daemon (store.ts:2116-2157).
THEOREM RestartsAreFinal == Spec => InterruptedNeverResumes
<1>1. TypeOK /\ [Next]_vars => InterruptedStaysDown
  BY InterruptedStep
<1>2. TypeOK /\ [Next]_vars => [InterruptedStaysDown]_vars
  BY <1>1
<1>3. QED
  BY <1>2, TypeCorrect, PTL DEF Spec, InterruptedNeverResumes

\* Only a late approval expiry rewrites a result (store.ts:2520-2529).
THEOREM ResultsAreRewrittenByExpiryOnly == Spec => OnlyLateExpiryRewrites
<1>1. TypeOK /\ References /\ [Next]_vars => ResultStands
  BY ResultStep DEF References
<1>2. TypeOK /\ References /\ [Next]_vars => [ResultStands]_vars
  BY <1>1
<1>3. QED
  BY <1>2, TypeCorrect, OffersAndApprovals, PTL DEF Spec, OnlyLateExpiryRewrites

\* Nothing revives or fails a canceled run (store.ts:1728-1797).
THEOREM CancellationIsFinal == Spec => CanceledIsFinal
<1>1. TypeOK /\ References /\ CanceledIsClosed /\ [Next]_vars => CanceledStays
  BY CanceledFinalStep DEF References
<1>2. TypeOK /\ References /\ CanceledIsClosed /\ [Next]_vars => [CanceledStays]_vars
  BY <1>1
<1>3. QED
  BY <1>2, TypeCorrect, OffersAndApprovals, CanceledClosed, PTL DEF Spec, CanceledIsFinal

\* Ownership moves once and never late (handoff-store.ts:301-371).
THEOREM OwnershipMoves == Spec => OwnershipMovesOnce
<1>1. TypeOK /\ TaskHistory /\ [Next]_vars => OwnershipStep
  BY OwnershipMoveStep DEF TaskHistory
<1>2. TypeOK /\ TaskHistory /\ [Next]_vars => [OwnershipStep]_vars
  BY <1>1
<1>3. QED
  BY <1>2, TypeCorrect, Ownership, PTL DEF Spec, OwnershipMovesOnce

\* The rows that repeat a run's status never contradict it (run-lifecycle.ts:64-95;
\* store.ts:1783-1788, 2236-2301).
THEOREM RowsRepeatRuns == Spec => []RowsAgree
<1>1. TaskFollowsRun /\ LaunchIntentMatches /\ WaitingHasRequest /\ CanceledIsClosed
        => RowsAgree
  BY DEF RowsAgree
<1>2. QED
  BY <1>1, TaskRowFollows, LaunchIntent, WaitingIsAnswerable, CanceledClosed, PTL

\* What ended a run stands, up to the overwrite by a late expiry (store.ts:2116-2165,
\* 2520-2529).
THEOREM EndingsStand == Spec => EndingsHold
BY ResultsAreRewrittenByExpiryOnly, CancellationIsFinal, RestartsAreFinal DEF EndingsHold

\* Decisions on approvals and the move of a task to the specialist are taken once
\* (store.ts:1551, 1589; handoff-store.ts:308-363).
THEOREM DecisionsStandForEver == Spec => DecisionsHold
BY DecisionsAreFinal, OwnershipMoves DEF DecisionsHold

\* Whatever is loaded has ended and stays so: a load never competes with a turn
\* (store.ts:1348-1375).
THEOREM LoadsAreOver == Spec => []LoadingIsOver
<1>1. Init => LoadingIsOver
  BY DEF Init, LoadingIsOver
<1>2. TypeOK /\ References /\ LaunchIntentMatches /\ LoadingIsOver /\ [Next]_vars
        => LoadingIsOver'
  BY LoadingStep DEF References
<1>3. QED
  BY <1>1, <1>2, TypeCorrect, OffersAndApprovals, LaunchIntent, PTL DEF Spec

-----------------------------------------------------------------------------
(* What the drivers rely on                                                *)

LEMMA AbsentRunsAreBare == Spec => []AbsentIsBare
<1>1. Init => AbsentIsBare
  BY DEF Init, AbsentIsBare
<1>2. TypeOK /\ References /\ AbsentIsBare /\ [Next]_vars => AbsentIsBare'
  BY AbsentStep DEF References
<1>3. QED
  BY <1>1, <1>2, TypeCorrect, OffersAndApprovals, PTL DEF Spec

\* What holds of the rows in every state
StoreInv ==
  TypeOK /\ References /\ StopQuiesces /\ RowsAgree /\ LoadingIsOver /\ AbsentIsBare

LEMMA StoreHolds == Spec => []StoreInv
<1>1. TypeOK /\ References /\ StopQuiesces /\ RowsAgree /\ LoadingIsOver /\ AbsentIsBare
        => StoreInv
  BY DEF StoreInv
<1>. QED
  BY <1>1, TypeCorrect, OffersAndApprovals, StopAllQuiesces, RowsRepeatRuns, LoadsAreOver,
     AbsentRunsAreBare, PTL

\* What every step does to runs and decisions
LEMMA StoreMoves ==
  ASSUME StoreInv, [Next]_vars
  PROVE  RunMoves /\ DecisionStands /\ RecordsStand
<1>1. TypeOK /\ OffersWellFormed /\ ApprovalsWellFormed /\ OpenOfferIsLive
  BY DEF StoreInv, References
<1>. QED BY <1>1, RunMovesStep, DecisionStep, RecordsStandStep

\* A run that occupies a slot is not stopped: stop-all has emptied the slots.
LEMMA ActiveIsServed ==
  ASSUME StoreInv, NEW r \in Runs, status[r] \in ActiveStatus
  PROVE  Active(r) /\ ~latched
BY DEF StoreInv, StopQuiesces, Busy, Active

=============================================================================
