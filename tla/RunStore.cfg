SPECIFICATION FairSpec

CONSTANTS
  Runs = {r1, r2, r3}
  Tasks = {t1}
  Approvals = {a1, a2}
  NoRun = NoRun
  NoTask = NoTask
  Providers = {"native", "fake"}
  MaxActiveRuns = 2
  MaxActiveRunsPerBot = 1
  MaxActionsPerRun = 2
  MaxActionsPerTask = 3
  RunDeadline = 2
  ApprovalTtl = 1
  HandoffTtl = 1

INVARIANTS
  TypeOK
  StopQuiesces
  References
  TaskHistory
  RowsAgree
  HandoffReservesBudget

PROPERTIES
  EndingsHold
  DecisionsHold
  EverythingSettles
