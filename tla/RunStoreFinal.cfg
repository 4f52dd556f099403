SPECIFICATION Spec

CONSTANTS
  Runs = {r1, r2}
  Tasks = {t1}
  Approvals = {a1}
  NoRun = NoRun
  NoTask = NoTask
  Providers = {"native"}
  MaxActiveRuns = 2
  MaxActiveRunsPerBot = 1
  MaxActionsPerRun = 1
  MaxActionsPerTask = 3
  RunDeadline = 2
  ApprovalTtl = 1
  HandoffTtl = 1

PROPERTIES
  FinishedIsFinal
