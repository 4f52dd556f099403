SPECIFICATION FairDriverSpec

CONSTANTS
  Runs = {r1, r2}
  Tasks = {t1}
  Approvals = {a1, a2}
  NoRun = NoRun
  NoTask = NoTask
  Providers = {"native"}
  MaxActiveRuns = 1
  MaxActiveRunsPerBot = 1
  MaxActionsPerRun = 2
  MaxActionsPerTask = 2
  RunDeadline = 1
  ApprovalTtl = 1
  HandoffTtl = 1
  Drives = {d1, d2}
  MayReplay = TRUE

INVARIANTS
  ConcurrencyBound
  RanWasAllowed
  SessionsFitRuns

PROPERTIES
  SessionsEnd
