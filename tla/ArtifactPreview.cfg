SPECIFICATION FairSpec

CONSTANTS
  Artifacts = {a1, a2}
  Large = {a2}
  Requests = {q1, q2}
  Chunks = 2
  None = None

INVARIANTS
  ServedIsCommitted
  ShownIsChosen

PROPERTIES
  PreviewSettles
