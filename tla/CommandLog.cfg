SPECIFICATION FairSpec

CONSTANTS
  PageKeys = {p1}
  ApiKeys = {a1}
  Bodies = {submit, cancel}
  Gated = {submit}
  Launching = {submit}
  Requests = {1, 2}
  None = None
  Restarts = TRUE

CHECK_DEADLOCK FALSE

INVARIANTS
  AdmittedWasReady

PROPERTIES
  ImplementsOnce
  RequestEnds
