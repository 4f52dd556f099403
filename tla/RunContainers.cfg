SPECIFICATION Spec

CONSTANTS
  Runs = {r1, r2}
  ClaudeRuns = {r1}
  NoRun = NoRun
  DockerFails = TRUE
  MayReplay = TRUE

INVARIANTS
  NetworkServesSession
  NothingForgotten
  EndedHasNoSession

PROPERTIES
  CleanAtStart
