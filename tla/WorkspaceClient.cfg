SPECIFICATION FairClientSpec

CONSTANTS
  MaxCursor = 5
  ReplayLimit = 2
  MaxRegressions = 3

CHECK_DEADLOCK FALSE

INVARIANTS
  FollowsOnce
  SnapshotIsFresh

PROPERTIES
  ChangesAreShown
