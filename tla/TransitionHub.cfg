SPECIFICATION FairHubSpec

CONSTANTS
  Subscribers = {s1, s2}
  ReplayLimit = 2
  QueueLimit = 1
  MaxCursor = 3

CHECK_DEADLOCK FALSE

INVARIANTS
  StreamsAccounted

PROPERTIES
  HubIsFeed
  EveryTransitionArrives
