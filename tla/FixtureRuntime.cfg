SPECIFICATION FairFixtureSpec

CONSTANTS
  Conns = {c1, c2, c3, c4}
  MaxRelays = 3
  DockerMayFail = TRUE
  MayHang = TRUE

CHECK_DEADLOCK FALSE

INVARIANTS
  NothingEscapes

PROPERTIES
  LaunchesEnd
