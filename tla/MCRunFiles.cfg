SPECIFICATION FilesSpec

CONSTANTS
  Runs = {r1, r2, r3}
  Fakes = {r3}
  NoRun = NoRun
  MaxDrives = 2

SYMMETRY Symmetry

INVARIANTS
  NothingChangedGoesOut
  FilesFitRows
