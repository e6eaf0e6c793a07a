SPECIFICATION FilesSpec
CONSTANTS
  Key = {"k1", "k2"}
  Text = {"t1"}
  MaxRuns = 2
  MaxEdits = 0
  MaxDeaths = 0
INVARIANTS
  SignedByNamed
CHECK_DEADLOCK FALSE
