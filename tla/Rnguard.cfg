SPECIFICATION GuardSpec
CONSTANTS
  Part = {"table", "program"}
  Dest = {d1, d2}
  Window = 3
  Threshold = 1
  Coalesce = 2
  \* AnnounceTracker
  MaxClock = 10
  \* Rnguard
  Once = 2
  NoLimit = NoLimit
  DryRun = FALSE
  PruneInterval = 2
  StreamCap = 2
  Noise = Noise
  MaxTime = 6
INVARIANTS
  TrackerTypeOK
  WindowExact
  FloodFlagged
  CoalesceCeiling
  RnguardTypeOK
  TableFresh
  OnceSoon
PROPERTIES
  AlarmSpec
  ReportsApart
  StreamRecovers
