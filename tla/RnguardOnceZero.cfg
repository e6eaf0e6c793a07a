SPECIFICATION RnguardSpec
CONSTANTS
  Dest = {d1}
  Window = 3
  Threshold = 1
  Coalesce = 1
  Once = 0
  NoLimit = NoLimit
  DryRun = FALSE
  PruneInterval = 2
  StreamCap = 2
  Noise = Noise
  MaxTime = 4
INVARIANTS
  ZeroRunsForever
