SPECIFICATION RnguardSpec
CONSTANTS
  Dest = {d1}
  Window = 3
  Threshold = 1
  Coalesce = 1
  Once = NoLimit
  NoLimit = NoLimit
  DryRun = FALSE
  PruneInterval = 2
  StreamCap = 2
  Noise = Noise
  MaxTime = 4
PROPERTIES
  CeilingEnforced
