SPECIFICATION TrackerSpec
CONSTANTS
  Dest = {d1}
  Window = 4
  Threshold = 1
  Coalesce = 2
  MaxClock = 5
PROPERTIES
  QuietBeforeCount
