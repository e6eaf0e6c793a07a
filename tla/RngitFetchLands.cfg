SPECIFICATION FetchSpec
CONSTANTS
  Command = {}
  Git = Git
  Branch = {main, dev}
  HeadBranch = main
  Garbled = Garbled
  Tip = {{1}}
  MaxStarts = 1
  MaxMoves = 1
  MaxFaults = 0
INVARIANTS
  FetchLands
CHECK_DEADLOCK FALSE
