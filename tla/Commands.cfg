SPECIFICATION CommandsSpec
CONSTANTS
  Part = {"fetch", "perf", "initiator", "rpc", "files", "identity"}
  \* RngitFetch
  Command = {c1, c2}
  Git = Git
  Branch = {main, dev}
  HeadBranch = main
  Garbled = Garbled
  Tip = {{1}, {1, 2}}
  MaxStarts = 2
  MaxMoves = 2
  MaxFaults = 1
  \* Rnperf
  Initiator = {i1}
  Others = {o}
  MaxForeign = 1
  Capacity = 2
  MaxPackets = 2
  MaxAsks = 2
  MaxLosses = 1
  \* RnshInitiator
  Input = {"newline", "~", ".", "L"}
  MaxFrame = 1
  MinPress = 2
  Codes = {0, 3}
  EventRoom = 1
  MaxRead = 2
  MaxTyped = 4
  MaxSaid = 2
  \* InstanceRpc
  Dest = {d1}
  Asked = d1
  Clients = {"rnpath", "rnmcp", "rnguard"}
  Ports = {"instance", "other key", "no key"}
  MaxJobs = 2
  MaxTraffic = 1
  \* RnidFiles
  Key = {"k1", "k2"}
  Text = {"t1", "t2"}
  MaxRuns = 2
  MaxEdits = 1
  MaxDeaths = 1
  \* IdentityFile
  Runner = {r1, r2}
  Identity = {k1, k2, k3}
  MaxDies = 2
SYMMETRY Symmetry
INVARIANTS CommandsTypeOK CloneFaithful ResultHonest InputFiltered OutputGapFree OutcomeTruthful RunningIsStored FilesKept ValidMeansSigned
CHECK_DEADLOCK FALSE
