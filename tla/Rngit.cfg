SPECIFICATION RngitSpec
\* The client and the peers end after their last request.
CHECK_DEADLOCK FALSE
CONSTANTS
  Part = {"transfer", "repository"}
  \* RngitTransfer
  Nets = {"reliable", "lossy", "unordered"}
  MaxRequests = 2
  MaxUnordered = 1
  Parts = 2
  Window = 1
  ClientAdvRetries = 1
  ServerAdvRetries = 1
  \* RngitRepository
  main = main
  dev = dev
  x = x
  y = y
  Peer = {owner, writer}
  NoPeer = NoPeer
  Helpers = {writer}
  Writers = {writer}
  Creators = {owner, writer}
  Ref = {main, dev}
  Change = {x, y}
  Locals <- MCLocals
  MaxCommands = 2
  MaxCrashes = 1
INVARIANTS
  TransferTypeOK
  ExecutedOnce
  RepositoryTypeOK
  ReportedIsWritten
  WritersOnly
  PushComplete
  RefusalExplained
  OwnedOrGone
PROPERTIES
  CallsSpec
  KeptUntilWhole
  ReliableAnswers
  NoBlindForce
