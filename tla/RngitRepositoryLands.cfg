SPECIFICATION RepositorySpec
CONSTANTS
  main = main
  dev = dev
  x = x
  y = y
  Peer = {owner, writer}
  NoPeer = NoPeer
  Helpers = {writer}
  Writers = {writer}
  Creators = {owner, writer}
  Ref = {main, dev}
  Change = {x, y}
  Locals <- MCLocals
  MaxCommands = 2
  MaxCrashes = 1
INVARIANT PushLands
CHECK_DEADLOCK FALSE
