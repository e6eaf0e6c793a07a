SPECIFICATION RnshSpec
\* The listener may end or wait for a peer for ever; a session that is done stops.
CHECK_DEADLOCK FALSE
CONSTANTS
  Part = {"listener", "session"}
  \* RnshListener
  Link = {l1, l2}
  Identity = {member, stranger}
  Cmd = {c1, NoCmd}
  NoCmd = NoCmd
  Allowed = {member}
  NoAuth = FALSE
  LocalCmd = NoCmd
  Shell = Shell
  NoRemoteCmd = FALSE
  Capacity = 2
  Honest = {l1}
  MaxMessages = 4
  Repeats = {"error"}
  \* RnshSession
  ExitCode = {0, 1}
  Slots = 2
  MaxOutput = 2
  MaxEvents = 4
INVARIANTS
  ListenerTypeOK
  AuthGate
  OwnCommand
  SessionTypeOK
  MasterClosedOnce
  ExitTruthful
  NoZombie
PROPERTIES
  HandshakeEnds
  SessionEnds
