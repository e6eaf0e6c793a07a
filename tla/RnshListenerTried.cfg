SPECIFICATION ListenerSpec
\* The listener may end, or wait for a peer for ever.
CHECK_DEADLOCK FALSE
CONSTANTS
  Link = {l1, l2}
  Identity = {member, stranger}
  Cmd = {c1, NoCmd}
  NoCmd = NoCmd
  Allowed = {member}
  NoAuth = FALSE
  LocalCmd = NoCmd
  Shell = Shell
  NoRemoteCmd = FALSE
  Capacity = 2
  Honest = {l1}
  MaxMessages = 4
  Repeats = {"error"}
PROPERTIES
  EveryLinkTried
