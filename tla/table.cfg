SPECIFICATION FairSpec
CONSTANTS
  p1 = p1
  p2 = p2
  p3 = p3
  f1 = f1
  f2 = f2
  Peers = {p1, p2, p3}
  Fds = {f1, f2}
  None = None
  openMaxConnection = 1
  MaxSends = 3
  MaxSilences = 1
  MaxErrors = 1
  MaxFailures = 1
INVARIANTS
  TypeOK
  EpollFollowsSlot
  ConnectionsAreWatched
  KnownPeersAreConnected
  NoStraySockets
PROPERTIES
  RefusedOnlyWhenFull
  QueueIsWorkedOff
  IdleConnectionsAreClosed
CHECK_DEADLOCK FALSE
