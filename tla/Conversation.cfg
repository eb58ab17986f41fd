SPECIFICATION FairSpec
CONSTANTS
  alice = alice
  bob = bob
  Onion = {alice}
  NoOnion = NoOnion
  MaxPeerId = 1
  MaxEvents = 2
  MaxCommands = 2
  MaxLogged = 2
  MaxScroll = 5
  MaxFrames = 1
  Claim <- OwnOnionClaim
  LongBodies = {1}
  LongRows = 2
  Viewports = {1, 2, 3}
  RECONNECT_BACKOFF_START = 2
  RECONNECT_BACKOFF_MAX = 7
\* The system stops after /quit.
CHECK_DEADLOCK FALSE
INVARIANTS
  TypeOK
  RoutesMatchTasks
PROPERTIES
  DisconnectStops
  Reconnects
  NothingStuck
  LossIsShown
  NewestIsShown
