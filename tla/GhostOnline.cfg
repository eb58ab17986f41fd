SPECIFICATION Spec
CONSTANTS
  alice = alice
  bob = bob
  Onion = {alice}
  NoOnion = NoOnion
  MaxPeerId = 1
  MaxEvents = 2
  MaxCommands = 1
  MaxLogged = 0
  MaxScroll = 0
  MaxFrames = 0
  Claim <- OwnOnionClaim
  LongBodies = {1}
  LongRows = 2
  Viewports = {1, 2, 3}
  RECONNECT_BACKOFF_START = 1
  RECONNECT_BACKOFF_MAX = 1
CONSTRAINT WhileRunning
\* The system stops after /quit.
CHECK_DEADLOCK FALSE
INVARIANTS
  OnlineIsBacked
