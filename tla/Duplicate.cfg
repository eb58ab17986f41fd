SPECIFICATION Spec
CONSTANTS
  alice = alice
  bob = bob
  Onion = {alice}
  NoOnion = NoOnion
  MaxPeerId = 2
  MaxEvents = 2
  MaxCommands = 0
  MaxLogged = 0
  MaxScroll = 0
  MaxFrames = 1
  Claim <- OwnOnionClaim
  LongBodies = {1}
  LongRows = 2
  Viewports = {1, 2, 3}
  RECONNECT_BACKOFF_START = 1
  RECONNECT_BACKOFF_MAX = 1
CONSTRAINT WhileRunning
\* The system stops after /quit.
CHECK_DEADLOCK FALSE
INVARIANTS
  DuplicateEnds
