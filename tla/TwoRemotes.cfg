SPECIFICATION Spec
CONSTANTS
  alice = alice
  bob = bob
  Onion = {alice, bob}
  NoOnion = NoOnion
  MaxPeerId = 2
  MaxEvents = 1
  MaxCommands = 1
  MaxLogged = 1
  MaxScroll = 0
  MaxFrames = 1
  Claim <- BareClaim
  LongBodies = {1}
  LongRows = 2
  Viewports = {1, 2, 3}
  RECONNECT_BACKOFF_START = 1
  RECONNECT_BACKOFF_MAX = 1
SYMMETRY MCSymmetry
CONSTRAINT NoneStuck
\* The system stops after /quit.
CHECK_DEADLOCK FALSE
INVARIANTS
  NoCrossTalk
  HistoryConserved
PROPERTIES
  FocusFollowsIdentity
