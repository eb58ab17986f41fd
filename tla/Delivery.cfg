SPECIFICATION DeliverySpec
CONSTANTS
  alice = alice
  bob = bob
  Onion = {alice}
  NoOnion = NoOnion
  MaxPeerId = 2
  MaxEvents = 1
  MaxCommands = 1
  MaxLogged = 2
  MaxScroll = 0
  MaxFrames = 0
  Claim = {}
  RECONNECT_BACKOFF_START = 1
  RECONNECT_BACKOFF_MAX = 1
CONSTRAINT NoneStuck
\* The system stops after /quit.
CHECK_DEADLOCK FALSE
PROPERTIES
  ImplementsDelivery
