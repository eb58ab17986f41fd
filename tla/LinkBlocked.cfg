SPECIFICATION Spec
CONSTANTS
  A = a
  B = b
  a = a
  b = b
  PING_INTERVAL = 1
  LIVENESS_TIMEOUT = 2
  Capacity = 1
  MaxStall = 1
  MaxLines = 2
INVARIANTS
  SilentLinkDeclaredDead
