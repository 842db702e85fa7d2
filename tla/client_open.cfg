SPECIFICATION Spec
CONSTANTS
  MaxPacketId = 2
  Messages = {m1}
  Patterns = {p1}
  AutoAck = TRUE
  MaxPending = 2
  MaxOutBuffer = 1
  MaxCount = 2
CONSTRAINT Bounds
INVARIANTS
  TypeOK
  HandshakeSides
  SubscribedCounted
PROPERTY
  OwnPublishKept
CHECK_DEADLOCK FALSE
