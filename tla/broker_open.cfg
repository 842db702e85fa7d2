SPECIFICATION Spec
CONSTANTS
  MaxPacketId = 2
  Messages = {m1}
  Patterns = {p1, p2}
  AutoAck = FALSE
  Matching <- AllMatch
  MaxPending = 2
  MaxOutBuffer = 1
CONSTRAINT Bounds
INVARIANT
  TypeOK
PROPERTIES
  SubscribedOnRequest
  CompletedOnce
CHECK_DEADLOCK FALSE
