SPECIFICATION Spec
CONSTANTS
  MaxPacketId = 6
  Messages = {m1, m2}
  Patterns = {p1}
  Matching <- AllMatch
  QoSLevels = {2}
  DeliveryQoS = {1}
  DeliveryIds = {2}
  MaxPublishes = 1
  MaxInFlight = 3
  MaxDeliveries = 1
  MaxRequests = 1
  MaxConnects = 1
  MaxBatch = 1
  SessionAnswers = {FALSE}
  AwaitsSubAck = TRUE
INVARIANT
  NoFailure
CHECK_DEADLOCK FALSE
