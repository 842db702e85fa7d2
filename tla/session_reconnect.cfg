SPECIFICATION Spec
CONSTANTS
  MaxPacketId = 2
  Messages = {m1, m2, m3, m4, m5}
  Patterns = {p1}
  Matching <- AllMatch
  QoSLevels = {0, 1}
  DeliveryQoS = {}
  DeliveryIds = {}
  MaxPublishes = 5
  MaxInFlight = 2
  MaxDeliveries = 0
  MaxRequests = 0
  MaxConnects = 3
  MaxBatch = 2
  SessionAnswers = {TRUE}
  AwaitsSubAck = TRUE
INVARIANTS
  
  OneTokenPerRequest
  PendingInOrder
PROPERTIES
  EventuallyAcknowledged
  FreshIds
CHECK_DEADLOCK FALSE
