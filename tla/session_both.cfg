SPECIFICATION Spec
CONSTANTS
  MaxPacketId = 6
  Messages = {m1, m2}
  Patterns = {p1}
  Matching <- AllMatch
  QoSLevels = {1, 2}
  DeliveryQoS = {0, 1}
  DeliveryIds = {5, 6}
  MaxPublishes = 2
  MaxInFlight = 2
  MaxDeliveries = 2
  MaxRequests = 2
  MaxConnects = 1
  MaxBatch = 2
  SessionAnswers = {FALSE}
  AwaitsSubAck = TRUE
INVARIANTS
  NoFailure
  HandshakesAgree
  OneTokenPerRequest
  SubscriptionsAgree
PROPERTIES
  PublishingDelivers
  DeliveringDelivers
CHECK_DEADLOCK FALSE
