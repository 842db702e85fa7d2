SPECIFICATION Spec
CONSTANTS
  c1 = c1
  c2 = c2
  a = a
  b = b
  Connections = {c1, c2}
  Client <- MCClient
  Request <- MCRequest
  Publishers = {c1, c2}
  Subscribers = {}
  Messages = {1, 2}
  Matching <- MCMatching
  Topic <- MCTopic
  Retain <- MCRetain
  QoSLevels <- ZeroOnly
  Embedded = FALSE
  Refusals = {"SUCCESS"}
  Departures <- Disconnects
  MaxBatch <- Singly
INVARIANT
  DeliverDoesNotRaise
CHECK_DEADLOCK FALSE
