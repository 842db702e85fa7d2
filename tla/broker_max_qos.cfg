SPECIFICATION Spec
CONSTANTS
  c1 = c1
  c2 = c2
  a = a
  b = b
  Connections = {c1, c2}
  Client <- MCClient
  Request <- AtMostOne
  Publishers = {c1}
  Subscribers = {c2}
  Messages = {1, 2}
  Matching <- MCMatching
  Topic <- MCTopic
  Retain <- MCRetain
  QoSLevels <- TwoOnly
  Embedded = TRUE
  Refusals = {"SUCCESS"}
  Departures <- NobodyLeaves
  MaxBatch <- Singly
INVARIANT
  SubscribersGetAll
CHECK_DEADLOCK FALSE
