SPECIFICATION FairSpec
CONSTANTS
  c1 = c1
  c2 = c2
  a = a
  b = b
  Connections = {c1, c2}
  Client <- MCClient
  Request <- MCRequest
  Publishers = {c1, c2}
  Subscribers = {c1, c2}
  Messages = {1, 2}
  Matching <- MCMatching
  Topic <- MCTopic
  Retain <- MCRetain
  QoSLevels <- OneAndTwo
  Embedded = TRUE
  Refusals = {"SUCCESS", "REFUSED"}
  Departures <- OneLeaves
  MaxBatch <- Batches
INVARIANTS
  TypeOK
  SameOrder
  SubscribersGetAll
  OnlyWhatIsAsked
PROPERTY
  PublishIsAnswered
CHECK_DEADLOCK FALSE
