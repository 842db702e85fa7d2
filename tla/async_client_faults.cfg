SPECIFICATION Spec
CONSTANTS
  t1 = t1
  t2 = t2
  t3 = t3
  a = a
  b = b
  MaxPacketId = 8
  Messages = {1, 2}
  Patterns = {a}
  Tasks = {t1, t2}
  Publishers = {t1}
  Subscribers = {t1, t2}
  Cancellable = {t1, t2}
  QoSLevels <- QoSOne
  PatternSets <- Single
  Incoming <- One
  Matching <- OneMatching
  BufferSize = 1
  LeaveEarly = TRUE
  Faults = {"refuse", "disconnect", "eof", "reset", "error"}
  MaxPublishes = 1
  MaxContexts = 2
  MaxConnects = 2
  MaxBatch = 2
INVARIANTS
  ReturnedArrived
  LockHeldInFlush
  AnswerFindsCall
CHECK_DEADLOCK FALSE
