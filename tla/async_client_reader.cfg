SPECIFICATION FairSpec
CONSTANTS
  t1 = t1
  t2 = t2
  t3 = t3
  a = a
  b = b
  MaxPacketId = 8
  Messages = {1, 2}
  Patterns = {a}
  Tasks = {t1, t2}
  Publishers = {t2}
  Subscribers = {t2}
  Cancellable = {}
  QoSLevels <- QoSOne
  PatternSets <- Single
  Incoming <- Plain
  Matching <- PlainMatching
  BufferSize = 1
  LeaveEarly = FALSE
  Faults = {}
  MaxPublishes = 1
  MaxContexts = 1
  MaxConnects = 1
  MaxBatch = 2
PROPERTIES
  ReaderGoesOn
CHECK_DEADLOCK FALSE
