SPECIFICATION FairSpec
CONSTANTS
  t1 = t1
  t2 = t2
  t3 = t3
  a = a
  b = b
  MaxPacketId = 8
  Messages = {1, 2, 3}
  Patterns = {a, b}
  Tasks = {t1, t2, t3}
  Publishers = {t1}
  Subscribers = {t2, t3}
  Cancellable = {}
  QoSLevels <- ZeroTwo
  PatternSets <- Single
  Incoming <- Mixed
  Matching <- MixedMatching
  BufferSize = 1
  LeaveEarly = FALSE
  Faults = {}
  MaxPublishes = 2
  MaxContexts = 2
  MaxConnects = 1
  MaxBatch = 2
INVARIANTS
  TypeOK
  NoCrash
  ArrivesInOrder
  NoGaps
  ContextGranted
PROPERTIES
  EveryCallReturns
  SentIsTaken
  ReaderGoesOn
  ExitEnds
CHECK_DEADLOCK FALSE
