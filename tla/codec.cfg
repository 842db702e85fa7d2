SPECIFICATION MCFairSpec
CONSTANTS
  Base = 2
  Packets <- MCPackets
  Headers <- MCHeaders
  Valid <- MCValid
  MaxPackets = 3
  MaxStreams = 2
  Levels = {"a", "b", "$s"}
  Reserved = {"$s"}
  Malformed = {"a+"}
  QoSLevels = {0, 1}
  MaxLevels = 3
INVARIANTS
  ChunksDoNotMatter
  NothingWholeIsKept
  MatchesAsStandard
PROPERTY
  EveryPacketIsHandled
CHECK_DEADLOCK FALSE
