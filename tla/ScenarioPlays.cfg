CONSTANTS
  CanonicalWidth = 5
  CanonicalHeight = 3
  Unit = 4
  Absent = Absent
  IntMax = 2047
  UintMax = 4095
  MaxTickRate = 240
  NoName = ""
  UnsafeNames = {""}
  Starts <- MCStarts
  EmptyBytes = 4
  ObstacleBytes = 2
  HazardBytes = 3
  MaxPayloadBytes = 16
  WatchedTicks = {0, 1, 2, 3, 4, 5}
SPECIFICATION Spec
INVARIANTS AcceptedScenariosPlay WrittenTimesAreKept RedPlaysTheSameGame
PROPERTY NothingIsCrossed
CHECK_DEADLOCK FALSE
