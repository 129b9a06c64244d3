CONSTANTS
  Distances <- MCDistances
  PidDuties <- MCPidDuties
  THRESHOLD = 15
  TARGET = 1
  MaxPulses = 1
  CHECK_INTERVAL = 2
  BUZZ = 2
  TURN = 10
  BRAKE_SLEEP = 5
  STOPPED_SLEEP = 10
  GETCM = 1
SPECIFICATION Spec
INVARIANT CountersAgree
INVARIANT NeverStopsShort
INVARIANT BuzzerBounded
INVARIANT FlagIsFresh
PROPERTY DirectionChangesAtRest
PROPERTY MissionSpec
PROPERTY ObstacleEndsDrive
