CONSTANTS
  Speeds <- MCSpeeds
  TopSpeed = 99
  MAX_INTEGRAL = 3
SPECIFICATION Spec
INVARIANT CatchesUp
