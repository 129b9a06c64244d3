CONSTANTS
  Wait = 3
  MeasTimeout = 5
  RiseDelay = 1
  MaxEcho = 8
  MaxGap = 6
  Unit = 2
  MIN_DISTANCE_CM = 2
  MAX_DISTANCE_CM = 9
  JUMP = 5
  X0 = 6
  DISTANCE_THRESHOLD_CM = 4
  Settle = 2
SPECIFICATION RangingSpec
INVARIANT EchoIsRecent
INVARIANT ReadsOwnEcho
INVARIANT NoPhantom
INVARIANT Settles
PROPERTY CallReturns
