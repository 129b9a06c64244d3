CONSTANTS
  Readings <- MCReadings
  QueueLength = 2
  BUFFER_SIZE = 2
  MaxReadings = 4
SPECIFICATION Spec
INVARIANT MovingIsMeanOfLast
INVARIANT ReadingsConserved
PROPERTY AllPrinted
CHECK_DEADLOCK FALSE
