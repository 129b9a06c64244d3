CONSTANTS
  BUF_SIZE = 3
  TEST_ITERATIONS = 3
  MaxUnits = 12
  MESSAGE = 2
  TCP_SND_BUF = 5
SPECIFICATION ClientsSpec
INVARIANT EchoesInOrder
INVARIANT StateOutlivesCallbacks
INVARIANT SuccessIsBacked
INVARIANT VerdictIsFate
PROPERTY SenderVerdictStands
PROPERTY EveryTestEnds
CHECK_DEADLOCK FALSE
