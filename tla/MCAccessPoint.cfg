CONSTANTS
  c1 = c1  c2 = c2
  Connections <- MCTwo
  Queries <- MCQueries
  MaxSegments <- MCSegments
  MaxAborts = 1
SPECIFICATION Spec
INVARIANT StateOwned
INVARIANT AnsweredOrClosed
INVARIANT AddressIsOurs
INVARIANT AnswerFits
 
PROPERTY KeyEnds
CHECK_DEADLOCK FALSE
