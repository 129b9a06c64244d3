CONSTANTS
  c1 = c1  c2 = c2  c3 = c3
  NoClient = NoClient
  Clients <- MCThree
  Commands <- MCCommands
  MaxSent = 2
  MaxPcbs = 2
SPECIFICATION Spec
INVARIANT TargetConnected
INVARIANT AnsweredInOrder
PROPERTY ConnectionFreed
CHECK_DEADLOCK FALSE
