CONSTANT Tracks <- MCTwice
SPECIFICATION Spec
INVARIANT EveryLabelDecodes
CHECK_DEADLOCK FALSE
