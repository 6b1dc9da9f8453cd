\* A client follows a file that another process appends to, cuts and removes.
SPECIFICATION Spec
CONSTANTS
  Initial = 2
  MaxSize = 4
  MaxCuts = 2
INVARIANTS
  SentInOrder
PROPERTIES
  CatchesUp
CHECK_DEADLOCK FALSE
