CONSTANTS
  Control = control
  Data = {d1}
  QueueDepth = 4
  MaxRequests = 5
  Manners <- HurriedRestarts
SPECIFICATION Spec
INVARIANTS HandledInOrder
CHECK_DEADLOCK FALSE
