CONSTANTS
  Control = control
  Data = {d1}
  QueueDepth = 2
  MaxRequests = 5
  Manners <- MCManners
SPECIFICATION FairSpec
INVARIANTS QueueInOrder NothingWorksOn
PROPERTIES DeinitReturns EveryRequestAnswered
CHECK_DEADLOCK FALSE
