CONSTANTS
  QueueCap = 2
  MaxFrames = 3
  MaxRequests = 4
  MaxFaults = 2
  MaxDeaths = 1
SPECIFICATION Spec
INVARIANTS PlayedInOrder HandlesMatchSessions
PROPERTIES EosOkMeansPlayed RequestsReturn
CHECK_DEADLOCK FALSE
