CONSTANTS
  s1 = s1
  s2 = s2
  s3 = s3
  Sessions = {s1, s2, s3}
  Nobody = nobody
  MaxStreams = 2
  QueueDepth = 2
  MaxOnTheWay = 1
  DataAfterRace = FALSE
  Settings <- MCSettings
  Failures = TRUE
SPECIFICATION Spec
SYMMETRY SessionSymmetry
INVARIANTS HostChannels RunningHasDma SidesAgree StreamsIsolated
