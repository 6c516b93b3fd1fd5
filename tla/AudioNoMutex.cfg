CONSTANTS
  s1 = s1
  s2 = s2
  s3 = s3
  Sessions = {s1, s2}
  Nobody = nobody
  MaxStreams = 1
  QueueDepth = 3
  MaxOnTheWay = 1
  DataAfterRace = FALSE
  Settings <- MCLossy
  Failures = FALSE
SPECIFICATION Spec
SYMMETRY SessionSymmetry
INVARIANT DataUnmixed
