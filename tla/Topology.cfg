SPECIFICATION TopologySpec
CONSTANTS
  Nil = Nil
  BadHeader = BadHeader
  Colliding = {}
  Projects <- MCProjects
  OtherFiles <- MCOtherFiles
  Wanted <- MCWanted
  FailingAllocs <- MCFailingAllocs
  FirstRoom = 2
  MaxRouteIds = 2
  Stride = 256
  MaxCompId = 65535
  MaxInstalled = 2
  MaxLost = 1
INVARIANTS NothingLeaks ProjectInstalled
