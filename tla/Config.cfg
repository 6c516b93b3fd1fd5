SPECIFICATION ConfigSpec
CONSTANTS
  Nil = Nil
  Colliding <- MCColliding
  Garbage = "garbage"
  DefaultPlugin = "builtin"
  Projects <- MCProjects
  Plugins <- MCPlugins
  Requests <- MCRequests
  MaxCompiles = 2
INVARIANTS SuccessIsFresh ProjectInTopology
PROPERTY RefusedTouchesNothing
