CONSTANTS
  Clients = {c1, c2}
  Nobody = nobody
  NoId = NoId
  named = named
  Given = {named}
  MaxNumber = 6
  MaxSessions = 2
  MaxRuns = 3
  MaxFailures = 1
SPECIFICATION Spec
SYMMETRY ClientSymmetry
INVARIANTS TablesHold ClosedIsQuiet FramesStayInId ToolLeavesNothing
CHECK_DEADLOCK FALSE
