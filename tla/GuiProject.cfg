CONSTANTS
  SourceDoc <- MCSourceDoc
  Snapshots <- MCSnapshots
  InstName <- MCInstName
  MaxSessions = 2
  MaxBuilds = 3
  MaxCrashes = 1
  Torn = torn
  NoFile = nofile
  None = none
SPECIFICATION ProjectSpec
INVARIANTS LoadedIsCurrent NoSessionLeaks ScopesStayBuildable
PROPERTIES SavesLatestBuild
