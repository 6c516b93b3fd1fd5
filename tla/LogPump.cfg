CONSTANTS
  Clients = {c1}
  Pump = pump
  Nobody = nobody
  MaxLines = 3
  Records = {2}
  Minor = {1}
  ChunkSize = 3
  ReadMax = 1
  MaxStored = 2
  MaxFailures = 1
  SecondStarts = FALSE
SPECIFICATION FairSpec
INVARIANTS ChannelHeld TextInOrder StopLeavesNothing
PROPERTY PumpLives
