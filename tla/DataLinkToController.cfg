CONSTANTS
  NPackets = 2
  FragmentCount <- TwoThenOne
  MaxRetries = 2
  FaultKinds = {"loss", "crc", "head", "write"}
  MaxFaults = 2
  SenderResyncs = FALSE
  ReceiverResyncs = TRUE
  PromptLink = FALSE
SPECIFICATION FairSpec
INVARIANTS DeliveredWhole SuccessMeansDelivered FragmentedAtMostOnce
PROPERTIES IsPacketService NeitherEndHangs
CHECK_DEADLOCK FALSE
