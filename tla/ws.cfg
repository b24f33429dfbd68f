\* The whole life cycle: BYE, loss of the socket or the user's disconnect, whatever waits.
CONSTANTS
  Callers = {c1}
  MaxStreamId = 1
  InitialWindow = 4
  DataChunk = 4
  MessageSizes = {5}
  FrameSizes = {0, 4}
  WaitForSpawnsTask = FALSE
  ReaderGrants = TRUE
  Stream = 1
  MaxOpened = 1
  MaxUpBytes = 5
  MaxDownBytes = 4
  MaxOdd = 1
  MaxUses = 1
  MayBye = TRUE
  MayLose = TRUE
  Disconnects = "unless BYE"
SPECIFICATION MCFairSpec
INVARIANTS CarrierTypeOK WsTornDown
PROPERTIES DisconnectTerminates LossReleasesStreams UpImplementsChannel
CHECK_DEADLOCK FALSE
