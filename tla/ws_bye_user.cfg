\* BYE and the loss of the socket while the user disconnects.
CONSTANTS
  Callers = {}
  MaxStreamId = 1
  InitialWindow = 4
  DataChunk = 4
  MessageSizes = {}
  FrameSizes = {}
  WaitForSpawnsTask = FALSE
  ReaderGrants = FALSE
  Stream = 1
  MaxOpened = 1
  MaxUpBytes = 0
  MaxDownBytes = 0
  MaxOdd = 0
  MaxUses = 1
  MayBye = TRUE
  MayLose = TRUE
  Disconnects = "connected"
SPECIFICATION MCSpec
INVARIANT WsTornDown
CHECK_DEADLOCK FALSE
