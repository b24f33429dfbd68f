\* A consumer that grants each chunk itself, on top of recv_data.
CONSTANTS
  Callers = {}
  MaxStreamId = 1
  InitialWindow = 4
  DataChunk = 4
  MessageSizes = {}
  FrameSizes = {2}
  WaitForSpawnsTask = FALSE
  ReaderGrants = TRUE
  Stream = 1
  MaxOpened = 1
  MaxUpBytes = 0
  MaxDownBytes = 4
  MaxOdd = 0
  MaxUses = 1
  MayBye = FALSE
  MayLose = FALSE
  Disconnects = "connected"
SPECIFICATION MCSpec
INVARIANT RelayCreditBounded
CHECK_DEADLOCK FALSE
