\* A batch that does not parse ends its lane, and the carrier goes on.
CONSTANTS
  Closings = {}
  Callers = {c1}
  MaxStreamId = 2
  InitialWindow = 4
  DataChunk = 4
  MessageSizes = {5}
  FrameSizes = {0, 1}
  WaitForSpawnsTask = TRUE
  MaxOpened = 1
  MaxHeard = 1
  Busy = {1}
  MaxBytes = 5
  First = k1
SPECIFICATION MCFairSpec
PROPERTIES InvalidFailsCarrier
CHECK_DEADLOCK FALSE
