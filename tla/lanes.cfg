\* Two lanes, or one past the limit of ids: losses, faulty and foreign frames, calls of
\* close_stream and a disconnect at once, open_stream against disconnect.
CONSTANTS
  Closings = {k1, k2}
  Callers = {c1}
  MaxStreamId = 2
  InitialWindow = 4
  DataChunk = 4
  MessageSizes = {5}
  FrameSizes = {0, 1}
  WaitForSpawnsTask = TRUE
  MaxOpened = 2
  MaxHeard = 1
  Busy = {1}
  MaxBytes = 5
  First = k1
SPECIFICATION MCFairSpec
INVARIANT LanesTypeOK
PROPERTIES  CloseStreamEnds LossEndsStream DisconnectEndsLanes DisconnectTerminates
CHECK_DEADLOCK FALSE
