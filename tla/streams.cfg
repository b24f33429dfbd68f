\* Two callers on one stream: every interleaving of waiting, waking and sending.
CONSTANTS
  Callers = {c1, c2}
  MaxStreamId = 1
  InitialWindow = 4
  DataChunk = 3
  MessageSizes = {1, 4}
  FrameSizes = {0, 1, 3}
  WaitForSpawnsTask = FALSE
  MaxOpened = 1
  MaxSent = 8
  MaxCredited = 4
  MaxConsumed = 1
  MaxQueue = 1
SPECIFICATION MCSpec
SYMMETRY CallerSymmetry
INVARIANTS SentWithinCredit NoStrandedWaiter NoMissedCredit
CHECK_DEADLOCK FALSE
