\* Packets through every cut of the stream; every short byte string as a batch.
CONSTANTS
  Base = 2
  SidWidth = 1
  LenWidth = 3
  MaxPayload = 6
  MaxBatchFrames = 2
  PacketLenWidth = 5
  PayloadSizes = {4, 8}
  NoPadSize = 8
  Randomized = TRUE
  FrameSizes = {1, 3, 6}
  MaxPackets = 2
  MaxQueue = 2
  MaxInput = 15
SPECIFICATION MCSpec
INVARIANTS TypeOK PacketsIntact NothingWithheld ParseExact
CHECK_DEADLOCK FALSE
