\* The receiving half of one stream, against the abstract credit channel.
CONSTANTS
  Callers = {}
  MaxStreamId = 1
  InitialWindow = 8
  DataChunk = 4
  MessageSizes = {}
  FrameSizes = {1, 4}
  WaitForSpawnsTask = FALSE
  ReaderGrants = FALSE
  Stream = 1
  MaxOpened = 1
  MaxUpBytes = 0
  MaxDownBytes = 9
  MaxOdd = 0
  MaxUses = 1
  MayBye = FALSE
  MayLose = TRUE
  Disconnects = "never"
SPECIFICATION MCSpec
INVARIANT GrantsFollowConsumption
PROPERTY DownImplementsChannel
CHECK_DEADLOCK FALSE
