\* A recv() that waits when the connection comes down.
CONSTANTS
  MaxConnects = 1
  MaxOut = 1
  MaxIn = 1
  MaxItems = 1
SPECIFICATION MCFairSpec
PROPERTY RecvAnswers
CHECK_DEADLOCK FALSE
