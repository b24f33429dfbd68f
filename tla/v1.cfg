\* Two connections of one object: loops, owner and a failing connect disconnect at once.
CONSTANTS
  MaxConnects = 2
  MaxOut = 1
  MaxIn = 1
  MaxItems = 1
SPECIFICATION MCFairSpec
INVARIANTS TypeOK OldLoopsEnded OwnCarrier NoCircle
PROPERTIES ReceivedOnceInOrder DisconnectEnds CarriersClosed LossEndsConnection
CHECK_DEADLOCK FALSE
