CONSTANTS
  Uid = {u1, u2}
  MaxSocket = 3
  MaxClicks = 4
  MaxDrops = 2
SPECIFICATION FairSpec
CHECK_DEADLOCK FALSE
INVARIANTS
  TypeOK
  ServedIsWatched
  StaysDisconnected
PROPERTIES
  Reconnects
