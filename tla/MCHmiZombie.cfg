CONSTANTS
  Uid = {u1}
  MaxSocket = 3
  MaxClicks = 4
  MaxDrops = 0
SPECIFICATION Spec
CHECK_DEADLOCK FALSE
INVARIANTS
  OnlyWatchedStream
