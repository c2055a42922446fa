CONSTANTS
  Uid = {u1}
  PreEnabled = {}
  default_min_separation_ms = 4
  Period = {0, 5}
  MaxSeparation = 5
  PublishPeriod = 2
  MaxBlocking = 1
  MaxTime = 11
SPECIFICATION Spec
INVARIANTS
  TypeOK
  NoOtherGhost
  NotStarved
PROPERTIES
  WritesAreSeparated
