CONSTANTS
  Client = {c1}
  Uid = {u1}
  Separation = {100, 250}
  InitialSeparation = 250
  PreEnabled = {}
  default_min_separation_ms = 1000
  RestartAfterLease = TRUE
  WritesMayFail = TRUE
  WebMayRestart = TRUE
  MaxInFlight = 2
  MaxEvents = 2
  MaxDead = 1
SPECIFICATION FairSpec
INVARIANTS
  NoBlankDisplay
  NothingElseForwarded
  SelectionIsInterest
  SeparationFollows
PROPERTIES
  WantedIsSelected
