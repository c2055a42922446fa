CONSTANTS
  Client = {c1, c2}
  Uid = {u1, u2}
  Separation = {100, 250}
  InitialSeparation = 250
  PreEnabled = {u2}
  default_min_separation_ms = 1000
  RestartAfterLease = TRUE
  WritesMayFail = FALSE
  WebMayRestart = FALSE
  MaxInFlight = 1
  MaxEvents = 2
  MaxDead = 1
SPECIFICATION Spec
SYMMETRY Symmetry
INVARIANTS
  TypeOK
  NoBlankDisplay
  NothingElseForwarded
  SelectionIsInterest
  SeparationFollows
