CONSTANTS
  Client = {c1}
  Uid = {u1}
  Separation = {100, 250}
  InitialSeparation = 250
  PreEnabled = {}
  default_min_separation_ms = 1000
  RestartAfterLease = TRUE
  WritesMayFail = FALSE
  WebMayRestart = FALSE
  MaxInFlight = 1
  MaxEvents = 2
  MaxDead = 1
SPECIFICATION Spec
INVARIANTS
  SeparationApplied
